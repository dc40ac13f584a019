------------------------------- MODULE Master -------------------------------
(***************************************************************************)
(* master/src/server.rs: the control-plane handlers of the master, over    *)
(* the two registries and the matchmaker, together with the clients at the *)
(* other end of the control connections.                                   *)
(*                                                                         *)
(* A producer connection is one control task of producer/client.rs: it     *)
(* sends PRDY when its ring has items and its link is idle, a heartbeat on *)
(* a timer, and after an ASGN a DELV or FAIL followed at once by PRDY and  *)
(* a heartbeat.  A consumer connection sends CRDY, again after a batch or  *)
(* after its batch timeout, hence at any time.                             *)
(***************************************************************************)
EXTENDS Matchmaker

CONSTANTS
    MaxBatch,        \* max_items of every CRDY
    MaxBacklog,      \* bound: messages a producer holds
    KeepPublishing,  \* bound: whether a connected producer publishes more
    MaxCycles,       \* bound: CRDY frames sent per consumer
    MaxUnread,       \* bound: frames unread when the heartbeat timer fires
    MatchLoopOn,     \* bound: whether the match loop runs
    ProducerDrops,   \* producers whose connection may break
    ConsumerDrops    \* consumers whose connection may break

ASSUME BoundAssumption ==
    /\ MaxBatch \in Nat \ {0}
    /\ MaxBacklog \in Nat /\ MaxCycles \in Nat /\ MaxUnread \in Nat
    /\ KeepPublishing \in BOOLEAN /\ MatchLoopOn \in BOOLEAN
    /\ ProducerDrops \subseteq Producers
    /\ ConsumerDrops \subseteq Consumers

VARIABLES
    client,      \* producer id -> link state, pending and ring of the client
    toMaster,    \* producer id -> control frames the master has not read
    conn,        \* consumer id -> state of the connection
    crdy,        \* consumer id -> CRDY frames the master has not read
    cycles       \* consumer id -> CRDY frames sent so far

clientVars == <<client, toMaster, conn, crdy, cycles>>
envVars == <<asgn, dropped, granted, clientVars>>
vars == <<regVars, consVars, innerVars, task, envVars>>

\* n: ring_messages of a HBRP, msg_count of a DELV or FAIL.
\* pend: pending_messages of a HBRP.
Frame == [type : {"PRDY", "HBRP", "DELV", "FAIL"}, n : Nat, pend : Nat]

Prdy       == [type |-> "PRDY", n |-> 0, pend |-> 0]
Hbrp(n, q) == [type |-> "HBRP", n |-> n, pend |-> q]
Delv(n)    == [type |-> "DELV", n |-> n, pend |-> 0]
Fail(n)    == [type |-> "FAIL", n |-> n, pend |-> 0]

Init ==
    /\ RegistryInit /\ ConsumersInit /\ MatchmakerInit
    /\ task = [t \in Tasks |-> AtRest(IF t = MatchLoop THEN "tick" ELSE "off")]
    /\ client = [p \in Producers |-> [link |-> "off", pend |-> 0, ring |-> 0]]
    /\ toMaster = [p \in Producers |-> <<>>]
    /\ conn = [c \in Consumers |-> "off"]
    /\ crdy = [c \in Consumers |-> 0]
    /\ cycles = [c \in Consumers |-> 0]

-----------------------------------------------------------------------------
(* Producer clients.                                                       *)

MasterState == <<regVars, consVars, innerVars, granted, task>>

\* maybe_send_ready, then maybe_send_heartbeat, with r items in the ring.
Announce(r, q) == IF r > 0 THEN <<Prdy, Hbrp(r, q)>> ELSE <<Hbrp(r, q)>>
LinkAfter(r)   == IF r > 0 THEN "Ready" ELSE "Idle"

Publish(p) ==
    /\ client[p].link = "off" \/ (KeepPublishing /\ client[p].link # "gone")
    /\ client[p].pend + client[p].ring < MaxBacklog
    /\ client' = [client EXCEPT ![p].pend = @ + 1]
    /\ UNCHANGED <<MasterState, asgn, dropped, toMaster, conn, crdy, cycles>>

\* run_accumulator moves the pending messages to the ring.
Accumulate(p) ==
    /\ client[p].link # "gone" /\ client[p].pend > 0
    /\ client' = [client EXCEPT ![p].ring = @ + client[p].pend, ![p].pend = 0]
    /\ UNCHANGED <<MasterState, asgn, dropped, toMaster, conn, crdy, cycles>>

ProducerConnect(p) ==
    /\ client[p].link = "off"
    /\ client' = [client EXCEPT ![p].link = LinkAfter(client[p].ring)]
    /\ toMaster' = [toMaster EXCEPT ![p] =
                        Announce(client[p].ring, client[p].pend)]
    /\ UNCHANGED <<MasterState, asgn, dropped, conn, crdy, cycles>>

SendReady(p) ==
    /\ client[p].link = "Idle" /\ client[p].ring > 0
    /\ client' = [client EXCEPT ![p].link = "Ready"]
    /\ toMaster' = [toMaster EXCEPT ![p] = Append(@, Prdy)]
    /\ UNCHANGED <<MasterState, asgn, dropped, conn, crdy, cycles>>

SendHeartbeat(p) ==
    /\ client[p].link \in {"Idle", "Ready"}
    /\ Len(toMaster[p]) < MaxUnread
    /\ toMaster' = [toMaster EXCEPT ![p] =
                        Append(@, Hbrp(client[p].ring, client[p].pend))]
    /\ UNCHANGED <<MasterState, asgn, dropped, client, conn, crdy, cycles>>

\* deliver_assign drains up to MaxBatch items; the report, the link and the
\* announcement follow before the control task reads again.
Deliver(p) ==
    /\ client[p].link \in {"Idle", "Ready"} /\ asgn[p] # <<>>
    /\ asgn' = [asgn EXCEPT ![p] = Tail(@)]
    /\ LET total == client[p].pend + client[p].ring
           n     == IF total < MaxBatch THEN total ELSE MaxBatch
       IN  \E ok \in {TRUE, n = 0} :
             LET left == IF ok THEN total - n ELSE total
             IN  /\ client' = [client EXCEPT ![p] =
                        [link |-> LinkAfter(left), pend |-> 0, ring |-> left]]
                 /\ toMaster' = [toMaster EXCEPT ![p] =
                        @ \o <<IF ok THEN Delv(n) ELSE Fail(n)>>
                          \o Announce(left, 0)]
    /\ UNCHANGED <<MasterState, dropped, conn, crdy, cycles>>

\* The connection breaks; some of the frames on the wire may be lost with it.
ProducerDrop(p) ==
    /\ p \in ProducerDrops /\ client[p].link \in {"Idle", "Ready"}
    /\ client' = [client EXCEPT ![p].link = "gone"]
    /\ dropped' = dropped \cup {p}
    /\ \E k \in 0..Len(toMaster[p]) :
           toMaster' = [toMaster EXCEPT ![p] = SubSeq(@, 1, k)]
    /\ asgn' = [asgn EXCEPT ![p] = <<>>]
    /\ UNCHANGED <<MasterState, conn, crdy, cycles>>

\* STALE_BUSY_MS pass after an ASGN.
BusyExpires(p) ==
    /\ producers[p].state = "Busy" /\ ~producers[p].expired
    /\ producers' = [producers EXCEPT ![p].expired = TRUE]
    /\ UNCHANGED <<ready_count, busy_count, consVars, innerVars, asgn,
                   dropped, granted, task, clientVars>>

-----------------------------------------------------------------------------
(* Consumer clients.                                                       *)

\* REG!, which handle_consumer answers by registering the connection.
ConsumerConnect(c) ==
    /\ conn[c] = "off" /\ At(ConsumerHandler(c), "off")
    /\ conn' = [conn EXCEPT ![c] = "up"]
    /\ register_consumer(c)
    /\ Go(ConsumerHandler(c), "read")
    /\ UNCHANGED <<regVars, awaiting, innerVars, asgn, dropped, granted,
                   client, toMaster, crdy, cycles>>

SendCrdy(c) ==
    /\ conn[c] = "up" /\ crdy[c] = 0 /\ cycles[c] < MaxCycles
    /\ crdy' = [crdy EXCEPT ![c] = 1]
    /\ cycles' = [cycles EXCEPT ![c] = @ + 1]
    /\ UNCHANGED <<MasterState, asgn, dropped, client, toMaster, conn>>

ConsumerDrop(c) ==
    /\ c \in ConsumerDrops /\ conn[c] = "up"
    /\ conn' = [conn EXCEPT ![c] = "gone"]
    /\ \E k \in 0..crdy[c] : crdy' = [crdy EXCEPT ![c] = k]
    /\ UNCHANGED <<MasterState, asgn, dropped, client, toMaster, cycles>>

-----------------------------------------------------------------------------
(* Steps shared by several tasks.                                          *)

\* untrack_awaiting is skipped when there is no producer to untrack from.
GoUntrack(t, pid, c, next) ==
    Become(t, [task[t] EXCEPT !.c = c, !.p = pid,
                              !.next = IF pid = None THEN "off" ELSE next,
                              !.pc = IF pid = None THEN next ELSE "untrack"])

Untrack(t) ==
    /\ At(t, "untrack")
    /\ untrack_awaiting(task[t].p, {task[t].c})
    /\ Become(t, [task[t] EXCEPT !.pc = task[t].next, !.next = "off",
                                 !.p = None])
    /\ UNCHANGED <<regVars, consumers, innerVars, envVars>>

\* set_phase, first lock; untrack_awaiting and the last lock follow.
PhaseTake(t) ==
    /\ At(t, "phase_take")
    /\ take_assigned(task[t].c)
    /\ GoUntrack(t, consumers[task[t].c].assigned, task[t].c, "phase_set")
    /\ UNCHANGED <<regVars, awaiting, innerVars, envVars>>

\* push_consumer_wait.
Enqueue(t, next) ==
    /\ At(t, "enqueue")
    /\ push_waiting(task[t].c)
    /\ Rest(t, next)
    /\ UNCHANGED <<regVars, consVars, ready, consumer_rr, producer_rr, asgn,
                   dropped, clientVars>>

MatcherStep(t) == TryMatch(t) /\ UNCHANGED <<dropped, clientVars>>

-----------------------------------------------------------------------------
(* handle_producer.                                                        *)

NextFrame(p, type) ==
    /\ At(ProducerHandler(p), "read")
    /\ toMaster[p] # <<>> /\ Head(toMaster[p]).type \in type
    /\ toMaster' = [toMaster EXCEPT ![p] = Tail(@)]

RegisterProducer(p) ==
    /\ At(ProducerHandler(p), "off") /\ toMaster[p] # <<>>
    /\ register_producer(p)
    /\ Go(ProducerHandler(p), "read")
    /\ UNCHANGED <<consVars, innerVars, envVars>>

\* on_producer_ready, up to its first lock.
ReadPrdy(p) ==
    /\ NextFrame(p, {"PRDY"})
    /\ Go(ProducerHandler(p),
          CASE producers[p].state = "Busy"  -> "clear_stale_busy"
            [] producers[p].state = "Ready" -> "remark_prdy"
            [] OTHER                        -> "mark_prdy")
    /\ UNCHANGED <<regVars, consVars, innerVars, asgn, dropped, granted,
                   client, conn, crdy, cycles>>

ClearStaleBusy(p) ==
    /\ At(ProducerHandler(p), "clear_stale_busy")
    /\ clear_stale_busy(p)
    /\ Go(ProducerHandler(p), "mark_prdy")
    /\ UNCHANGED <<consVars, innerVars, envVars>>

MarkPrdy(p) ==
    /\ task[ProducerHandler(p)].pc \in {"mark_prdy", "remark_prdy"}
    /\ mark_prdy(p)
    /\ Go(ProducerHandler(p),
          IF At(ProducerHandler(p), "mark_prdy") THEN "pool_prdy" ELSE "pool")
    /\ UNCHANGED <<consVars, innerVars, envVars>>

\* ensure_in_ready_pool; set_state follows for a new PRDY, else try_match.
EnsureInPool(p) ==
    /\ task[ProducerHandler(p)].pc \in {"pool_prdy", "pool"}
    /\ ensure_in_ready_pool(p)
    /\ Go(ProducerHandler(p),
          IF At(ProducerHandler(p), "pool_prdy") THEN "set_ready" ELSE "peek")
    /\ UNCHANGED <<regVars, consVars, waiting, consumer_rr, producer_rr,
                   envVars>>

SetReady(p) ==
    /\ At(ProducerHandler(p), "set_ready")
    /\ set_state(p, "Ready")
    /\ Go(ProducerHandler(p), "peek")
    /\ UNCHANGED <<consVars, innerVars, envVars>>

\* HBRP: a rematch wakes the producer, else a Ready producer retries the match.
ReadHeartbeat(p) ==
    /\ NextFrame(p, {"HBRP"})
    /\ record_heartbeat(p, Head(toMaster[p]))
    /\ Go(ProducerHandler(p),
          IF rematch(p, Head(toMaster[p])) THEN "pool" ELSE "hb_state")
    /\ UNCHANGED <<consVars, innerVars, asgn, dropped, granted, client, conn,
                   crdy, cycles>>

HeartbeatState(p) ==
    /\ At(ProducerHandler(p), "hb_state")
    /\ Go(ProducerHandler(p),
          IF producers[p].state = "Ready" THEN "hb_waiting" ELSE "read")
    /\ UNCHANGED <<regVars, consVars, innerVars, envVars>>

HeartbeatWaiting(p) ==
    /\ At(ProducerHandler(p), "hb_waiting")
    /\ Go(ProducerHandler(p), IF waiting # <<>> THEN "peek" ELSE "read")
    /\ UNCHANGED <<regVars, consVars, innerVars, envVars>>

\* finish_producer_batch: whose batch was it?
ReadReport(p) ==
    /\ NextFrame(p, {"DELV", "FAIL"})
    /\ take_pending_consumer(p)
    /\ LET ok == Head(toMaster[p]).type = "DELV"
       IN  Become(ProducerHandler(p),
                  [AtRest(CASE producers[p].pending = None -> "find"
                            [] producers[p].pending # None /\ ok -> "finish"
                            [] OTHER -> "phase_take")
                   EXCEPT !.c = producers[p].pending, !.ok = ok,
                          !.n = Head(toMaster[p]).n])
    /\ UNCHANGED <<consVars, innerVars, asgn, dropped, granted, client, conn,
                   crdy, cycles>>

\* No pending consumer: one whose entry names this producer, if there is one.
FindAssigned(p) ==
    LET t == ProducerHandler(p)
    IN  /\ At(t, "find")
        /\ \/ /\ AssignedConsumers(p) = {}
              /\ Go(t, "record")
           \/ \E c \in AssignedConsumers(p) :
                 Become(t, [task[t] EXCEPT !.c = c,
                                           !.pc = IF task[t].ok THEN "finish"
                                                  ELSE "phase_take"])
        /\ UNCHANGED <<regVars, consVars, innerVars, envVars>>

FinishBatch(p) ==
    LET t == ProducerHandler(p)
    IN  /\ At(t, "finish")
        /\ finish_batch(task[t].c, task[t].n)
        /\ GoUntrack(t, consumers[task[t].c].assigned, task[t].c, "record")
        /\ UNCHANGED <<regVars, awaiting, innerVars, envVars>>

DeliveryFailed(p) ==
    /\ At(ProducerHandler(p), "phase_set")
    /\ set_consumer_state(task[ProducerHandler(p)].c, "delivery_failed")
    /\ Go(ProducerHandler(p), "record")
    /\ UNCHANGED <<regVars, awaiting, innerVars, envVars>>

RecordReport(p) ==
    /\ At(ProducerHandler(p), "record")
    /\ record_report(p)
    /\ Rest(ProducerHandler(p), "done_state")
    /\ UNCHANGED <<consVars, innerVars, envVars>>

\* on_producer_done.
DoneState(p) ==
    /\ At(ProducerHandler(p), "done_state")
    /\ set_state(p, "Idle")
    /\ Go(ProducerHandler(p), "done_pool")
    /\ UNCHANGED <<consVars, innerVars, envVars>>

DonePool(p) ==
    /\ At(ProducerHandler(p), "done_pool")
    /\ ready' = ready \ {p}
    /\ Go(ProducerHandler(p), "peek")
    /\ UNCHANGED <<regVars, consVars, waiting, consumer_rr, producer_rr,
                   envVars>>

\* End of file: the handler returns, its guard spawns on_producer_disconnect.
ProducerEof(p) ==
    /\ At(ProducerHandler(p), "read") /\ toMaster[p] = <<>> /\ p \in dropped
    /\ task' = [task EXCEPT ![ProducerHandler(p)] = AtRest("end"),
                            ![ProducerCleanup(p)] = AtRest("unpool")]
    /\ UNCHANGED <<regVars, consVars, innerVars, envVars>>

ProducerHandlerStep(p) ==
    \/ MatcherStep(ProducerHandler(p))
    \/ Untrack(ProducerHandler(p)) \/ PhaseTake(ProducerHandler(p))
    \/ RegisterProducer(p) \/ ReadPrdy(p) \/ ClearStaleBusy(p) \/ MarkPrdy(p)
    \/ EnsureInPool(p) \/ SetReady(p) \/ ReadHeartbeat(p) \/ HeartbeatState(p)
    \/ HeartbeatWaiting(p) \/ ReadReport(p) \/ FindAssigned(p) \/ FinishBatch(p)
    \/ DeliveryFailed(p) \/ RecordReport(p) \/ DoneState(p) \/ DonePool(p)
    \/ ProducerEof(p)

-----------------------------------------------------------------------------
(* on_producer_disconnect.                                                 *)

Unpool(p) ==
    /\ At(ProducerCleanup(p), "unpool")
    /\ ready' = ready \ {p}
    /\ Go(ProducerCleanup(p), "take_pending")
    /\ UNCHANGED <<regVars, consVars, waiting, consumer_rr, producer_rr,
                   envVars>>

TakePending(p) ==
    /\ At(ProducerCleanup(p), "take_pending")
    /\ take_pending_consumer(p)
    /\ Become(ProducerCleanup(p),
              [AtRest(IF producers[p].pending = None THEN "remove"
                                                     ELSE "requeue_check")
               EXCEPT !.c = producers[p].pending])
    /\ UNCHANGED <<consVars, innerVars, envVars>>

\* should_requeue and match_context, which only fails for a consumer that left.
RequeueCheck(p) ==
    LET t == ProducerCleanup(p)
    IN  /\ At(t, "requeue_check")
        /\ Go(t, IF consumers[task[t].c].state
                        \in {"awaiting_batch", "matcher_queue"}
                 THEN "phase_take" ELSE "remove")
        /\ UNCHANGED <<regVars, consVars, innerVars, envVars>>

RequeuePhase(p) ==
    /\ At(ProducerCleanup(p), "phase_set")
    /\ set_consumer_state(task[ProducerCleanup(p)].c, "matcher_queue")
    /\ Go(ProducerCleanup(p), "enqueue")
    /\ UNCHANGED <<regVars, awaiting, innerVars, envVars>>

RequeueConsumer(p) ==
    /\ Enqueue(ProducerCleanup(p), "remove")
    /\ Revoke(task[ProducerCleanup(p)].c)

RemoveProducer(p) ==
    /\ At(ProducerCleanup(p), "remove")
    /\ remove_producer(p)
    /\ Rest(ProducerCleanup(p), "peek")
    /\ UNCHANGED <<consVars, innerVars, envVars>>

ProducerCleanupStep(p) ==
    \/ MatcherStep(ProducerCleanup(p))
    \/ Untrack(ProducerCleanup(p)) \/ PhaseTake(ProducerCleanup(p))
    \/ Unpool(p) \/ TakePending(p) \/ RequeueCheck(p) \/ RequeuePhase(p)
    \/ RequeueConsumer(p) \/ RemoveProducer(p)

-----------------------------------------------------------------------------
(* handle_consumer.                                                        *)

\* begin_cycle, first lock; untrack_awaiting and the last lock follow.
ReadCrdy(c) ==
    /\ At(ConsumerHandler(c), "read") /\ crdy[c] > 0
    /\ crdy' = [crdy EXCEPT ![c] = @ - 1]
    /\ take_assigned(c)
    /\ GoUntrack(ConsumerHandler(c), consumers[c].assigned, c, "cycle_set")
    /\ UNCHANGED <<regVars, awaiting, innerVars, asgn, dropped, granted,
                   client, toMaster, conn, cycles>>

CycleSet(c) ==
    /\ At(ConsumerHandler(c), "cycle_set")
    /\ set_consumer_state(c, "matcher_queue")
    /\ Become(ConsumerHandler(c), [AtRest("enqueue") EXCEPT !.c = c])
    /\ UNCHANGED <<regVars, awaiting, innerVars, envVars>>

EnqueueConsumer(c) ==
    /\ Enqueue(ConsumerHandler(c), "peek")
    /\ UNCHANGED granted

\* End of file: ConsumerSession is dropped and spawns its cleanup.
ConsumerEof(c) ==
    /\ At(ConsumerHandler(c), "read") /\ crdy[c] = 0 /\ conn[c] = "gone"
    /\ task' = [task EXCEPT ![ConsumerHandler(c)] = AtRest("end"),
                            ![ConsumerCleanup(c)] = AtRest("cancel")]
    /\ UNCHANGED <<regVars, consVars, innerVars, envVars>>

ConsumerHandlerStep(c) ==
    \/ MatcherStep(ConsumerHandler(c)) \/ Untrack(ConsumerHandler(c))
    \/ ReadCrdy(c) \/ CycleSet(c) \/ EnqueueConsumer(c) \/ ConsumerEof(c)

-----------------------------------------------------------------------------
(* ConsumerSession::drop: cancel_consumer, then registry.remove.           *)

\* position + swap_remove: the first entry of the consumer leaves the queue.
CancelConsumer(c) ==
    /\ At(ConsumerCleanup(c), "cancel")
    /\ \/ ~InQueue(c) /\ UNCHANGED waiting
       \/ \E i \in DOMAIN waiting :
             /\ waiting[i] = c /\ \A j \in 1..i - 1 : waiting[j] # c
             /\ waiting' = SwapRemoved(waiting, i)
    /\ Go(ConsumerCleanup(c), "clear")
    /\ UNCHANGED <<regVars, consVars, ready, consumer_rr, producer_rr, envVars>>

ClearAssignments(c) ==
    /\ At(ConsumerCleanup(c), "clear")
    /\ clear_assignments_to_consumer(c)
    /\ Go(ConsumerCleanup(c),
          IF AssignedTo(c) # {} THEN "peek" ELSE "unregister")
    /\ UNCHANGED <<consVars, innerVars, envVars>>

Unregister(c) ==
    /\ At(ConsumerCleanup(c), "unregister")
    /\ remove_consumer(c)
    /\ GoUntrack(ConsumerCleanup(c), consumers[c].assigned, c, "end")
    /\ UNCHANGED <<regVars, awaiting, innerVars, envVars>>

ConsumerCleanupStep(c) ==
    \/ MatcherStep(ConsumerCleanup(c)) \/ Untrack(ConsumerCleanup(c))
    \/ CancelConsumer(c) \/ ClearAssignments(c) \/ Unregister(c)

-----------------------------------------------------------------------------
(* run_match_loop: every 250 ms, if a consumer waits, sync_ready_pool and   *)
(* try_match.                                                              *)

Tick ==
    /\ MatchLoopOn /\ At(MatchLoop, "tick")
    /\ Go(MatchLoop, IF waiting = <<>> THEN "tick" ELSE "sync_read")
    /\ UNCHANGED <<regVars, consVars, innerVars, envVars>>

SyncRead ==
    /\ At(MatchLoop, "sync_read")
    /\ Become(MatchLoop, [AtRest("sync_registry") EXCEPT !.cand = ready])
    /\ UNCHANGED <<regVars, consVars, innerVars, envVars>>

SyncRegistry ==
    LET current == task[MatchLoop].cand
    IN  /\ At(MatchLoop, "sync_registry")
        /\ sync_matcher_ready_state(current)
        /\ Become(MatchLoop, [AtRest("sync_apply") EXCEPT
                                   !.cand = SyncAdd(current),
                                   !.stale = StaleAmong(current)])
        /\ UNCHANGED <<consVars, innerVars, envVars>>

SyncApply ==
    /\ At(MatchLoop, "sync_apply")
    /\ ready' = (ready \ task[MatchLoop].stale) \cup task[MatchLoop].cand
    /\ Rest(MatchLoop, "peek")
    /\ UNCHANGED <<regVars, consVars, waiting, consumer_rr, producer_rr,
                   envVars>>

MatchLoopStep ==
    Tick \/ SyncRead \/ SyncRegistry \/ SyncApply \/ MatcherStep(MatchLoop)

-----------------------------------------------------------------------------
ProducerClientStep(p) ==
    \/ Publish(p) \/ Accumulate(p) \/ ProducerConnect(p) \/ SendReady(p)
    \/ SendHeartbeat(p) \/ Deliver(p) \/ ProducerDrop(p) \/ BusyExpires(p)

ConsumerClientStep(c) == ConsumerConnect(c) \/ SendCrdy(c) \/ ConsumerDrop(c)

Next ==
    \/ \E p \in Producers : \/ ProducerClientStep(p)
                            \/ ProducerHandlerStep(p)
                            \/ ProducerCleanupStep(p)
    \/ \E c \in Consumers : \/ ConsumerClientStep(c)
                            \/ ConsumerHandlerStep(c)
                            \/ ConsumerCleanupStep(c)
    \/ MatchLoopStep

Spec == Init /\ [][Next]_vars

-----------------------------------------------------------------------------
(* Types.                                                                  *)

Client == [link : {"off", "Idle", "Ready", "gone"}, pend : Nat, ring : Nat]

RegistryOK ==
    /\ producers \in [Producers -> ProducerEntry]
    /\ ready_count \in Int /\ busy_count \in Int

ConsumersOK ==
    /\ consumers \in [Consumers -> ConsumerEntry]
    /\ awaiting \in [Producers -> SUBSET Consumers]

InnerOK ==
    /\ ready \subseteq Producers
    /\ waiting \in Seq(Consumers)
    /\ consumer_rr \in Nat /\ producer_rr \in Nat

TasksOK ==
    /\ task \in [Tasks -> Task]
    /\ \A t \in Tasks : WellFormed(task[t])

WireOK ==
    /\ asgn \in [Producers -> Seq(Consumers)]
    /\ dropped \subseteq Producers
    /\ granted \in [Consumers -> Int]

ClientsOK ==
    /\ client \in [Producers -> Client]
    /\ toMaster \in [Producers -> Seq(Frame)]
    /\ conn \in [Consumers -> {"off", "up", "gone"}]
    /\ crdy \in [Consumers -> Nat]
    /\ cycles \in [Consumers -> Nat]

\* The registries, the matcher, the tasks and the connections keep their types,
\* and a task that needs a producer or a consumer id has one.
TypeOK ==
    RegistryOK /\ ConsumersOK /\ InnerOK /\ TasksOK /\ WireOK /\ ClientsOK

-----------------------------------------------------------------------------
(* Safety.                                                                 *)

\* The counters behind producers_ready and producers_busy of /metrics are the
\* numbers of Ready and Busy entries, whatever mix of transitions, prunings
\* and removals the tasks perform (transition_entry and remove).
CountersMatch ==
    /\ ready_count = Cardinality(InState(producers, "Ready"))
    /\ busy_count = Cardinality(InState(producers, "Busy"))

\* The task took the consumer from the queue in try_match and has not settled
\* it yet, or is about to push it onto the queue.
Carries(r, c) ==
    /\ r.c = c
    /\ r.pc \in {"send", "send_failed", "requeue", "mark_assigned",
                 "stale_read", "stale_release", "stale_index", "mark_awaiting",
                 "enqueue"}

\* No CRDY is lost: a consumer the registry shows in "matcher_queue" is in the
\* queue, in the hands of a running try_match, or about to be pushed, unless
\* its connection is being torn down.  CRDY gets no reply, so a consumer that
\* drops out of all three waits for nothing until its own batch timeout.
NoLostCrdy ==
    \A c \in Consumers :
        /\ consumers[c].state = "matcher_queue"
        /\ At(ConsumerCleanup(c), "off")
        => InQueue(c) \/ \E t \in Tasks : Carries(task[t], c)

\* Consumers pull: the master never answers more CRDY frames of a consumer than
\* it has read from it, whatever re-enters the queue after failed ASGN writes,
\* producer disconnects and repeated CRDYs.
PullOnly == \A c \in Consumers : granted[c] <= cycles[c] - crdy[c]

\* begin_cycle, set_phase and remove take the producer of a consumer under one
\* lock and change its state under a later one; these tasks are in between.
Releasing(c) ==
    \/ task[ConsumerHandler(c)].pc \in {"untrack", "cycle_set"}
    \/ \E p \in Producers : \E t \in {ProducerHandler(p), ProducerCleanup(p)} :
            task[t].c = c /\ task[t].pc \in {"untrack", "phase_set"}

\* A consumer shown as "awaiting_batch" has a producer to await, or a task is
\* about to move it on: release_stale_assignments and a delivery report of
\* another producer never leave it waiting for nobody.
AwaitsSomebody ==
    \A c \in Consumers :
        consumers[c].state = "awaiting_batch"
        => consumers[c].assigned # None \/ Releasing(c)

\* A consumer occurs at most once in the CRDY queue, however often it sends
\* CRDY, as long as no producer has gone: only try_match after a failed ASGN
\* pushes it back without the check of push_waiting.
QueuedOnce ==
    (\A p \in Producers : client[p].link # "gone")
    => \A i, j \in DOMAIN waiting : waiting[i] = waiting[j] => i = j

-----------------------------------------------------------------------------
(* The master implements PullService; a credit is never below zero, which  *)
(* is PullOnly.                                                            *)

Pull == INSTANCE PullService WITH
    credit   <- [c \in Consumers |-> cycles[c] - crdy[c] - granted[c]],
    answered <- granted,
    orders   <- asgn

\* Every step of every task is one of PullService: an ASGN is written only for
\* a CRDY that is read and open, and a CRDY is open again only after an ASGN of
\* it went to a producer that is lost.
PullSpec == Pull!Spec

-----------------------------------------------------------------------------
(* Liveness.  Tokio runs every task whose lock or socket is ready, and the  *)
(* timers of the match loop, the heartbeat and STALE_BUSY_MS fire.         *)

Fairness ==
    /\ \A p \in Producers :
          /\ WF_vars(ProducerHandlerStep(p)) /\ WF_vars(ProducerCleanupStep(p))
          /\ WF_vars(Accumulate(p)) /\ WF_vars(SendReady(p))
          /\ WF_vars(SendHeartbeat(p)) /\ WF_vars(Deliver(p))
          /\ WF_vars(BusyExpires(p))
    /\ \A c \in Consumers :
          /\ WF_vars(ConsumerHandlerStep(c)) /\ WF_vars(ConsumerCleanupStep(c))
    /\ WF_vars(MatchLoopStep)

FairSpec == Spec /\ Fairness

Connected(p) == client[p].link \in {"Idle", "Ready"}

\* A waiting consumer is served: while a connected producer has items in its
\* ring, a CRDY in the queue is eventually taken from it, although PRDY frames
\* get overtaken, pool entries pruned and assignments cleared.
WaitingServed ==
    \A p \in Producers, c \in Consumers :
        InQueue(c) /\ Connected(p) /\ client[p].ring > 0
            ~> ~InQueue(c) \/ ~Connected(p) \/ client[p].ring = 0

\* No producer stays Busy for ever: its report, its next PRDY, a heartbeat with
\* backlog, STALE_BUSY_MS or its removal ends the assignment.
BusyReleased ==
    \A p \in Producers :
        producers[p].state = "Busy" ~> producers[p].state # "Busy"

-----------------------------------------------------------------------------
(* What a test says of the matcher.                                        *)

Quiet == \A t \in Tasks : task[t].pc \in {"off", "read", "end", "tick"}

\* Test producer_disconnect_requeues_awaiting_batch_consumer: once the cleanup
\* of a producer is over and no other task runs, nobody awaits its batch.
DisconnectRequeues ==
    Quiet => \A p \in Producers, c \in Consumers :
                At(ProducerCleanup(p), "end")
                => consumers[c] # [state |-> "awaiting_batch", assigned |-> p]
=============================================================================
