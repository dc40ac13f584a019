---------------------------- MODULE ProducerQueue ----------------------------
(***************************************************************************)
(* master/src/producer/client.rs: the queues of a producer and the tasks   *)
(* that move messages through them, pending -> accumulator -> ring ->      *)
(* batch.  All of it is behind one mutex (`inner`); a loop the code runs   *)
(* under the lock is a sequence of steps of the holder here.               *)
(*                                                                         *)
(* Publishers, the accumulator task and the control task share one Notify: *)
(* a notification goes to the task that has waited longest or, when nobody *)
(* waits, is kept as a single permit.                                      *)
(***************************************************************************)
EXTENDS ByteRing

CONSTANTS
    Sizes,          \* sizes of published payloads
    MaxBytes,       \* outbound_max_bytes
    MaxBatchBytes,  \* max_batch_bytes
    MaxItems,       \* max_items of an ASGN
    MaxPublished,   \* bound: messages published
    MaxBreaks       \* bound: how often the connection to the master breaks

ASSUME QueueAssumption ==
    /\ Sizes \subseteq Nat
    /\ MaxBytes \in Nat \ {0} /\ MaxBatchBytes \in Nat \ {0}
    /\ MaxItems \in Nat \ {0}
    /\ MaxPublished \in Nat /\ MaxBreaks \in Nat

VARIABLES
    pending,     \* ByteRing publish_batch pushes to
    acc,         \* items of the accumulator
    ripe,        \* flush_timeout has passed since the accumulator was opened
    out,         \* items that left the accumulator, on their way to the ring
    ring,        \* ByteRing an ASGN drains
    batch,       \* items of the delivery in progress
    delivered,   \* history: items of deliveries that ended with Ok, in order
    published,   \* non-empty messages published so far
    publisher,   \* where publish_batch is
    gained,      \* ring_gained of run_accumulator
    accTask,     \* where run_accumulator is
    control,     \* where run_control is
    link,        \* link_state
    connected,   \* `connected`
    wire,        \* state of the TCP connection to the master
    told,        \* whether the master knows of the backlog
    asgns,       \* ASGN frames on the connection
    breaks,      \* connections broken so far
    permit,      \* Notify: the stored permit
    waiters,     \* Notify: the waiting tasks, the longest waiting first
    notified     \* Notify: the tasks that were given a notification

queueVars  == <<pending, acc, ripe, out, ring, batch, delivered>>
pubVars    == <<published, publisher>>
linkVars   == <<link, connected, told>>
wireVars   == <<wire, asgns, breaks>>
notifyVars == <<permit, waiters, notified>>
vars == <<queueVars, pubVars, gained, accTask, control, linkVars, wireVars,
          notifyVars>>

Init ==
    /\ pending = EmptyRing /\ ring = EmptyRing
    /\ acc = <<>> /\ ripe = FALSE /\ out = <<>> /\ batch = <<>>
    /\ delivered = <<>> /\ published = 0
    /\ publisher = "idle" /\ gained = FALSE
    /\ accTask = "select" /\ control = "connect"
    /\ link = "Disconnected" /\ connected = FALSE /\ told = "nothing"
    /\ wire = "down" /\ asgns = 0 /\ breaks = 0
    /\ permit = FALSE /\ waiters = <<>> /\ notified = {}

\* Where a task holds the mutex across several steps.
Locked ==
    \/ accTask \in {"fill", "flush"}
    \/ control \in {"fill", "drain", "requeue"}

-----------------------------------------------------------------------------
(* Notify.                                                                 *)

\* Hand a notification on while the tasks in ts already hold one.
Give(ts) ==
    IF waiters = <<>>
    THEN permit' = TRUE /\ notified' = ts /\ UNCHANGED waiters
    ELSE /\ notified' = ts \cup {Head(waiters)}
         /\ waiters' = Tail(waiters)
         /\ UNCHANGED permit

notify_one == Give(notified)

\* A select! polls notified(): take the permit or join the waiters.
Park(t) ==
    IF permit
    THEN permit' = FALSE /\ notified' = notified \cup {t} /\ UNCHANGED waiters
    ELSE waiters' = Append(waiters, t) /\ UNCHANGED <<permit, notified>>

\* The notified branch is taken.
Consume(t) ==
    /\ t \in notified
    /\ notified' = notified \ {t}
    /\ UNCHANGED <<permit, waiters>>

\* Another branch is taken: a notification already given is passed on.
Abandon(t) ==
    \/ t \in notified /\ Give(notified \ {t})
    \/ /\ t \notin notified
       /\ \E k \in DOMAIN waiters :
            /\ waiters[k] = t
            /\ waiters' = First(waiters, k - 1) \o Without(waiters, k)
       /\ UNCHANGED <<permit, notified>>

-----------------------------------------------------------------------------
(* publish_batch: push under the lock, then notify.                        *)

Publish(size) ==
    /\ publisher = "idle" /\ ~Locked /\ published < MaxPublished
    /\ pending' = push(pending, [id |-> published + 1, size |-> size], MaxBytes)
    /\ published' = IF size = 0 THEN published ELSE published + 1
    /\ publisher' = "notify"
    /\ UNCHANGED <<acc, ripe, out, ring, batch, delivered, gained, accTask,
                   control, linkVars, wireVars, notifyVars>>

PublishNotify ==
    /\ publisher = "notify"
    /\ notify_one
    /\ publisher' = "idle"
    /\ UNCHANGED <<queueVars, published, gained, accTask, control, linkVars,
                   wireVars>>

-----------------------------------------------------------------------------
(* Moving messages, under the lock: the loop both tasks run.               *)

\* Mutant: what would exceed a batch is kept with the rest.
FillGreedy ==
    /\ out = <<>> /\ pending.queue # <<>>
    /\ pending' = popped(pending, 1)
    /\ LET m == Head(pending.queue)
       IN  \/ /\ m.size > MaxBatchBytes
              /\ out' = Append(acc, m) /\ acc' = <<>> /\ ripe' = FALSE
           \/ /\ m.size <= MaxBatchBytes
              /\ acc' = Append(acc, m) /\ UNCHANGED <<out, ripe>>
    /\ UNCHANGED <<ring, batch, delivered>>

\* BatchAccumulator::push of one pending message.  The batches it returns go
\* to the ring item by item.
Fill ==
    /\ out = <<>> /\ pending.queue # <<>>
    /\ pending' = popped(pending, 1)
    /\ LET m == Head(pending.queue)
       IN  \/ /\ m.size > MaxBatchBytes
              /\ out' = Append(acc, m) /\ acc' = <<>> /\ ripe' = FALSE
           \/ /\ m.size <= MaxBatchBytes /\ Bytes(acc) + m.size > MaxBatchBytes
              /\ out' = acc /\ acc' = <<m>> /\ ripe' = FALSE
           \/ /\ Bytes(acc) + m.size <= MaxBatchBytes
              /\ acc' = Append(acc, m) /\ UNCHANGED <<out, ripe>>
    /\ UNCHANGED <<ring, batch, delivered>>

\* push_batch_to_ring, one item.
Spill ==
    /\ out # <<>>
    /\ ring' = push(ring, Head(out), MaxBytes)
    /\ out' = Tail(out)
    /\ UNCHANGED <<pending, acc, ripe, batch, delivered>>

\* take_batch.
TakeBatch ==
    /\ out' = acc /\ acc' = <<>> /\ ripe' = FALSE
    /\ UNCHANGED <<pending, ring, batch, delivered>>

-----------------------------------------------------------------------------
(* run_accumulator.                                                        *)

AccSelect ==
    /\ accTask = "select"
    /\ Park("accumulator")
    /\ accTask' = "waiting"
    /\ UNCHANGED <<queueVars, pubVars, gained, control, linkVars, wireVars>>

\* Mutant: only a notification runs the accumulator.
AccWakeNotified ==
    /\ accTask = "waiting" /\ ~Locked
    /\ Consume("accumulator")
    /\ accTask' = "fill" /\ gained' = FALSE
    /\ UNCHANGED <<queueVars, pubVars, control, linkVars, wireVars>>

\* Notified, or the flush tick; then lock.
AccWake ==
    /\ accTask = "waiting" /\ ~Locked
    /\ Consume("accumulator") \/ Abandon("accumulator")
    /\ accTask' = "fill" /\ gained' = FALSE
    /\ UNCHANGED <<queueVars, pubVars, control, linkVars, wireVars>>

AccMove ==
    /\ accTask \in {"fill", "flush"}
    /\ Spill \/ (accTask = "fill" /\ Fill)
    /\ gained' = (gained \/ out' # <<>>)
    /\ UNCHANGED <<pubVars, accTask, control, linkVars, wireVars, notifyVars>>

\* flush_if_timeout.
AccFlush ==
    /\ accTask = "fill" /\ out = <<>> /\ pending.queue = <<>>
    /\ acc # <<>> /\ ripe
    /\ TakeBatch
    /\ accTask' = "flush" /\ gained' = TRUE
    /\ UNCHANGED <<pubVars, control, linkVars, wireVars, notifyVars>>

\* Unlock.
AccDone ==
    /\ out = <<>>
    /\ \/ accTask = "flush"
       \/ accTask = "fill" /\ pending.queue = <<>> /\ ~(acc # <<>> /\ ripe)
    /\ accTask' = IF gained THEN "notify" ELSE "select"
    /\ UNCHANGED <<queueVars, pubVars, gained, control, linkVars, wireVars,
                   notifyVars>>

AccNotify ==
    /\ accTask = "notify"
    /\ notify_one
    /\ accTask' = "select"
    /\ UNCHANGED <<queueVars, pubVars, gained, control, linkVars, wireVars>>

AccStep == AccSelect \/ AccWake \/ AccMove \/ AccFlush \/ AccDone \/ AccNotify

\* flush_timeout passes.
Ripen ==
    /\ acc # <<>> /\ ~ripe
    /\ ripe' = TRUE
    /\ UNCHANGED <<pending, acc, out, ring, batch, delivered, pubVars, gained,
                   accTask, control, linkVars, wireVars, notifyVars>>

-----------------------------------------------------------------------------
(* run_control.                                                            *)

mark_disconnected ==
    connected' = FALSE /\ link' = "Disconnected" /\ UNCHANGED told

\* A frame that tells the master of the backlog is written.  On a broken
\* connection the write may fail, or succeed and get lost.
Write(newLink, newTold) ==
    \/ /\ link' = newLink /\ UNCHANGED connected
       /\ told' = IF wire = "up" THEN newTold ELSE told
    \/ wire # "up" /\ mark_disconnected

maybe_send_ready ==
    IF connected /\ link = "Idle" /\ ring.queue # <<>>
    THEN Write("Ready", "backlog")
    ELSE UNCHANGED linkVars

\* Mutant: leaves the announcement to PRDY.
maybe_send_heartbeat_ready ==
    IF connected
    THEN Write(link, IF link = "Ready" THEN "backlog" ELSE told)
    ELSE UNCHANGED linkVars

maybe_send_heartbeat ==
    IF connected
    THEN Write(link, IF ring.queue # <<>> THEN "backlog" ELSE told)
    ELSE UNCHANGED linkVars

Connect ==
    /\ control = "connect" /\ ~Locked
    /\ connected' = TRUE /\ link' = "Idle" /\ told' = "nothing"
    /\ wire' = "up" /\ asgns' = 0
    /\ control' = "announce"
    /\ UNCHANGED <<queueVars, pubVars, gained, accTask, breaks, notifyVars>>

\* maybe_send_ready, then maybe_send_heartbeat, after connecting or delivering.
Announce ==
    /\ control \in {"announce", "hello"} /\ ~Locked
    /\ IF control = "announce"
       THEN maybe_send_ready /\ control' = "hello"
       ELSE maybe_send_heartbeat /\ control' = "select"
    /\ UNCHANGED <<queueVars, pubVars, gained, accTask, wireVars, notifyVars>>

ControlSelect ==
    /\ control = "select"
    /\ Park("control")
    /\ control' = "waiting"
    /\ UNCHANGED <<queueVars, pubVars, gained, accTask, linkVars, wireVars>>

\* An ASGN is read: link Busy, then lock for the drain.
ReadAssign ==
    /\ control = "waiting" /\ asgns > 0 /\ ~Locked
    /\ Abandon("control")
    /\ asgns' = asgns - 1
    /\ link' = "Busy" /\ told' = "stale" /\ UNCHANGED connected
    /\ control' = "fill"
    /\ UNCHANGED <<queueVars, pubVars, gained, accTask, wire, breaks>>

\* The read fails: back to the outer loop.
ReadFails ==
    /\ control = "waiting" /\ asgns = 0 /\ wire = "broken" /\ ~Locked
    /\ Abandon("control")
    /\ mark_disconnected
    /\ wire' = "down"
    /\ control' = "connect"
    /\ UNCHANGED <<queueVars, pubVars, gained, accTask, asgns, breaks>>

\* The select! is biased: reading comes first, then the notification.
Notified ==
    /\ control = "waiting" /\ asgns = 0 /\ ~Locked
    /\ Consume("control")
    /\ maybe_send_ready
    /\ control' = "select"
    /\ UNCHANGED <<queueVars, pubVars, gained, accTask, wireVars>>

HeartbeatTick ==
    /\ control = "waiting" /\ asgns = 0 /\ ~Locked
    /\ "control" \notin notified
    /\ Abandon("control")
    /\ maybe_send_heartbeat
    /\ control' = "select"
    /\ UNCHANGED <<queueVars, pubVars, gained, accTask, wireVars>>

\* deliver_assign: flush_ingress_to_ring ...
ControlMove ==
    /\ control \in {"fill", "drain"}
    /\ Spill \/ (control = "fill" /\ Fill)
    /\ UNCHANGED <<pubVars, gained, accTask, control, linkVars, wireVars,
                   notifyVars>>

ControlFlush ==
    /\ control = "fill" /\ out = <<>> /\ pending.queue = <<>>
    /\ TakeBatch
    /\ control' = "drain"
    /\ UNCHANGED <<pubVars, gained, accTask, linkVars, wireVars, notifyVars>>

\* ... drain_for_assign: up to MaxItems items and MaxBatchBytes bytes, but one
\* item at least ...
DrainCount(q) ==
    CHOOSE n \in 0..Len(q) :
        LET fits(k) == k <= MaxItems
                       /\ (k <= 1 \/ Bytes(First(q, k)) <= MaxBatchBytes)
        IN  fits(n) /\ \A k \in 0..Len(q) : fits(k) => k <= n

\* Mutant: what exceeds MaxBatchBytes is not put back.
DrainForgets ==
    /\ control = "drain" /\ out = <<>>
    /\ batch' = First(ring.queue, DrainCount(ring.queue))
    /\ ring' = popped(ring, IF Len(ring.queue) < MaxItems THEN Len(ring.queue)
                            ELSE MaxItems)
    /\ control' = "deliver"
    /\ UNCHANGED <<pending, acc, ripe, out, delivered, pubVars, gained,
                   accTask, linkVars, wireVars, notifyVars>>

\* Off the ring.
Drain ==
    /\ control = "drain" /\ out = <<>>
    /\ LET n == DrainCount(ring.queue)
       IN  batch' = First(ring.queue, n) /\ ring' = popped(ring, n)
    /\ control' = "deliver"
    /\ UNCHANGED <<pending, acc, ripe, out, delivered, pubVars, gained,
                   accTask, linkVars, wireVars, notifyVars>>

\* ... and the transfer.  An empty batch is not sent and reported as DELV(0).
Delivered ==
    /\ control = "deliver"
    /\ delivered' = delivered \o batch /\ batch' = <<>>
    /\ control' = "report"
    /\ UNCHANGED <<pending, acc, ripe, out, ring, pubVars, gained, accTask,
                   linkVars, wireVars, notifyVars>>

\* Mutant: requeues without the lock.
DeliveryFailsUnlocked ==
    /\ control = "deliver" /\ batch # <<>>
    /\ control' = "requeue"
    /\ UNCHANGED <<queueVars, pubVars, gained, accTask, linkVars, wireVars,
                   notifyVars>>

\* An error or the delivery timeout: lock for requeue_items.
DeliveryFails ==
    /\ control = "deliver" /\ batch # <<>> /\ ~Locked
    /\ control' = "requeue"
    /\ UNCHANGED <<queueVars, pubVars, gained, accTask, linkVars, wireVars,
                   notifyVars>>

\* Mutant: the items are put back in the order they have.
RequeueForward ==
    /\ control = "requeue" /\ batch # <<>>
    /\ ring' = push_front(ring, Head(batch), MaxBytes)
    /\ batch' = Tail(batch)
    /\ UNCHANGED <<pending, acc, ripe, out, delivered, pubVars, gained,
                   accTask, control, linkVars, wireVars, notifyVars>>

\* requeue_items: the last item first.
Requeue ==
    /\ control = "requeue" /\ batch # <<>>
    /\ ring' = push_front(ring, batch[Len(batch)], MaxBytes)
    /\ batch' = First(batch, Len(batch) - 1)
    /\ UNCHANGED <<pending, acc, ripe, out, delivered, pubVars, gained,
                   accTask, control, linkVars, wireVars, notifyVars>>

Requeued ==
    /\ control = "requeue" /\ batch = <<>>
    /\ control' = "report"
    /\ UNCHANGED <<queueVars, pubVars, gained, accTask, linkVars, wireVars,
                   notifyVars>>

\* handle_delivery_result; then link_state is Idle even after a failed write.
Report ==
    /\ control = "report" /\ ~Locked
    /\ link' = "Idle" /\ UNCHANGED told
    /\ connected' \in {connected, connected /\ wire = "up"}
    /\ control' = "announce"
    /\ UNCHANGED <<queueVars, pubVars, gained, accTask, wireVars, notifyVars>>

ControlStep ==
    \/ Connect \/ Announce \/ ControlSelect \/ ReadAssign \/ ReadFails
    \/ Notified \/ HeartbeatTick \/ ControlMove \/ ControlFlush \/ Drain
    \/ Delivered \/ DeliveryFails \/ Requeue \/ Requeued \/ Report

-----------------------------------------------------------------------------
(* The master and the network.                                             *)

\* The master assigns a producer that announced a backlog, perhaps twice.
AssignArrives ==
    /\ wire = "up" /\ told # "nothing" /\ asgns = 0
    /\ asgns' = 1
    /\ UNCHANGED <<queueVars, pubVars, gained, accTask, control, linkVars, wire,
                   breaks, notifyVars>>

Break ==
    /\ wire = "up" /\ breaks < MaxBreaks
    /\ wire' = "broken" /\ breaks' = breaks + 1
    /\ asgns' \in 0..asgns
    /\ UNCHANGED <<queueVars, pubVars, gained, accTask, control, linkVars,
                   notifyVars>>

Next ==
    \/ \E size \in Sizes : Publish(size)
    \/ PublishNotify \/ AccStep \/ Ripen \/ ControlStep
    \/ AssignArrives \/ Break

Spec == Init /\ [][Next]_vars

-----------------------------------------------------------------------------
(* Types.                                                                  *)

QueuesOK ==
    /\ pending \in ByteRing /\ ring \in ByteRing
    /\ acc \in Seq(Message) /\ out \in Seq(Message)
    /\ batch \in Seq(Message) /\ delivered \in Seq(Message)
    /\ ripe \in BOOLEAN /\ published \in Nat

TasksOK ==
    /\ publisher \in {"idle", "notify"} /\ gained \in BOOLEAN
    /\ accTask \in {"select", "waiting", "fill", "flush", "notify"}
    /\ control \in {"connect", "announce", "hello", "select", "waiting", "fill",
                    "drain", "deliver", "requeue", "report"}
    /\ permit \in BOOLEAN
    /\ waiters \in Seq({"accumulator", "control"})
    /\ notified \subseteq {"accumulator", "control"}

LinkOK ==
    /\ link \in {"Disconnected", "Idle", "Ready", "Busy"}
    /\ connected \in BOOLEAN /\ told \in {"nothing", "stale", "backlog"}
    /\ wire \in {"down", "up", "broken"} /\ asgns \in Nat /\ breaks \in Nat

\* One task at a time holds the mutex; items are between the accumulator and
\* the ring only while it is held, and in a batch only during a delivery.
LockOK ==
    /\ accTask \in {"fill", "flush"} => control \notin {"fill", "drain", "requeue"}
    /\ out # <<>> => accTask \in {"fill", "flush"} \/ control \in {"fill", "drain"}
    /\ batch # <<>> => control \in {"deliver", "requeue"}

\* The queues hold messages, the tasks are where their code can be, and the
\* mutex protects what is under way between two queues.
TypeOK == QueuesOK /\ TasksOK /\ LinkOK /\ LockOK

-----------------------------------------------------------------------------
(* Safety.                                                                 *)

\* Where a message can be, the oldest first.
Stages == <<delivered, batch, ring.queue, out, acc, pending.queue>>

\* A producer's messages are sent to consumers in the order they were published
\* and none is sent twice with success: every place holds them in that order, and those of an
\* earlier place are older than those of a later one, through drops at either
\* end, failed deliveries and requeue_items.
InOrder ==
    \A a, b \in DOMAIN Stages : \A i \in DOMAIN Stages[a], j \in DOMAIN Stages[b] :
        a < b \/ (a = b /\ i < j) => Stages[a][i].id < Stages[b][j].id

\* No message vanishes: what was published is delivered, buffered or in the
\* drop counters that heartbeats and queue_dropped_items report.
Accounted ==
    published = Len(delivered) + Len(batch) + Len(ring.queue) + Len(out)
                + Len(acc) + Len(pending.queue)
                + pending.drops_total + ring.drops_total

\* The byte counts of both rings are exact and stay below outbound_max_bytes,
\* which is what push and push_front drop for.
WithinCap ==
    \A r \in {pending, ring} : r.bytes = Bytes(r.queue) /\ r.bytes <= MaxBytes

\* Only the rings are held to outbound_max_bytes.  What is in front of the ring,
\* in `pending`, in the accumulator and between the two, is at most a ring and a
\* batch more, and a delivery holds what max_batch_bytes allows or one item that
\* fits the ring: the messages a producer holds are bounded although nobody
\* counts them together.
BufferBounded ==
    /\ Bytes(pending.queue) + Bytes(acc) + Bytes(out) <= MaxBytes + MaxBatchBytes
    /\ Bytes(batch) <= MaxBytes
    /\ Len(batch) > 1 => Bytes(batch) <= MaxBatchBytes

-----------------------------------------------------------------------------
(* The queues, taken together, are an Outbox.                              *)

AllQueued == batch \o ring.queue \o out \o acc \o pending.queue

Out == INSTANCE Outbox WITH
    queue     <- AllQueued,
    delivered <- delivered,
    dropped   <- pending.drops_total + ring.drops_total,
    published <- published

\* Every step of the publishers, the accumulator and the control task is a step
\* of one queue with one end to put in and one to take out: no message is
\* passed by another, comes twice, or vanishes uncounted on its way through
\* three queues, a batch and back.
OutboxSpec == Out!Spec

-----------------------------------------------------------------------------
(* Liveness.  tokio runs both tasks and the timers fire.  A task that wants *)
(* the mutex gets it although the other one keeps taking it: the lock is   *)
(* held for moments, once per notification or flush tick.                  *)

Fairness ==
    /\ WF_vars(PublishNotify) /\ WF_vars(Ripen)
    /\ SF_vars(AccStep) /\ SF_vars(ControlStep)

FairSpec == Spec /\ Fairness

\* The master learns of a backlog: while the connection is up and the ring is
\* not empty, a PRDY or a heartbeat says so, although the accumulator can take
\* the notification meant for the control task.
BacklogAnnounced ==
    ring.queue # <<>> /\ wire = "up"
        ~> told = "backlog" \/ ring.queue = <<>> \/ wire # "up"

\* A published message reaches the ring, or is dropped, although only the
\* flush tick moves what the accumulator holds.
IngressDrained ==
    pending.queue # <<>> \/ acc # <<>> ~> pending.queue = <<>> /\ acc = <<>>
=============================================================================
