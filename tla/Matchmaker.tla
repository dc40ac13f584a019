----------------------------- MODULE Matchmaker -----------------------------
(***************************************************************************)
(* master/src/producers.rs, `Matchmaker`: the pool of ready producers, the *)
(* queue of consumers that sent CRDY, and try_match, which pairs them.     *)
(*                                                                         *)
(* The matcher has no task of its own.  Every connection handler, every    *)
(* cleanup task and the 250 ms match loop call it, so several try_match    *)
(* runs interleave.  A task is a program counter with the locals that live *)
(* across an await; a step of a task is what the code does between two     *)
(* acquisitions of a mutex.                                                *)
(***************************************************************************)
EXTENDS ProducerRegistry, ConsumerRegistry, Sequences

VARIABLES
    ready,         \* MatchmakerInner.ready: pool of producer ids
    waiting,       \* MatchmakerInner.waiting: CRDY queue of consumer ids
    consumer_rr,   \* round-robin cursor into waiting
    producer_rr,   \* round-robin cursor into the best tier
    asgn,          \* producer id -> ASGN frames written and not yet read
    dropped,       \* producers whose connection is broken
    granted,       \* history: consumer id -> ASGN frames written for it, less
                   \* those a producer's disconnect took back
    task           \* task -> program counter and locals

innerVars == <<ready, waiting, consumer_rr, producer_rr>>

-----------------------------------------------------------------------------
(* Tasks.                                                                  *)

ProducerHandler(p) == <<"producer handler", p>>
ProducerCleanup(p) == <<"producer cleanup", p>>
ConsumerHandler(c) == <<"consumer handler", c>>
ConsumerCleanup(c) == <<"consumer cleanup", c>>
MatchLoop          == <<"match loop", 0>>

Tasks == {ProducerHandler(p) : p \in Producers}
            \cup {ProducerCleanup(p) : p \in Producers}
            \cup {ConsumerHandler(c) : c \in Consumers}
            \cup {ConsumerCleanup(c) : c \in Consumers}
            \cup {MatchLoop}

\* Where a task is inside try_match.
MatchPc == {"peek", "rank", "take", "send", "send_failed", "requeue",
            "mark_assigned", "stale_read", "stale_release", "stale_index",
            "mark_awaiting", "track"}

\* Where a task is outside try_match.
HandlerPc == {"off", "read", "end",
              "clear_stale_busy", "mark_prdy", "pool_prdy", "set_ready",
              "remark_prdy", "pool", "hb_state", "hb_waiting",
              "find", "finish", "untrack", "phase_take", "phase_set", "record",
              "done_state", "done_pool",
              "unpool", "take_pending", "requeue_check", "enqueue", "remove",
              "cycle_set", "cancel", "clear", "unregister",
              "tick", "sync_read", "sync_registry", "sync_apply"}

\* p, c: the producer and the consumer at hand; n, ok: the delivery report at
\* hand; next: where untrack_awaiting returns to; cand, stale, old, rr: the
\* locals of try_match and sync_ready_pool.
Task == [pc    : MatchPc \cup HandlerPc,
         p     : Producers \cup {None},
         c     : Consumers \cup {None},
         n     : Nat,
         ok    : BOOLEAN,
         next  : HandlerPc,
         cand  : SUBSET Producers,
         stale : SUBSET Producers,
         old   : SUBSET Consumers,
         rr    : Nat]

\* Steps that need a producer and a consumer, and steps that need a consumer.
NeedsPair == {"send", "send_failed", "requeue", "mark_assigned", "stale_read",
              "stale_release", "stale_index", "mark_awaiting", "track",
              "untrack"}
NeedsConsumer == {"finish", "phase_take", "phase_set", "enqueue",
                  "requeue_check"}

\* Those steps have them: the 0 of `unwrap_or(0)` never reaches a registry.
WellFormed(r) ==
    /\ r.pc \in NeedsPair => r.p \in Producers /\ r.c \in Consumers
    /\ r.pc \in NeedsConsumer => r.c \in Consumers
    /\ r.pc = "untrack"
       => r.next \in {"cycle_set", "phase_set", "record", "end"}

AtRest(l) == [pc |-> l, p |-> None, c |-> None, n |-> 0, ok |-> TRUE,
              next |-> "off", cand |-> {}, stale |-> {}, old |-> {}, rr |-> 0]

At(t, l)     == task[t].pc = l
Become(t, r) == task' = [task EXCEPT ![t] = r]
Go(t, l)     == Become(t, [task[t] EXCEPT !.pc = l])
Rest(t, l)   == Become(t, AtRest(l))

\* Where the caller of try_match continues when it returns.
Caller(t) ==
    CASE t[1] = "producer cleanup" -> "end"
      [] t[1] = "consumer cleanup" -> "unregister"
      [] t[1] = "match loop"       -> "tick"
      [] OTHER                     -> "read"

MatchmakerInit ==
    /\ ready = {}
    /\ waiting = <<>>
    /\ consumer_rr = 0
    /\ producer_rr = 0
    /\ asgn = [p \in Producers |-> <<>>]
    /\ dropped = {}
    /\ granted = [c \in Consumers |-> 0]

-----------------------------------------------------------------------------
(* The CRDY queue.                                                         *)

InQueue(c) == \E i \in DOMAIN waiting : waiting[i] = c

\* Vec::retain(|p| p.consumer_id != c): the k-th entry kept is the one that has
\* k kept entries up to its position.
Retained(s, c) ==
    LET kept    == {i \in DOMAIN s : s[i] # c}
        rank(i) == Cardinality({j \in kept : j <= i})
    IN  [k \in 1..Cardinality(kept) |-> s[CHOOSE i \in kept : rank(i) = k]]

\* Mutant: push without the retain.
push_waiting_again(c) == waiting' = Append(waiting, c)

push_waiting(c) == waiting' = Append(Retained(waiting, c), c)

\* Vec::remove(i - 1) and Vec::swap_remove(i - 1).
RemovedAt(s, i) ==
    [k \in 1..Len(s) - 1 |-> IF k < i THEN s[k] ELSE s[k + 1]]
SwapRemoved(s, i) ==
    [k \in 1..Len(s) - 1 |-> IF k = i THEN s[Len(s)] ELSE s[k]]

\* The cursor take_next_waiting_inner uses; it is zero based.
Cursor == IF consumer_rr >= Len(waiting) THEN 0 ELSE consumer_rr

NextWaiting == waiting[Cursor + 1]

\* Mutant: the entry is read and not removed.
take_next_waiting_kept ==
    /\ UNCHANGED waiting
    /\ consumer_rr' = (Cursor + 1) % Len(waiting)

take_next_waiting ==
    /\ waiting' = RemovedAt(waiting, Cursor + 1)
    /\ consumer_rr' = (Cursor + 1) % Len(waiting)

ensure_in_ready_pool(p) == ready' = ready \cup {p}

-----------------------------------------------------------------------------
(* try_match, one action per lock.                                         *)

\* Nothing to pair: return to the caller.  Else copy the pool and the cursor.
Peek(t) ==
    /\ At(t, "peek")
    /\ IF waiting = <<>> \/ ready = {}
       THEN Rest(t, Caller(t))
       ELSE Become(t, [AtRest("rank") EXCEPT !.cand = ready,
                                             !.rr = producer_rr])
    /\ UNCHANGED <<regVars, consVars, innerVars, asgn, granted>>

\* rank_ready_candidates: choose in the registry, prune stale candidates there.
Rank(t) ==
    /\ At(t, "rank")
    /\ rank_ready_candidates(task[t].cand)
    /\ LET tier == Tier(task[t].cand)
       IN  Become(t, [AtRest("take") EXCEPT
                          !.p = PickFrom(tier, task[t].rr),
                          !.rr = NextRR(tier, task[t].rr),
                          !.stale = StaleAmong(task[t].cand)])
    /\ UNCHANGED <<consVars, innerVars, asgn, granted>>

\* Mutant: goes on without a producer.
TakePairUnchecked(t) ==
    /\ At(t, "take")
    /\ producer_rr' = task[t].rr
    /\ IF waiting = <<>>
       THEN /\ ready' = ready \ task[t].stale
            /\ Rest(t, Caller(t))
            /\ UNCHANGED <<waiting, consumer_rr>>
       ELSE /\ ready' = ready \ (task[t].stale \cup {task[t].p})
            /\ take_next_waiting
            /\ Become(t, [AtRest("send") EXCEPT !.p = task[t].p,
                                                !.c = NextWaiting])
    /\ UNCHANGED <<regVars, consVars, asgn, granted>>

\* Back in the pool: prune it, give up, or take the producer and a consumer.
TakePair(t) ==
    /\ At(t, "take")
    /\ producer_rr' = task[t].rr
    /\ IF task[t].p = None \/ waiting = <<>>
       THEN /\ ready' = ready \ task[t].stale
            /\ Rest(t, Caller(t))
            /\ UNCHANGED <<waiting, consumer_rr>>
       ELSE /\ ready' = ready \ (task[t].stale \cup {task[t].p})
            /\ take_next_waiting
            /\ Become(t, [AtRest("send") EXCEPT !.p = task[t].p,
                                                !.c = NextWaiting])
    /\ UNCHANGED <<regVars, consVars, asgn, granted>>

Grant(c)  == granted' = [granted EXCEPT ![c] = @ + 1]
Revoke(c) == granted' = [granted EXCEPT ![c] = @ - 1]

\* send_assign succeeds: the ASGN is on its way to the producer.
SendAssign(t) ==
    /\ At(t, "send")
    /\ Registered(task[t].p) /\ task[t].p \notin dropped
    /\ asgn' = [asgn EXCEPT ![task[t].p] = Append(@, task[t].c)]
    /\ Grant(task[t].c)
    /\ Go(t, "mark_assigned")
    /\ UNCHANGED <<regVars, consVars, innerVars>>

\* A write to a broken connection may still succeed, into a dead socket ...
SendAssignLost(t) ==
    /\ At(t, "send")
    /\ Registered(task[t].p) /\ task[t].p \in dropped
    /\ Grant(task[t].c)
    /\ Go(t, "mark_assigned")
    /\ UNCHANGED <<regVars, consVars, innerVars, asgn>>

\* ... or fail; it does fail when the entry is gone ("producer gone").
SendAssignFails(t) ==
    /\ At(t, "send")
    /\ Registered(task[t].p) => task[t].p \in dropped
    /\ Go(t, "send_failed")
    /\ UNCHANGED <<regVars, consVars, innerVars, asgn, granted>>

SendFailedIdle(t) ==
    /\ At(t, "send_failed")
    /\ set_state(task[t].p, "Idle")
    /\ Go(t, "requeue")
    /\ UNCHANGED <<consVars, innerVars, asgn, granted>>

\* Mutant: the consumer of a failed ASGN is dropped.
RequeueForgotten(t) ==
    /\ At(t, "requeue")
    /\ ready' = ready \ {task[t].p}
    /\ Rest(t, "peek")
    /\ UNCHANGED <<regVars, consVars, waiting, consumer_rr, producer_rr, asgn,
                   granted>>

\* waiting.push(consumer), without the retain of push_waiting.
Requeue(t) ==
    /\ At(t, "requeue")
    /\ ready' = ready \ {task[t].p}
    /\ waiting' = Append(waiting, task[t].c)
    /\ Rest(t, "peek")
    /\ UNCHANGED <<regVars, consVars, consumer_rr, producer_rr, asgn, granted>>

MarkAssigned(t) ==
    /\ At(t, "mark_assigned")
    /\ mark_assigned(task[t].p, task[t].c)
    /\ Go(t, "stale_read")
    /\ UNCHANGED <<consVars, innerVars, asgn, granted>>

\* release_stale_assignments, its three locks.
StaleRead(t) ==
    /\ At(t, "stale_read")
    /\ LET old == StaleAwaiting(task[t].p, task[t].c)
       IN  Become(t, [task[t] EXCEPT !.old = old,
                                     !.pc = IF old = {} THEN "mark_awaiting"
                                                        ELSE "stale_release"])
    /\ UNCHANGED <<regVars, consVars, innerVars, asgn, granted>>

StaleRelease(t) ==
    /\ At(t, "stale_release")
    /\ release_stale_entries(task[t].old)
    /\ Go(t, "stale_index")
    /\ UNCHANGED <<regVars, awaiting, innerVars, asgn, granted>>

StaleIndex(t) ==
    /\ At(t, "stale_index")
    /\ untrack_awaiting(task[t].p, task[t].old)
    /\ Become(t, [task[t] EXCEPT !.pc = "mark_awaiting", !.old = {}])
    /\ UNCHANGED <<regVars, consumers, innerVars, asgn, granted>>

\* mark_awaiting_batch, its two locks; then the loop starts over.
MarkAwaiting(t) ==
    /\ At(t, "mark_awaiting")
    /\ mark_awaiting_batch(task[t].c, task[t].p)
    /\ Go(t, "track")
    /\ UNCHANGED <<regVars, awaiting, innerVars, asgn, granted>>

Track(t) ==
    /\ At(t, "track")
    /\ track_awaiting(task[t].p, task[t].c)
    /\ Rest(t, "peek")
    /\ UNCHANGED <<regVars, consumers, innerVars, asgn, granted>>

TryMatch(t) ==
    \/ Peek(t) \/ Rank(t) \/ TakePair(t)
    \/ SendAssign(t) \/ SendAssignLost(t) \/ SendAssignFails(t)
    \/ SendFailedIdle(t) \/ Requeue(t)
    \/ MarkAssigned(t) \/ StaleRead(t) \/ StaleRelease(t) \/ StaleIndex(t)
    \/ MarkAwaiting(t) \/ Track(t)
=============================================================================
