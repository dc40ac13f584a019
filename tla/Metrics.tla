------------------------------- MODULE Metrics -------------------------------
(***************************************************************************)
(* What the master tells of itself: the counters of metrics.rs, which the  *)
(* handlers of several producers add to one by one; the ticks of           *)
(* tick_buffer.rs; the snapshots that run_history_sampler takes, caches    *)
(* (metrics_cache.rs) and turns into rates (metrics_history.rs); and       *)
(* ticks_handler of server.rs.                                             *)
(*                                                                         *)
(* Rates are kept as the differences they are quotients of.  Bytes and     *)
(* requeued messages are added, loaded and rated next to the counters that *)
(* are modelled.  A GET /metrics changes none of them.                     *)
(***************************************************************************)
EXTENDS Integers, Sequences, Functions, FiniteSets

CONSTANTS
    Handlers,      \* handlers of producer connections
    TickCap,       \* TICK_BUFFER_CAP
    MaxReports,    \* bound: reports and ASGNs
    MaxDrops,      \* bound: messages a producer drops
    MaxLosses      \* bound: how often the producer reconnects

ASSUME MetricsAssumption ==
    /\ IsFiniteSet(Handlers) /\ TickCap \in Nat \ {0}
    /\ {MaxReports, MaxDrops, MaxLosses} \subseteq Nat

VARIABLES
    total,      \* the counters
    todo,       \* handler -> what record_transfer_tick has still to do
    reports,    \* reports and ASGNs so far
    ticks,      \* the TickBuffer: numbers and phases
    pushed,     \* history: ticks pushed, by phase
    evicted,    \* history: ticks that made room for others
    drained,    \* history: numbers of the ticks /metrics/ticks has returned
    producer,   \* the entry of a producer in the registry
    drops,      \* drops_total of that producer, at its end
    losses,     \* how often it has reconnected
    sampler,    \* run_history_sampler: where it is, and its snapshot
    cache,      \* MetricsCache
    last,       \* RateCounters of the last record
    shown,      \* history: the first counters plus every difference shown since
    still       \* history: record has met a clock that did not advance

recordVars == <<total, todo, reports, ticks, pushed, evicted>>
prodVars   == <<producer, drops, losses>>
pointVars  == <<last, shown, still>>
vars == <<recordVars, drained, prodVars, sampler, cache, pointVars>>

None == [none |-> TRUE]

\* In the order snapshot loads them.
Loads  == <<"transfers", "batches", "failures">>
Fields == Range(Loads)

\* The fields that record makes rates of.
Rated == {"transfers", "batches", "failures", "drops"}

Zero(fields) == [f \in fields |-> 0]

Init ==
    /\ total = Zero(Fields) /\ todo = [h \in Handlers |-> <<>>] /\ reports = 0
    /\ ticks = <<>> /\ pushed = Zero({"assign", "deliver", "fail"})
    /\ evicted = 0 /\ drained = <<>>
    /\ producer = [up |-> TRUE, hb_drops |-> 0]
    /\ drops = 0 /\ losses = 0
    /\ sampler = [at |-> "idle"] /\ cache = None
    /\ last = None /\ shown = Zero(Rated) /\ still = FALSE

-----------------------------------------------------------------------------
(* Recording.                                                              *)

Add(field, n)  == [do |-> "add", field |-> field, n |-> n]
PushTick(phase) == [do |-> "tick", phase |-> phase]

\* Mutant: the tick comes first.
record_transfer_tick_first(ok, n) ==
    IF ok /\ n = 0 THEN <<>>
    ELSE IF ok THEN <<PushTick("deliver"), Add("transfers", n), Add("batches", 1)>>
    ELSE <<PushTick("fail"), Add("failures", 1)>>

\* record_transfer_tick: record_transfer or record_delivery_failure, then
\* push_tick; a DELV without messages is not a transfer, and neither is a
\* report that finds no consumer.
record_transfer_tick(ok, n) ==
    IF ok /\ n = 0 THEN <<>>
    ELSE IF ok THEN <<Add("transfers", n), Add("batches", 1), PushTick("deliver")>>
    ELSE <<Add("failures", 1), PushTick("fail")>>

\* A report is read, or an ASGN was written (record_assign_tick).
Begin(h, steps) ==
    /\ todo[h] = <<>> /\ reports < MaxReports
    /\ reports' = reports + 1
    /\ todo' = [todo EXCEPT ![h] = steps]
    /\ UNCHANGED <<total, ticks, pushed, evicted, drained, prodVars, sampler, cache,
                   pointVars>>

Report(h, ok, n) == Begin(h, record_transfer_tick(ok, n))
Assigned(h)      == Begin(h, <<PushTick("assign")>>)

Pushed == pushed["assign"] + pushed["deliver"] + pushed["fail"]

\* Mutant: one tick too many.
push_over(phase) ==
    /\ ticks' = Append(IF Len(ticks) > TickCap THEN Tail(ticks) ELSE ticks,
                       [id |-> Pushed + 1, phase |-> phase])
    /\ evicted' = IF Len(ticks) > TickCap THEN evicted + 1 ELSE evicted
    /\ pushed' = [pushed EXCEPT ![phase] = @ + 1]

\* Mutant: a full buffer loses the tick that comes.
push_newest_lost(phase) ==
    /\ ticks' = IF Len(ticks) >= TickCap THEN ticks
                ELSE Append(ticks, [id |-> Pushed + 1, phase |-> phase])
    /\ evicted' = IF Len(ticks) >= TickCap THEN evicted + 1 ELSE evicted
    /\ pushed' = [pushed EXCEPT ![phase] = @ + 1]

\* TickBuffer::push: a full buffer loses its oldest tick.
push(phase) ==
    /\ ticks' = Append(IF Len(ticks) >= TickCap THEN Tail(ticks) ELSE ticks,
                       [id |-> Pushed + 1, phase |-> phase])
    /\ evicted' = IF Len(ticks) >= TickCap THEN evicted + 1 ELSE evicted
    /\ pushed' = [pushed EXCEPT ![phase] = @ + 1]

\* The next fetch_add or push_tick of a handler.
Record(h) ==
    /\ todo[h] # <<>>
    /\ todo' = [todo EXCEPT ![h] = Tail(@)]
    /\ LET step == Head(todo[h])
       IN  \/ /\ step.do = "add"
              /\ total' = [total EXCEPT ![step.field] = @ + step.n]
              /\ UNCHANGED <<ticks, pushed, evicted>>
           \/ /\ step.do = "tick"
              /\ push(step.phase)
              /\ UNCHANGED total
    /\ UNCHANGED <<reports, drained, prodVars, sampler, cache,
                   pointVars>>

\* ticks_handler.
DrainTicks ==
    /\ ticks # <<>>
    /\ drained' = drained \o [i \in DOMAIN ticks |-> ticks[i].id]
    /\ ticks' = <<>>
    /\ UNCHANGED <<total, todo, reports, pushed, evicted, prodVars, sampler, cache,
                   pointVars>>

-----------------------------------------------------------------------------
(* A producer: it drops messages, and its heartbeats tell.                 *)

ProducerDrops ==
    /\ drops < MaxDrops
    /\ drops' = drops + 1
    /\ UNCHANGED <<recordVars, drained, producer, losses, sampler, cache,
                   pointVars>>

Heartbeat ==
    /\ producer' = [up |-> TRUE, hb_drops |-> drops]
    /\ producer.up \/ losses < MaxLosses
    /\ losses' = IF producer.up THEN losses ELSE losses + 1
    /\ UNCHANGED <<recordVars, drained, drops, sampler, cache,
                   pointVars>>

\* Its entry is removed, with the drops it counted.
Disconnect ==
    /\ producer.up /\ losses < MaxLosses
    /\ producer' = [up |-> FALSE, hb_drops |-> 0]
    /\ UNCHANGED <<recordVars, drained, drops, losses, sampler, cache,
                   pointVars>>

-----------------------------------------------------------------------------
(* Snapshots.                                                              *)

\* The ticker fires: the drops come first, from backlog_totals.
Start ==
    /\ sampler.at = "idle"
    /\ sampler' = [at |-> "load", snap |-> [drops |-> producer.hb_drops]]
    /\ UNCHANGED <<recordVars, drained, prodVars, cache, pointVars>>

\* The next counter is loaded.
Load ==
    /\ sampler.at = "load"
    /\ \E k \in DOMAIN Loads :
          /\ Loads[k] \notin DOMAIN sampler.snap
          /\ \A j \in 1..k - 1 : Loads[j] \in DOMAIN sampler.snap
          /\ sampler' = [at   |-> IF k = Len(Loads) THEN "done" ELSE "load",
                         snap |-> [f \in DOMAIN sampler.snap \cup {Loads[k]} |->
                                     IF f = Loads[k] THEN total[f]
                                     ELSE sampler.snap[f]]]
    /\ UNCHANGED <<recordVars, drained, prodVars, cache, pointVars>>

\* metrics_cache.store.
Store ==
    /\ sampler.at = "done"
    /\ cache' = sampler.snap
    /\ sampler' = [sampler EXCEPT !.at = "record"]
    /\ UNCHANGED <<recordVars, drained, prodVars, pointVars>>

-----------------------------------------------------------------------------
(* MetricsHistory::record.                                                 *)

saturating_sub(a, b) == IF a < b THEN 0 ELSE a - b

\* The differences behind the rates, zero if the wall clock has not advanced.
rates(advanced) ==
    IF last = None \/ ~advanced THEN Zero(Rated)
    ELSE [f \in Rated |-> saturating_sub(sampler.snap[f], last[f])]

\* Mutant: the counters of the first record stay.
RecordRatesKept(advanced) ==
    /\ sampler.at = "record"
    /\ sampler' = [at |-> "idle"]
    /\ last' = IF last = None THEN sampler.snap ELSE last
    /\ shown' = IF last = None THEN sampler.snap
                ELSE [f \in Rated |-> shown[f] + rates(advanced)[f]]
    /\ still' = (still \/ (last # None /\ ~advanced))
    /\ UNCHANGED <<recordVars, drained, prodVars, cache>>

\* unix_ms() may have advanced since the last record, stood still or been set
\* back.
RecordRates(advanced) ==
    /\ sampler.at = "record"
    /\ sampler' = [at |-> "idle"]
    /\ last' = sampler.snap
    /\ shown' = IF last = None THEN sampler.snap
                ELSE [f \in Rated |-> shown[f] + rates(advanced)[f]]
    /\ still' = (still \/ (last # None /\ ~advanced))
    /\ UNCHANGED <<recordVars, drained, prodVars, cache>>

-----------------------------------------------------------------------------
SamplerStep ==
    \/ Start \/ Load \/ Store
    \/ \E advanced \in BOOLEAN : RecordRates(advanced)

Next ==
    \/ \E h \in Handlers : \/ \E ok \in BOOLEAN, n \in 0..1 : Report(h, ok, n)
                           \/ Assigned(h) \/ Record(h)
    \/ DrainTicks \/ ProducerDrops \/ Disconnect \/ Heartbeat
    \/ SamplerStep

Spec == Init /\ [][Next]_vars

-----------------------------------------------------------------------------
(* Properties.                                                             *)

\* The counters, the ticks, the cache and the points have the types of their
\* structs, and the TickBuffer keeps to its capacity.
TypeOK ==
    /\ total \in [Fields -> Nat] /\ shown \in [Rated -> Nat]
    /\ ticks \in Seq([id : 1..Pushed, phase : {"assign", "deliver", "fail"}])
    /\ Len(ticks) <= TickCap
    /\ sampler.at \in {"idle", "load", "done", "record"}
    /\ sampler.at \in {"done", "record"} => sampler.snap \in [Rated -> Nat]
    /\ cache = None \/ cache \in [Rated -> Nat]
    /\ last = None \/ last \in [Rated -> Nat]

\* What GET /metrics/ticks returned and what waits for the next one are ticks
\* in the order in which the handlers pushed them, none twice; the newest is
\* never the one a full TickBuffer loses, and only a full one loses any.
TicksInOrder ==
    LET seen == drained \o [i \in DOMAIN ticks |-> ticks[i].id]
    IN  /\ \A i, j \in DOMAIN seen : i < j => seen[i] < seen[j]
        /\ Len(seen) + evicted = Pushed
        /\ ticks # <<>> => ticks[Len(ticks)].id = Pushed

\* A tick of record_transfer_tick is never ahead of the counters it announces,
\* however the handlers are interleaved, and when they are done each tick is
\* one batch or one failure, and no batch is empty.
TotalsCoverTicks ==
    /\ pushed["deliver"] <= total["batches"]
    /\ pushed["fail"] <= total["failures"]
    /\ (\A h \in Handlers : todo[h] = <<>>) =>
          /\ pushed["deliver"] = total["batches"]
          /\ pushed["fail"] = total["failures"]
          /\ total["batches"] <= total["transfers"]

\* The points of MetricsHistory add up: what their rates show is never more
\* than what the counters counted between the first record and the last, and
\* all of it while the wall clock advances from record to record.  Drops, which
\* leave with a producer and come back with it, are shown at most once more for
\* every time it reconnects.
RatesHonest ==
    last # None =>
      /\ \A f \in Rated \ {"drops"} : shown[f] <= last[f]
      /\ ~still => \A f \in Rated \ {"drops"} : shown[f] = last[f]
      /\ ~still /\ losses = 0 /\ producer.up => shown["drops"] = last["drops"]
      /\ shown["drops"] <= drops * (losses + 1)
=============================================================================
