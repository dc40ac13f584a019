--------------------------- MODULE ConsumerClient ---------------------------
(***************************************************************************)
(* master/src/consumer/client.rs: the control session that sends CRDY, the *)
(* data connections that receive BATC, and the user's consume() loop.      *)
(*                                                                         *)
(* The three share an accept window (an atomic flag), one slot for a batch *)
(* with a batch_ready gate, a prefetch gate and a bounded channel.  None   *)
(* of them is protected together with another, so every access is a step.  *)
(* A gate has one waiter, and its set() is never lost on it: waiting for a *)
(* gate is waiting for its flag.                                           *)
(***************************************************************************)
EXTENDS Integers, Sequences, FiniteSets

CONSTANTS
    Conns,          \* data connections, one per producer that delivers here
    Prefetch,       \* prefetch_batch_count: capacity of the channel
    MaxCrdys,       \* bound: CRDY frames sent
    MaxBatches,     \* bound: batches that arrive
    MaxReconnects   \* bound: control sessions that die

ASSUME ClientAssumption ==
    /\ Prefetch \in Nat \ {0}
    /\ {MaxCrdys, MaxBatches, MaxReconnects} \subseteq Nat

VARIABLES
    control,      \* where run_control_session is
    held,         \* the batch it took from the slot
    alive,        \* the connection to the master is up
    reconnects,   \* sessions that died
    prefetch,     \* flag of the prefetch gate
    accept,       \* accept_batch
    ready,        \* flag of the batch_ready gate
    slot,         \* DataPlane.pending: the stored batch
    conn,         \* data connection -> its step and the batch it read
    channel,      \* out_tx: batches for consume()
    handler,      \* the batch the user's handler works on
    crdys,        \* CRDY frames written
    arrived,      \* batches received so far; their numbers are 1..arrived
    stale,        \* stale_batches
    reconnect,    \* ConsumerConfig.reconnect
    stop,         \* the stop flag of close()
    consume,      \* the user: in consume(), outside, or done with the Consumer
    handled,      \* history: batches the handler is done with
    owed,         \* history: this cycle has accepted a batch and not taken one
    spare         \* history: batches accepted that no cycle takes

vars == <<control, held, alive, reconnects, prefetch, accept, ready, slot, conn,
          channel, handler, crdys, arrived, stale, reconnect, stop, consume,
          handled, owed, spare>>

NoBatch == 0
Last    == -1   \* the None that ends the channel
Batch   == Nat

gateVars   == <<prefetch, accept, ready, slot>>
userVars   == <<channel, handler, handled, consume, stop, reconnect>>
masterVars == <<alive, reconnects, crdys>>
history    == <<owed, spare>>
dataVars   == <<conn, arrived, stale, history>>

Init ==
    /\ control = "top" /\ held = NoBatch
    /\ alive = TRUE /\ reconnects = 0
    /\ prefetch = TRUE /\ accept = FALSE /\ ready = FALSE /\ slot = NoBatch
    /\ conn = [d \in Conns |-> [at |-> "read", batch |-> NoBatch]]
    /\ channel = <<>> /\ handler = NoBatch /\ handled = {}
    /\ crdys = 0 /\ arrived = 0 /\ stale = 0
    /\ reconnect \in BOOLEAN /\ stop = FALSE /\ consume = "running"
    /\ owed = FALSE /\ spare = 0

-----------------------------------------------------------------------------
(* run_control_session.                                                    *)

Top ==
    /\ control = "top"
    /\ control' = IF stop THEN "down" ELSE "gate"
    /\ UNCHANGED <<held, gateVars, userVars, masterVars, dataVars>>

\* prefetch.wait_and_clear(): the flag is seen and then cleared.
Gate ==
    /\ control = "gate" /\ prefetch
    /\ control' = "clear"
    /\ UNCHANGED <<held, gateVars, userVars, masterVars, dataVars>>

Clear ==
    /\ control = "clear"
    /\ prefetch' = FALSE
    /\ control' = IF stop THEN "down" ELSE "reset"
    /\ UNCHANGED <<held, accept, ready, slot, userVars, masterVars, dataVars>>

\* batch_ready.clear(), then the slot is emptied.
Reset ==
    /\ control = "reset"
    /\ ready' = FALSE
    /\ control' = "empty"
    /\ UNCHANGED <<held, prefetch, accept, slot, userVars, masterVars, dataVars>>

EmptySlot ==
    /\ control = "empty"
    /\ slot' = NoBatch
    /\ control' = "crdy"
    /\ UNCHANGED <<held, prefetch, accept, ready, userVars, masterVars, dataVars>>

\* CRDY is written, into a dead connection too as long as no error shows.
SendCrdy ==
    /\ control = "crdy" /\ crdys < MaxCrdys
    /\ crdys' = crdys + 1
    /\ control' = "open"
    /\ UNCHANGED <<held, alive, reconnects, gateVars, userVars, dataVars>>

\* The window opens after the CRDY has been flushed.
Open ==
    /\ control = "open"
    /\ accept' = TRUE
    /\ control' = "wait"
    /\ UNCHANGED <<held, prefetch, ready, slot, userVars, masterVars, dataVars>>

\* The select! is biased: a dead session comes before the batch.
BatchReady ==
    /\ control = "wait" /\ ready
    /\ control' = "close"
    /\ UNCHANGED <<held, gateVars, userVars, masterVars, dataVars>>

\* Some data connection is at one of these steps.
At(steps) == \E d \in Conns : conn[d].at \in steps

\* The cycle ends; what it accepted and did not take is spare when the code
\* could not have waited for it.
EndCycle(unavoidable) ==
    /\ owed' = FALSE
    /\ spare' = IF owed /\ unavoidable THEN spare + 1 ELSE spare

\* Mutant: gives up although a batch is there.
TimeoutAnyway ==
    /\ control = "wait"
    /\ control' = "timeout"
    /\ EndCycle(At({"store", "raise"}))
    /\ UNCHANGED <<held, gateVars, userVars, masterVars, conn, arrived, stale>>

\* batch_timeout_secs.
Timeout ==
    /\ control = "wait" /\ ~ready
    /\ control' = "timeout"
    /\ EndCycle(At({"store", "raise"}))
    /\ UNCHANGED <<held, gateVars, userVars, masterVars, conn, arrived, stale>>

\* Mutant: a timeout does not ask for the next cycle.
CloseWindowOnly ==
    /\ control \in {"close", "timeout"}
    /\ accept' = FALSE
    /\ control' = IF control = "close" THEN "take" ELSE "top"
    /\ UNCHANGED <<held, prefetch, ready, slot, userVars, masterVars, dataVars>>

\* The window closes; a timeout starts the next cycle.
CloseWindow ==
    /\ control \in {"close", "timeout"}
    /\ accept' = FALSE
    /\ control' = IF control = "close" THEN "take" ELSE "again"
    /\ UNCHANGED <<held, prefetch, ready, slot, userVars, masterVars, dataVars>>

\* prefetch.set() after an empty wait.
Again ==
    /\ control = "again"
    /\ prefetch' = TRUE
    /\ control' = "top"
    /\ UNCHANGED <<held, accept, ready, slot, userVars, masterVars, dataVars>>

\* Mutant: asks for the next batch while this one is in the channel.
TakePrefetching ==
    /\ control = "take"
    /\ held' = slot /\ slot' = NoBatch
    /\ prefetch' = TRUE
    /\ EndCycle(slot = NoBatch /\ At({"store"}))
    /\ control' = IF slot = NoBatch THEN "top" ELSE "send"
    /\ UNCHANGED <<accept, ready, userVars, masterVars, conn,
                   arrived, stale>>

\* Mutant: sends what the slot holds, if anything.
TakeUnchecked ==
    /\ control = "take"
    /\ held' = slot /\ slot' = NoBatch
    /\ EndCycle(slot = NoBatch /\ At({"store"}))
    /\ control' = "send"
    /\ UNCHANGED <<prefetch, accept, ready, userVars, masterVars, conn,
                   arrived, stale>>

\* pending.take(): an empty slot is an empty wait.
Take ==
    /\ control = "take"
    /\ held' = slot /\ slot' = NoBatch
    /\ EndCycle(slot = NoBatch /\ At({"store"}))
    /\ control' = IF slot = NoBatch THEN "again" ELSE "send"
    /\ UNCHANGED <<prefetch, accept, ready, userVars, masterVars, conn,
                   arrived, stale>>

\* out_tx.send blocks while the channel is full, and fails without a receiver.
Send ==
    /\ control = "send"
    /\ \/ /\ consume # "dropped" /\ Len(channel) < Prefetch
          /\ channel' = Append(channel, held) /\ control' = "top"
       \/ /\ consume = "dropped"
          /\ control' = "down" /\ UNCHANGED channel
    /\ held' = NoBatch
    /\ UNCHANGED <<gateVars, handler, handled, consume, stop, reconnect,
                   masterVars, dataVars>>

-----------------------------------------------------------------------------
(* run_control_plane: the session dies and a new one registers.            *)

SessionDies ==
    /\ alive /\ reconnects < MaxReconnects
    /\ alive' = FALSE /\ reconnects' = reconnects + 1
    /\ UNCHANGED <<control, held, gateVars, userVars, crdys, dataVars>>

\* The watchdog is heard at the gate and in the window, a failed write of CRDY
\* ends the session too.
SessionEnds ==
    /\ ~alive /\ control \in {"gate", "crdy", "wait"}
    /\ accept' = FALSE
    /\ control' = "down"
    /\ EndCycle(TRUE)
    /\ UNCHANGED <<held, prefetch, ready, slot, userVars, masterVars, conn,
                   arrived, stale>>

\* prefetch.set(), connect, REG!.
Reconnect ==
    /\ control = "down" /\ reconnect /\ ~stop
    /\ prefetch' = TRUE /\ alive' = TRUE
    /\ control' = "top"
    /\ UNCHANGED <<held, accept, ready, slot, reconnects, crdys, userVars, dataVars>>

\* Mutant: the task ends without a word.
EndSilently ==
    /\ control = "down" /\ (~reconnect \/ stop)
    /\ control' = "ended"
    /\ UNCHANGED <<held, gateVars, userVars, masterVars, dataVars>>

\* The task ends with out_tx.send(None).
End ==
    /\ control = "down" /\ (~reconnect \/ stop)
    /\ \/ consume = "dropped" /\ UNCHANGED channel
       \/ /\ consume # "dropped" /\ Len(channel) < Prefetch
          /\ channel' = Append(channel, Last)
    /\ control' = "ended"
    /\ UNCHANGED <<held, gateVars, handler, handled, consume, stop, reconnect,
                   masterVars, dataVars>>

-----------------------------------------------------------------------------
(* serve_data_connection.                                                  *)

\* The next turn of its loop.
Turn == [at |-> IF stop THEN "closed" ELSE "read", batch |-> NoBatch]

\* Whatever batch comes is read and parsed.  Nothing here ties it to a CRDY: it
\* may be the late answer to an earlier one, the second answer after a producer
\* delivered and was lost before its DELV, or meant for the process that had
\* this data_addr before.
Receive(d) ==
    /\ conn[d].at = "read" /\ arrived < MaxBatches
    /\ arrived' = arrived + 1
    /\ conn' = [conn EXCEPT ![d] = [at |-> "check", batch |-> arrived + 1]]
    /\ UNCHANGED <<control, held, gateVars, userVars, masterVars, stale, history>>

\* Of the batches that pass one window only one can be taken.
Accepted ==
    /\ owed' = (owed \/ control # "timeout")
    /\ spare' = IF owed \/ control = "timeout" THEN spare + 1 ELSE spare

\* Outside the window the batch is dropped and counted.
CheckWindow(d) ==
    /\ conn[d].at = "check"
    /\ \/ /\ accept
          /\ conn' = [conn EXCEPT ![d].at = "store"]
          /\ Accepted /\ UNCHANGED stale
       \/ /\ ~accept
          /\ conn' = [conn EXCEPT ![d] = Turn]
          /\ stale' = stale + 1 /\ UNCHANGED history
    /\ UNCHANGED <<control, held, gateVars, userVars, masterVars, arrived>>

\* Mutant: the gate is raised before the batch is stored.
StoreLate(d) ==
    \/ /\ conn[d].at = "store"
       /\ conn' = [conn EXCEPT
                     ![d] = [at |-> "raise", batch |-> conn[d].batch]]
       /\ ready' = TRUE
       /\ UNCHANGED <<control, held, prefetch, accept, slot, userVars,
                      masterVars, arrived, stale, history>>
    \/ /\ conn[d].at = "raise"
       /\ conn' = [conn EXCEPT ![d] = Turn]
       /\ slot' = conn[d].batch
       /\ UNCHANGED <<control, held, prefetch, accept, ready, userVars,
                      masterVars, arrived, stale, history>>

\* store_batch: the slot first, then batch_ready.set().
StoreBatch(d) ==
    \/ /\ conn[d].at = "store"
       /\ slot' = conn[d].batch
       /\ conn' = [conn EXCEPT ![d] = [at |-> "raise", batch |-> NoBatch]]
       /\ UNCHANGED <<control, held, prefetch, accept, ready, userVars,
                      masterVars, arrived, stale, history>>
    \/ /\ conn[d].at = "raise"
       /\ ready' = TRUE
       /\ conn' = [conn EXCEPT ![d] = Turn]
       /\ UNCHANGED <<control, held, prefetch, accept, slot, userVars,
                      masterVars, arrived, stale, history>>

-----------------------------------------------------------------------------
(* consume().                                                              *)

\* pull_batch; None ends consume().
Pull ==
    /\ consume = "running" /\ handler = NoBatch /\ channel # <<>>
    /\ \/ Head(channel) # Last /\ handler' = Head(channel) /\ UNCHANGED consume
       \/ Head(channel) = Last /\ consume' = "returned" /\ UNCHANGED handler
    /\ channel' = Tail(channel)
    /\ UNCHANGED <<control, held, gateVars, handled, stop, reconnect, masterVars,
                   dataVars>>

\* The handler returns and release_prefetch_slot raises the gate.
HandlerDone ==
    /\ handler # NoBatch
    /\ handled' = handled \cup {handler} /\ handler' = NoBatch
    /\ prefetch' = TRUE
    /\ UNCHANGED <<control, held, accept, ready, slot, channel, consume, stop,
                   reconnect, masterVars, dataVars>>

\* It returns an error: consume() returns it and raises nothing.
HandlerFails ==
    /\ handler # NoBatch
    /\ handled' = handled \cup {handler} /\ handler' = NoBatch
    /\ consume' = "returned"
    /\ UNCHANGED <<control, held, gateVars, channel, stop, reconnect, masterVars,
                   dataVars>>

ConsumeAgain ==
    /\ consume = "returned"
    /\ consume' = "running"
    /\ UNCHANGED <<control, held, gateVars, channel, handler, handled, stop,
                   reconnect, masterVars, dataVars>>

Close ==
    /\ ~stop /\ handler = NoBatch
    /\ stop' = TRUE
    /\ UNCHANGED <<control, held, gateVars, channel, handler, handled, consume,
                   reconnect, masterVars, dataVars>>

\* drop(): close(), and the channel goes with its receiver.
Drop ==
    /\ consume # "dropped"
    /\ stop' = TRUE /\ consume' = "dropped"
    /\ channel' = <<>> /\ handler' = NoBatch
    /\ UNCHANGED <<control, held, gateVars, handled, reconnect, masterVars,
                   dataVars>>

ControlStep ==
    \/ Top \/ Gate \/ Clear \/ Reset \/ EmptySlot \/ SendCrdy \/ Open \/ BatchReady
    \/ Timeout \/ CloseWindow \/ Again \/ Take \/ Send
    \/ SessionEnds \/ Reconnect \/ End

DataStep(d) == CheckWindow(d) \/ StoreBatch(d)

Next ==
    \/ ControlStep \/ SessionDies
    \/ \E d \in Conns : Receive(d) \/ DataStep(d)
    \/ Pull \/ HandlerDone \/ HandlerFails \/ ConsumeAgain \/ Close \/ Drop

Spec == Init /\ [][Next]_vars

-----------------------------------------------------------------------------
(* Types.                                                                  *)

FlagsOK ==
    /\ alive \in BOOLEAN /\ prefetch \in BOOLEAN
    /\ accept \in BOOLEAN /\ ready \in BOOLEAN
    /\ reconnect \in BOOLEAN /\ stop \in BOOLEAN /\ owed \in BOOLEAN

StateOK ==
    /\ control \in {"top", "gate", "clear", "reset", "empty", "crdy", "open",
                    "wait", "close", "timeout", "again", "take", "send", "down",
                    "ended"}
    /\ held \in Batch /\ (held # NoBatch <=> control = "send")
    /\ reconnects \in Nat /\ slot \in Batch
    /\ conn \in [Conns -> [at : {"read", "check", "store", "raise", "closed"},
                           batch : Batch]]
    /\ consume \in {"running", "returned", "dropped"}
    /\ channel \in Seq(Batch \cup {Last}) /\ handler \in Batch /\ handled \subseteq Batch
    /\ crdys \in Nat /\ arrived \in Nat /\ stale \in Nat /\ spare \in Nat

\* Gates, slot, channel and counters keep their types, and the control task
\* holds a batch exactly while it waits for room in the channel.
TypeOK == FlagsOK /\ StateOK

-----------------------------------------------------------------------------
(* Safety.                                                                 *)

\* Batches that wait for the handler or are with it.
Unhandled == Len(channel) + IF handler = NoBatch THEN 0 ELSE 1

\* client/mod.rs: "Processes batches - next CRDY only after handler".  Late
\* batches, empty waits and the handler all raise the prefetch gate, and still
\* a CRDY runs ahead of the handler only because run_control_plane raises it
\* too: by at most one batch for each session that has died.
NextAfterHandler == control = "crdy" => Unhandled <= reconnects

\* The batches somebody can still hand to the handler, and those it got.
Kept == {slot, held, handler} \cup {conn[d].batch : d \in Conns}
          \cup {channel[i] : i \in DOMAIN channel} \cup handled

\* Received, and neither with the handler nor on the way to it any more.
Gone == (1..arrived) \ Kept

\* cupidmq.mdc: "outside window -> silent drop + stale_batches".  Two data
\* connections can pass the check in one window, a batch can pass it just before
\* the window closes and be stored in or after a later cycle.  Whatever of this
\* happens: stale_batches counts only batches that are gone, and the gone ones
\* it does not count are at most the second and further batches of a window, and
\* one for each cycle that accepted a batch and ended with its session, by its
\* timeout before that batch was announced, or by a gate raised for an earlier
\* batch before it was stored.
Counted ==
    consume # "dropped" =>
        stale <= Cardinality(Gone) /\ Cardinality(Gone) <= stale + spare

-----------------------------------------------------------------------------
(* Liveness.  Both tasks run, timers fire, the handler returns, the master *)
(* can be reached again.                                                   *)

Fairness ==
    /\ WF_vars(ControlStep) /\ WF_vars(Pull) /\ WF_vars(HandlerDone)
    /\ \A d \in Conns : WF_vars(DataStep(d))

FairSpec == Spec /\ Fairness

\* What ends the asking: the user, a handler's error, a session that died
\* without reconnect.
Over == stop \/ consume = "returned" \/ (~reconnect /\ ~alive)

\* Unless something ended it, the consumer never stops asking: CRDY follows
\* CRDY, through empty waits, late batches and dead sessions, although one task
\* waits on a gate that three others raise and clear.
KeepsAsking == <>(crdys = MaxCrdys \/ Over)

\* In cycle n the gate is up and the control task is about to take batch b.
Announced(n, b) ==
    /\ crdys = n /\ slot = b
    /\ control \in {"close", "take"} \/ (control = "wait" /\ ready)

\* A batch in the slot with its gate up reaches the handler, unless another one
\* that passed the same window overwrites it before it is taken, which then
\* does, or the session dies first: batches of earlier windows that are stored
\* late, and the clearing of the slot, do not take it away.
StoredHandled ==
    \A n \in 1..MaxCrdys, b \in 1..MaxBatches :
        Announced(n, b) ~> \/ b \in handled \/ ~alive \/ Over
                           \/ \E c \in (1..MaxBatches) \ {b} : Announced(n, c)

\* Without reconnect, consume() returns when the session dies: None comes
\* through the channel, after the batches.  Only once: the data plane keeps the
\* channel open, and a later consume() waits for ever.
DeathReported ==
    ~alive /\ ~reconnect /\ control # "ended" ~> consume # "running" \/ stop
=============================================================================
