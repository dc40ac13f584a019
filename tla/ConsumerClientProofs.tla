------------------------ MODULE ConsumerClientProofs ------------------------
(***************************************************************************)
(* Type correctness of ConsumerClient, the promise of consume(): a CRDY    *)
(* runs ahead of the handler by at most the number of dead sessions; and   *)
(* that the batches it loses without counting them are at most the further *)
(* ones of a window and those of cycles that had to end without them.      *)
(***************************************************************************)
EXTENDS ConsumerClient, FiniteSetTheorems, TLAPS

LEMMA TypeInit == Init => TypeOK
<1>1. Init => FlagsOK
    BY Zenon DEF Init, FlagsOK
<1>2. Init => StateOK
    BY DEF Init, StateOK, Batch, NoBatch
<1>3. QED
    BY <1>1, <1>2 DEF TypeOK

LEMMA FlagsStep == FlagsOK /\ Next => FlagsOK'
<1> SUFFICES ASSUME FlagsOK, Next PROVE FlagsOK'
    OBVIOUS
<1> USE DEF FlagsOK, gateVars, masterVars, userVars, dataVars, history
<1>1. CASE ControlStep
    BY <1>1, ZenonT(60) DEF ControlStep, Top, End, Gate, Clear, Reset, EmptySlot, SendCrdy,
       Open, BatchReady, Timeout, CloseWindow, Again, Take, Send, SessionEnds,
       Reconnect, EndCycle
<1>2. CASE SessionDies \/ Pull \/ HandlerDone \/ HandlerFails \/ ConsumeAgain
           \/ Close \/ Drop
    BY <1>2, Zenon DEF SessionDies, Pull, HandlerDone, HandlerFails,
       ConsumeAgain, Close, Drop
<1>3. ASSUME NEW d \in Conns, Receive(d) \/ DataStep(d) PROVE FlagsOK'
    BY <1>3, Zenon DEF Receive, DataStep, CheckWindow, StoreBatch, Accepted
<1>4. QED
    BY <1>1, <1>2, <1>3 DEF Next

LEMMA AppendType ==
    ASSUME NEW S, NEW s \in Seq(S), NEW e \in S
    PROVE  Append(s, e) \in Seq(S)
OBVIOUS

\* What conn records of a data connection.
Served == [at : {"read", "check", "store", "raise", "closed"}, batch : Nat]

LEMMA TurnType == Turn \in Served
<1>1. CASE stop
    BY <1>1 DEF Turn, NoBatch, Served
<1>2. CASE ~stop
    BY <1>2 DEF Turn, NoBatch, Served
<1>3. QED
    BY <1>1, <1>2

LEMMA ServedKept ==
    ASSUME StateOK, NEW d \in Conns, NEW r \in Served
    PROVE  [conn EXCEPT ![d] = r] \in [Conns -> Served]
BY DEF StateOK, Served, Batch

LEMMA ControlType == StateOK /\ ControlStep => StateOK'
<1> SUFFICES ASSUME StateOK, ControlStep PROVE StateOK'
    OBVIOUS
<1> USE DEF StateOK, Batch, NoBatch, Last, gateVars, userVars, masterVars,
            dataVars, history
<1>1. CASE Gate
    BY <1>1 DEF Gate
<1>2. CASE Clear
    BY <1>2 DEF Clear
<1>3. CASE Reset
    BY <1>3 DEF Reset
<1>4. CASE EmptySlot
    BY <1>4 DEF EmptySlot
<1>5. CASE SendCrdy
    BY <1>5 DEF SendCrdy
<1>6. CASE Open
    BY <1>6 DEF Open
<1>7. CASE BatchReady
    BY <1>7 DEF BatchReady
<1>8. CASE Timeout
    BY <1>8 DEF Timeout, EndCycle
<1>9. CASE CloseWindow
    BY <1>9 DEF CloseWindow
<1>10. CASE Again
    BY <1>10 DEF Again
<1>11. CASE Take
    BY <1>11 DEF Take, EndCycle
<1>12. CASE Send
    <2>1. held \in Nat \cup {-1} /\ channel \in Seq(Nat \cup {-1})
        OBVIOUS
    <2>2. Append(channel, held) \in Seq(Nat \cup {-1})
        BY <2>1, Zenon, AppendType
    <2>3. channel' \in Seq(Nat \cup {-1})
        BY <1>12, <2>1, <2>2, Zenon DEF Send
    <2>4. /\ control' \in {"top", "down"} /\ held' = 0
          /\ UNCHANGED <<handler, handled, consume, reconnects, crdys>>
          /\ UNCHANGED <<slot, conn, arrived, stale, spare>>
        BY <1>12 DEF Send
    <2>5. QED
        BY <2>3, <2>4
<1>13. CASE SessionEnds
    BY <1>13 DEF SessionEnds, EndCycle
<1>14. CASE Reconnect
    BY <1>14 DEF Reconnect
<1>15. CASE Top
    BY <1>15 DEF Top
<1>16. CASE End
    BY <1>16 DEF End
<1>17. QED
    BY <1>1, <1>2, <1>3, <1>4, <1>5, <1>6, <1>7, <1>8, <1>9, <1>10, <1>11,
       <1>12, <1>13, <1>14, <1>15, <1>16 DEF ControlStep

LEMMA OtherType ==
    ASSUME StateOK,
           \/ SessionDies \/ Pull \/ HandlerDone \/ HandlerFails
           \/ ConsumeAgain \/ Close \/ Drop
           \/ \E d \in Conns : Receive(d) \/ DataStep(d)
    PROVE  StateOK'
<1> USE DEF StateOK, Batch, NoBatch, Last, gateVars, userVars, masterVars,
            dataVars, history
<1>1. CASE SessionDies
    BY <1>1 DEF SessionDies
<1>2. CASE Pull
    BY <1>2 DEF Pull
<1>3. CASE HandlerDone
    BY <1>3 DEF HandlerDone
<1>4. CASE HandlerFails
    BY <1>4 DEF HandlerFails
<1>5. CASE ConsumeAgain
    BY <1>5 DEF ConsumeAgain
<1>6. CASE Close
    BY <1>6 DEF Close
<1>7. CASE Drop
    BY <1>7 DEF Drop
<1>9. ASSUME NEW d \in Conns, Receive(d) PROVE StateOK'
    BY <1>9 DEF Receive
<1>10. ASSUME NEW d \in Conns, CheckWindow(d) PROVE StateOK'
    <2>1. conn[d].batch \in Nat
        BY <1>10
    <2>2. /\ \/ conn' = [conn EXCEPT
                           ![d] = [at |-> "store", batch |-> conn[d].batch]]
             \/ conn' = [conn EXCEPT ![d] = Turn]
          /\ stale' = stale \/ stale' = stale + 1
          /\ spare' = spare \/ spare' = spare + 1
        <3>1. conn[d] \in Served
            BY DEF Served
        <3>2. [conn[d] EXCEPT !.at = "store"] = [at |-> "store", batch |-> conn[d].batch]
            BY <3>1 DEF Served
        <3>3. [conn EXCEPT ![d].at = "store"] =
                 [conn EXCEPT ![d] = [at |-> "store", batch |-> conn[d].batch]]
            BY <3>2
        <3>4. QED
            BY <1>10, <3>3, Zenon DEF CheckWindow, Accepted
    <2>3. /\ UNCHANGED <<control, held, reconnects, slot, channel, handler>>
          /\ UNCHANGED <<handled, consume, crdys, arrived>>
        BY <1>10, Zenon DEF CheckWindow
    <2>4. [at |-> "store", batch |-> conn[d].batch] \in Served
        BY <2>1 DEF Served
    <2>5. conn' \in [Conns -> Served]
        BY <2>2, <2>4, ServedKept, TurnType, ZenonT(60)
    <2>6. QED
        BY <2>2, <2>3, <2>5 DEF Served
<1>11. ASSUME NEW d \in Conns, StoreBatch(d) PROVE StateOK'
    <2>1. conn[d].batch \in Nat
        BY <1>11
    <2>2. /\ \/ conn' = [conn EXCEPT ![d] = [at |-> "raise", batch |-> NoBatch]]
             \/ conn' = [conn EXCEPT ![d] = Turn]
          /\ slot' = conn[d].batch \/ slot' = slot
        BY <1>11, Zenon DEF StoreBatch
    <2>3. /\ UNCHANGED <<control, held, reconnects, channel, handler, handled>>
          /\ UNCHANGED <<consume, crdys, arrived, stale, spare>>
        BY <1>11, Zenon DEF StoreBatch
    <2>4. [at |-> "raise", batch |-> NoBatch] \in Served
        BY DEF Served
    <2>5. conn' \in [Conns -> Served]
        BY <2>2, <2>4, ServedKept, TurnType, ZenonT(60)
    <2>6. QED
        BY <2>1, <2>2, <2>3, <2>5 DEF Served
<1>12. QED
    BY <1>1, <1>2, <1>3, <1>4, <1>5, <1>6, <1>7, <1>9, <1>10, <1>11
       DEF DataStep

LEMMA TypeStutter == TypeOK /\ UNCHANGED vars => TypeOK'
BY DEF TypeOK, FlagsOK, StateOK, vars

LEMMA TypeStep == TypeOK /\ [Next]_vars => TypeOK'
<1>1. TypeOK /\ Next => StateOK'
    BY ControlType, OtherType DEF Next, TypeOK
<1>2. QED
    BY <1>1, FlagsStep, TypeStutter DEF TypeOK

\* Every variable keeps its type and the control task holds a batch exactly
\* while it waits for room in the channel (run_control_session).
THEOREM ClientTypeCorrect == Spec => []TypeOK
BY TypeInit, TypeStep, PTL DEF Spec

-----------------------------------------------------------------------------
(* Permissions to ask: the raised prefetch gate is one, the control task   *)
(* uses one between the gate and the channel, and one travels with every   *)
(* batch through the channel and the handler.  A live session accounts for *)
(* one, and so does every session that died.                               *)

B(flag) == IF flag THEN 1 ELSE 0

\* Where the control task uses none.
Resting == {"top", "gate", "clear", "down", "ended"}

Uses == B(control \notin Resting)

Permissions == B(prefetch) + Uses + Unhandled

PermissionInv ==
    /\ control = "clear" => prefetch
    /\ control = "down"  => ~alive \/ stop
    /\ control # "ended" => Permissions <= reconnects + B(alive)

\* drop() is a close() as well.
DropCloses == consume = "dropped" => stop

ClientInv == TypeOK /\ PermissionInv /\ DropCloses

LEMMA DropClosesStep == DropCloses /\ Next => DropCloses'
<1> SUFFICES ASSUME DropCloses, Next PROVE DropCloses'
    OBVIOUS
<1>1. (stop' = stop /\ consume' = consume) \/ stop' = TRUE \/ consume' # "dropped"
    <2> USE DEF userVars
    <2>1. CASE ControlStep
        BY <2>1, Zenon DEF ControlStep, Top, End, Gate, Clear, Reset, EmptySlot,
           SendCrdy, Open, BatchReady, Timeout, CloseWindow, Again, Take, Send,
           SessionEnds, Reconnect
    <2>2. CASE SessionDies \/ HandlerDone \/ Close \/ Drop
        BY <2>2, Zenon DEF SessionDies, HandlerDone, Close, Drop
    <2>3. CASE Pull \/ HandlerFails \/ ConsumeAgain
        BY <2>3 DEF Pull, HandlerFails, ConsumeAgain
    <2>4. ASSUME NEW d \in Conns, Receive(d) \/ DataStep(d)
          PROVE  stop' = stop /\ consume' = consume
        BY <2>4, Zenon DEF Receive, DataStep, CheckWindow, StoreBatch
    <2>5. QED
        BY <2>1, <2>2, <2>3, <2>4 DEF Next
<1>2. QED
    BY <1>1, Zenon DEF DropCloses

LEMMA UnhandledNat ==
    ASSUME TypeOK
    PROVE  /\ Unhandled \in Nat /\ Uses \in {0, 1} /\ reconnects \in Nat
           /\ B(prefetch) \in {0, 1} /\ B(alive) \in {0, 1}
<1>1. channel \in Seq(Int) /\ reconnects \in Nat
    BY DEF TypeOK, StateOK, Batch, Last
<1>2. Unhandled \in Nat
    BY <1>1 DEF Unhandled
<1>3. Uses \in {0, 1}
    BY DEF Uses, B
<1>4. B(prefetch) \in {0, 1} /\ B(alive) \in {0, 1}
    BY Zenon DEF B
<1>5. QED
    BY <1>1, <1>2, <1>3, <1>4

LEMMA PermissionInit == Init => PermissionInv
<1> SUFFICES ASSUME Init PROVE PermissionInv
    OBVIOUS
<1>1. /\ control = "top" /\ prefetch = TRUE /\ alive = TRUE
      /\ reconnects = 0 /\ channel = <<>> /\ handler = NoBatch
    BY Zenon DEF Init
<1>2. Uses = 0 /\ Unhandled = 0
    BY <1>1 DEF Uses, Unhandled, B, Resting
<1>3. B(prefetch) = 1 /\ B(alive) = 1
    BY <1>1, Zenon DEF B
<1>4. Permissions <= reconnects + B(alive)
    BY <1>1, <1>2, <1>3 DEF Permissions
<1>5. QED
    BY <1>1, <1>4, Zenon DEF PermissionInv

\* A step that changes neither the gate nor the session and adds no permission.
LEMMA PermissionsKept ==
    ASSUME ClientInv, control # "ended",
           UNCHANGED <<prefetch, alive, reconnects>>,
           Uses' \in {0, 1}, Unhandled' \in Nat,
           Uses' + Unhandled' <= Uses + Unhandled,
           control' = "clear" => prefetch,
           control' = "down" => (~alive \/ stop')
    PROVE  PermissionInv'
<1>1. Permissions <= reconnects + B(alive)
    BY Zenon DEF ClientInv, PermissionInv
<1>2. B(prefetch') = B(prefetch) /\ B(alive') = B(alive)
    BY Zenon
<1>3. Permissions' <= reconnects' + B(alive')
    BY <1>1, <1>2, UnhandledNat DEF ClientInv, Permissions
<1>4. QED
    BY <1>3, Zenon DEF PermissionInv

\* Once the control task has ended, nothing is left to bound.
LEMMA EndedKept ==
    ASSUME control' = "ended"
    PROVE  PermissionInv'
BY Zenon DEF PermissionInv

LEMMA SumMonotone ==
    ASSUME NEW a \in {0, 1}, NEW m \in Nat, NEW n \in Nat, m <= n
    PROVE  a + m <= a + n
OBVIOUS

\* What every action does to the permissions, action by action.
LEMMA PermissionStep ==
    ASSUME ClientInv, Next
    PROVE  PermissionInv'
<1> USE DEF gateVars, userVars, masterVars, dataVars
<1>0. /\ TypeOK /\ PermissionInv
      /\ Unhandled \in Nat /\ Uses \in {0, 1} /\ B(prefetch) \in {0, 1}
      /\ B(alive) \in {0, 1} /\ reconnects \in Nat
      /\ channel \in Seq(Int) /\ handler \in Nat /\ held \in Nat
    BY UnhandledNat DEF ClientInv, PermissionInv, TypeOK, StateOK, Batch, Last
<1>1. CASE Gate \/ Top
    <2>1. /\ control \in {"gate", "top"} /\ control' \in {"clear", "gate", "down"}
          /\ control' = "clear" => prefetch
          /\ control' = "down" => stop
        BY <1>1 DEF Gate, Top
    <2>2. UNCHANGED <<prefetch, alive, stop, reconnects, channel, handler>>
        BY <1>1, Zenon DEF Gate, Top
    <2>3. Uses' = Uses /\ Unhandled' = Unhandled
        BY <2>1, <2>2 DEF Uses, Unhandled, Resting
    <2>4. Uses' + Unhandled' <= Uses + Unhandled
        BY <2>3, <1>0
    <2>5. control # "ended"
        BY <2>1
    <2>6. QED
        BY <2>1, <2>2, <2>3, <2>4, <2>5, <1>0, PermissionsKept, Zenon
<1>2. CASE Clear
    <2>1. /\ control = "clear" /\ prefetch' = FALSE /\ prefetch
          /\ UNCHANGED <<alive, stop, reconnects, channel, handler>>
        BY <1>2, <1>0, Zenon DEF Clear, PermissionInv
    <2>2. /\ control' \in {"reset", "down"}
          /\ control' = "down" => stop
        BY <1>2 DEF Clear
    <2>3. /\ Uses = 0 /\ Uses' \in {0, 1} /\ Unhandled' = Unhandled
        BY <2>1, <2>2 DEF Uses, Unhandled, B, Resting
    <2>4. B(prefetch) = 1 /\ B(prefetch') = 0 /\ B(alive') = B(alive)
        BY <2>1, Zenon DEF B
    <2>5. reconnects' = reconnects /\ control # "ended"
        BY <2>1, Zenon
    <2>6. Permissions <= reconnects + B(alive)
        BY <2>5, <1>0, Zenon DEF PermissionInv
    <2>7. Permissions' <= reconnects' + B(alive')
        BY <2>3, <2>4, <2>5, <2>6, <1>0 DEF Permissions
    <2>8. control' # "clear"
        BY <2>2
    <2>9. QED
        BY <2>1, <2>2, <2>7, <2>8, Zenon DEF PermissionInv
<1>3. CASE \/ Reset \/ EmptySlot \/ SendCrdy \/ Open
           \/ BatchReady \/ Timeout \/ CloseWindow \/ Take
    <2>1. control \notin Resting /\ control' \notin Resting
        BY <1>3 DEF Reset, EmptySlot, SendCrdy, Open, BatchReady, Timeout,
           CloseWindow, Take, Resting
    <2>2. UNCHANGED <<prefetch, alive, reconnects, channel, handler>>
        BY <1>3, Zenon DEF Reset, EmptySlot, SendCrdy, Open, BatchReady,
           Timeout, CloseWindow, Take
    <2>3. Uses' = Uses /\ Unhandled' = Unhandled
        BY <2>1, <2>2 DEF Uses, Unhandled
    <2>4. Uses' + Unhandled' <= Uses + Unhandled
        BY <2>3, <1>0
    <2>5. control # "ended" /\ control' # "clear" /\ control' # "down"
        BY <2>1 DEF Resting
    <2>6. QED
        BY <2>2, <2>3, <2>4, <2>5, <1>0, PermissionsKept, Zenon
<1>4. CASE Again
    <2>1. /\ control = "again" /\ control' = "top" /\ prefetch' = TRUE
          /\ UNCHANGED <<alive, reconnects, channel, handler>>
        BY <1>4, Zenon DEF Again
    <2>2. Uses = 1 /\ Uses' = 0 /\ Unhandled' = Unhandled
        BY <2>1 DEF Uses, Unhandled, B, Resting
    <2>3. B(prefetch') = 1 /\ B(alive') = B(alive)
        BY <2>1, Zenon DEF B
    <2>4. Permissions <= reconnects + B(alive)
        BY <2>1, <1>0, Zenon DEF PermissionInv
    <2>5. Permissions' <= reconnects' + B(alive')
        BY <2>1, <2>2, <2>3, <2>4, <1>0 DEF Permissions
    <2>6. QED
        BY <2>1, <2>5, Zenon DEF PermissionInv
<1>5. CASE Send
    <2>1. /\ control = "send" /\ control' \in {"top", "down"}
          /\ UNCHANGED <<prefetch, alive, stop, reconnects, handler>>
          /\ \/ channel' = Append(channel, held) /\ control' = "top"
             \/ channel' = channel
        BY <1>5 DEF Send
    <2>2. Uses = 1 /\ Uses' = 0
        BY <2>1 DEF Uses, B, Resting
    <2>3. Unhandled' = Unhandled + 1 \/ Unhandled' = Unhandled
        BY <2>1, <1>0 DEF Unhandled
    <2>4. Uses' + Unhandled' <= Uses + Unhandled /\ Unhandled' \in Nat
        BY <2>2, <2>3, <1>0
    <2>5. control # "ended" /\ control' # "clear"
        BY <2>1
    <2>6. control' = "down" => stop'
        <3>1. control' = "down" => consume = "dropped"
            BY <1>5 DEF Send
        <3>2. QED
            BY <2>1, <3>1, Zenon DEF ClientInv, DropCloses
    <2>7. QED
        BY <2>1, <2>2, <2>4, <2>5, <2>6, <1>0, PermissionsKept, Zenon
<1>6. CASE SessionDies
    <2>1. /\ alive /\ alive' = FALSE /\ reconnects' = reconnects + 1
          /\ UNCHANGED <<control, prefetch, stop, channel, handler>>
        BY <1>6, Zenon DEF SessionDies
    <2>2. B(alive) = 1 /\ B(alive') = 0 /\ B(prefetch') = B(prefetch)
        BY <2>1, Zenon DEF B
    <2>3. Uses' = Uses /\ Unhandled' = Unhandled
        BY <2>1 DEF Uses, Unhandled
    <2>4. reconnects' = reconnects + 1
        BY <2>1, Zenon
    <2>5. control # "ended" => Permissions <= reconnects + B(alive)
        BY <1>0, Zenon DEF PermissionInv
    <2>6. control # "ended" => Permissions' <= reconnects' + B(alive')
        BY <2>2, <2>3, <2>4, <2>5, <1>0 DEF Permissions
    <2>7. QED
        BY <2>1, <2>6, <1>0, Zenon DEF PermissionInv
<1>7. CASE SessionEnds
    <2>1. /\ ~alive /\ control \in {"gate", "crdy", "wait"} /\ control' = "down"
          /\ UNCHANGED <<prefetch, alive, reconnects, channel, handler>>
        BY <1>7, Zenon DEF SessionEnds
    <2>2. Uses' = 0 /\ Unhandled' = Unhandled
        BY <2>1 DEF Uses, Unhandled, B, Resting
    <2>3. Uses' + Unhandled' <= Uses + Unhandled
        BY <2>2, <1>0
    <2>4. control # "ended" /\ control' # "clear"
        BY <2>1
    <2>5. QED
        BY <2>1, <2>2, <2>3, <2>4, <1>0, PermissionsKept, Zenon
<1>8. CASE Reconnect
    <2>1. /\ control = "down" /\ control' = "top" /\ ~alive
          /\ prefetch' = TRUE /\ alive' = TRUE
          /\ UNCHANGED <<reconnects, channel, handler>>
        BY <1>8, <1>0, Zenon DEF Reconnect, PermissionInv
    <2>2. Uses = 0 /\ Uses' = 0 /\ Unhandled' = Unhandled
        BY <2>1 DEF Uses, Unhandled, B, Resting
    <2>3. B(prefetch') = 1 /\ B(alive) = 0 /\ B(alive') = 1
        BY <2>1, Zenon DEF B
    <2>4. Permissions <= reconnects + B(alive)
        BY <2>1, <1>0, Zenon DEF PermissionInv
    <2>5. Permissions' <= reconnects' + B(alive')
        BY <2>1, <2>2, <2>3, <2>4, <1>0 DEF Permissions
    <2>6. QED
        BY <2>1, <2>5, Zenon DEF PermissionInv
<1>9. CASE End
    <2>1. control' = "ended"
        BY <1>9, Zenon DEF End
    <2>2. QED
        BY <2>1, EndedKept
<1>10. CASE \/ Pull \/ HandlerFails \/ ConsumeAgain \/ Close \/ Drop
            \/ \E d \in Conns : Receive(d) \/ DataStep(d)
    <2>1. /\ UNCHANGED <<control, prefetch, alive, reconnects>>
          /\ stop' = stop \/ stop' = TRUE
        BY <1>10, Zenon DEF Pull, HandlerFails, ConsumeAgain, Close, Drop,
           Receive, DataStep, CheckWindow, StoreBatch
    <2>2. Unhandled' \in Nat /\ Unhandled' <= Unhandled
        <3>1. CASE Pull
            <4>1. /\ handler = NoBatch /\ channel # <<>>
                  /\ channel' = Tail(channel)
                BY <3>1, Zenon DEF Pull
            <4>2. Len(channel') = Len(channel) - 1 /\ Len(channel) \in Nat
                BY <4>1, <1>0
            <4>3. Len(channel') \in Nat
                BY <4>1, <1>0
            <4>4. QED
                BY <4>1, <4>2, <4>3 DEF Unhandled
        <3>2. CASE HandlerFails
            BY <3>2, <1>0 DEF HandlerFails, Unhandled
        <3>3. CASE Drop
            BY <3>3, <1>0 DEF Drop, Unhandled
        <3>4. CASE \/ ConsumeAgain \/ Close
                   \/ \E d \in Conns : Receive(d) \/ DataStep(d)
            <4>1. UNCHANGED <<channel, handler>>
                BY <3>4, Zenon DEF ConsumeAgain, Close, Receive,
                   DataStep, CheckWindow, StoreBatch
            <4>2. QED
                BY <4>1, <1>0 DEF Unhandled
        <3>5. QED
            BY <1>10, <3>1, <3>2, <3>3, <3>4
    <2>3. Uses' = Uses
        BY <2>1 DEF Uses
    <2>4. Uses' + Unhandled' <= Uses + Unhandled
        <3>1. /\ Unhandled \in Nat /\ Uses \in {0, 1}
              /\ Unhandled' \in Nat /\ Unhandled' <= Unhandled /\ Uses' = Uses
            BY <1>0, <2>2, <2>3, Zenon
        <3>2. Uses + Unhandled' <= Uses + Unhandled
            BY <3>1, SumMonotone, Zenon
        <3>3. QED
            BY <3>1, <3>2, Zenon
    <2>5. CASE control = "ended"
        BY <2>1, <2>5, EndedKept
    <2>6. CASE control # "ended"
        <3>1. /\ control' = "clear" => prefetch
              /\ control' = "down" => ~alive \/ stop'
            BY <2>1, <1>0, Zenon DEF PermissionInv
        <3>2. QED
            BY <2>1, <2>2, <2>3, <2>4, <2>6, <3>1, <1>0, PermissionsKept, Zenon
    <2>7. QED
        BY <2>5, <2>6
<1>11. CASE HandlerDone
    <2>1. /\ handler # NoBatch /\ handler' = NoBatch /\ prefetch' = TRUE
          /\ UNCHANGED <<control, alive, stop, reconnects, channel>>
        BY <1>11, Zenon DEF HandlerDone
    <2>2. Unhandled' = Unhandled - 1
        BY <2>1, <1>0 DEF Unhandled
    <2>3. Uses' = Uses
        BY <2>1 DEF Uses
    <2>4. B(prefetch') = 1 /\ B(alive') = B(alive)
        BY <2>1, Zenon DEF B
    <2>5. control # "ended" => Permissions <= reconnects + B(alive)
        BY <1>0, Zenon DEF PermissionInv
    <2>6. control # "ended" => Permissions' <= reconnects' + B(alive')
        BY <2>1, <2>2, <2>3, <2>4, <2>5, <1>0 DEF Permissions
    <2>7. QED
        BY <2>1, <2>6, <1>0, Zenon DEF PermissionInv
<1>12. QED
    BY <1>1, <1>2, <1>3, <1>4, <1>5, <1>6, <1>7, <1>8, <1>9, <1>10, <1>11
       DEF Next, ControlStep

LEMMA PermissionStutter == PermissionInv /\ UNCHANGED vars => PermissionInv'
BY DEF PermissionInv, Permissions, Uses, Unhandled, vars

\* consume(): "next CRDY only after handler", up to one batch for each session
\* that died, for any number of data connections, late batches and empty waits
\* and any channel capacity.
THEOREM CrdyAfterHandler == Spec => []NextAfterHandler
<1>1. Init => ClientInv
    <2>1. Init => DropCloses
        BY DEF Init, DropCloses
    <2>2. QED
        BY <2>1, TypeInit, PermissionInit DEF ClientInv
<1>2. ClientInv /\ [Next]_vars => ClientInv'
    <2>1. DropCloses /\ UNCHANGED vars => DropCloses'
        BY DEF DropCloses, vars
    <2>2. QED
        BY <2>1, TypeStep, PermissionStep, PermissionStutter, DropClosesStep
           DEF ClientInv
<1>3. ClientInv => NextAfterHandler
    <2> SUFFICES ASSUME ClientInv, control = "crdy"
                 PROVE  Unhandled <= reconnects
        BY DEF NextAfterHandler
    <2>1. Uses = 1
        BY DEF Uses, B, Resting
    <2>2. Permissions <= reconnects + B(alive)
        BY DEF ClientInv, PermissionInv
    <2>3. QED
        BY <2>1, <2>2, UnhandledNat DEF ClientInv, Permissions
<1>4. QED
    BY <1>1, <1>2, <1>3, PTL DEF Spec

-----------------------------------------------------------------------------
(* Where the batches are.                                                  *)

Items(s) == {s[i] : i \in DOMAIN s}

LEMMA AppendRange ==
    ASSUME NEW S, NEW s \in Seq(S), NEW e
    PROVE  Items(Append(s, e)) = Items(s) \cup {e}
<1>1. PICK n \in Nat : n = Len(s)
    OBVIOUS
<1>2. DOMAIN Append(s, e) = 1..n + 1 /\ DOMAIN s = 1..n
    BY <1>1
<1>3. Append(s, e)[n + 1] = e /\ \A i \in 1..n : Append(s, e)[i] = s[i]
    BY <1>1
<1>4. QED
    BY <1>2, <1>3 DEF Items

LEMMA TailRange ==
    ASSUME NEW S, NEW s \in Seq(S), s # <<>>
    PROVE  Items(s) = Items(Tail(s)) \cup {Head(s)}
<1>1. PICK n \in Nat : n + 1 = Len(s)
    <2>1. Len(s) \in Nat /\ Len(s) # 0
        OBVIOUS
    <2>2. Len(s) - 1 \in Nat /\ (Len(s) - 1) + 1 = Len(s)
        BY <2>1
    <2>3. QED
        BY <2>2
<1>2. DOMAIN s = 1..n + 1 /\ DOMAIN Tail(s) = 1..n
    BY <1>1
<1>3. Head(s) = s[1] /\ \A i \in 1..n : Tail(s)[i] = s[i + 1]
    BY <1>1
<1>4. ASSUME NEW i \in 1..n + 1
      PROVE  s[i] = Head(s) \/ \E j \in 1..n : s[i] = Tail(s)[j]
    <2>1. CASE i = 1
        BY <1>3, <2>1
    <2>2. CASE i # 1
        <3>1. PICK j \in 1..n : i = j + 1
            <4>1. i - 1 \in 1..n /\ i = (i - 1) + 1
                BY <2>2
            <4>2. QED
                BY <4>1
        <3>2. QED
            BY <1>3, <3>1
    <2>3. QED
        BY <2>1, <2>2
<1>5. ASSUME NEW i \in 1..n PROVE \E j \in 1..n + 1 : Tail(s)[i] = s[j]
    <2>1. i + 1 \in 1..n + 1
        OBVIOUS
    <2>2. QED
        BY <1>3, <2>1
<1>6. \E j \in 1..n + 1 : Head(s) = s[j]
    <2>1. 1 \in 1..n + 1
        OBVIOUS
    <2>2. QED
        BY <1>3, <2>1
<1>7. PICK h, u : h = Head(s) /\ u = Tail(s)
    OBVIOUS
<1>8. /\ \A i \in 1..n + 1 : s[i] = h \/ \E j \in 1..n : s[i] = u[j]
      /\ \A i \in 1..n : \E j \in 1..n + 1 : u[i] = s[j]
      /\ \E j \in 1..n + 1 : h = s[j]
    BY <1>4, <1>5, <1>6, <1>7
<1>9. {s[i] : i \in 1..n + 1} = {u[i] : i \in 1..n} \cup {h}
    <2>1. PICK I, J : I = 1..n + 1 /\ J = 1..n
        OBVIOUS
    <2>2. /\ \A i \in I : s[i] = h \/ \E j \in J : s[i] = u[j]
          /\ \A i \in J : \E j \in I : u[i] = s[j]
          /\ \E j \in I : h = s[j]
        BY <1>8, <2>1, Zenon
    <2>3. {s[i] : i \in I} = {u[i] : i \in J} \cup {h}
        <3>1. ASSUME NEW x \in {s[i] : i \in I} PROVE x \in {u[i] : i \in J} \cup {h}
            BY <2>2
        <3>2. ASSUME NEW x \in {u[i] : i \in J} PROVE x \in {s[i] : i \in I}
            BY <2>2
        <3>3. h \in {s[i] : i \in I}
            BY <2>2
        <3>4. QED
            BY <3>1, <3>2, <3>3, Zenon
    <2>4. QED
        BY <2>1, <2>3
<1>10. Items(s) = {s[i] : i \in 1..n + 1} /\ Items(u) = {u[i] : i \in 1..n}
    BY <1>2, <1>7 DEF Items
<1>11. QED
    BY <1>7, <1>9, <1>10

\* A batch that a connection has read and not stored.
Carrying(d) == conn[d].at \in {"check", "store"}

\* Batches with the control task, in the channel, with the handler or behind it.
Owned == {held, handler} \cup Items(channel) \cup handled

\* Batches that have been read and not checked.
Unchecked == {conn[d].batch : d \in {e \in Conns : conn[e].at = "check"}}

\* Batches that were accepted and not taken, and those that are gone.
Loose == (1..arrived) \ (Owned \cup Unchecked)

\* A batch is in one place.
PlaceInv ==
    /\ Owned \subseteq -1..arrived
    /\ slot # NoBatch => slot \in 1..arrived /\ slot \notin Owned
    /\ \A d \in Conns : IF Carrying(d)
                        THEN /\ conn[d].batch \in 1..arrived
                             /\ conn[d].batch \notin Owned /\ conn[d].batch # slot
                        ELSE conn[d].batch = NoBatch
    /\ \A d, e \in Conns : Carrying(d) /\ Carrying(e) /\ conn[d].batch = conn[e].batch
                              => d = e

\* While a cycle has a batch to come, the batch is in the slot or about to be,
\* and the gate is up or about to be.
CycleInv ==
    /\ accept => control \in {"wait", "close", "timeout"}
    /\ owed => control \in {"wait", "close", "take"}
    /\ owed => slot # NoBatch \/ At({"store"})
    /\ owed => ready \/ At({"store", "raise"})

\* Every loose batch is counted as stale, is spare or is the one to come.
BooksInv ==
    /\ stale <= Cardinality(Gone)
    /\ Cardinality(Loose) <= stale + spare + B(owed)

BatchInv == PlaceInv /\ CycleInv /\ BooksInv

CountedInv ==
    /\ TypeOK
    /\ consume = "dropped" => handler = NoBatch
    /\ consume # "dropped" => BatchInv

LEMMA KeptAre ==
    \A b : b \in Kept <=> b \in Owned \/ b = slot \/ \E d \in Conns : b = conn[d].batch
BY DEF Kept, Owned, Items

LEMMA Numbers == \A n \in Nat : IsFiniteSet(1..n)
BY FS_Interval

LEMMA SetsFinite ==
    ASSUME arrived \in Nat
    PROVE  /\ IsFiniteSet(Gone) /\ Cardinality(Gone) \in Nat
           /\ IsFiniteSet(Loose) /\ Cardinality(Loose) \in Nat
<1>1. /\ Gone \subseteq 1..arrived /\ Loose \subseteq 1..arrived
      /\ IsFiniteSet(1..arrived)
    BY FS_Interval DEF Gone, Loose
<1>2. QED
    BY <1>1, FS_Subset, FS_CardinalityType

\* A step loses no more than it books.
LEMMA BooksKept ==
    ASSUME BooksInv, TypeOK, TypeOK',
           Gone \subseteq Gone', stale' = stale,
           Loose' \subseteq Loose, spare + B(owed) <= spare' + B(owed')
    PROVE  BooksInv'
<1>1. /\ arrived \in Nat /\ arrived' \in Nat /\ stale \in Nat /\ spare \in Nat
      /\ spare' \in Nat
    BY DEF TypeOK, StateOK
<1>2. B(owed) \in {0, 1} /\ B(owed') \in {0, 1}
    BY Zenon DEF B
<1>3. /\ IsFiniteSet(Gone) /\ Cardinality(Gone) \in Nat
      /\ IsFiniteSet(Loose) /\ Cardinality(Loose) \in Nat
    BY <1>1, SetsFinite
<1>4. /\ IsFiniteSet(Gone') /\ Cardinality(Gone') \in Nat
      /\ IsFiniteSet(Loose') /\ Cardinality(Loose') \in Nat
    <2>1. /\ Gone' \subseteq 1..arrived' /\ Loose' \subseteq 1..arrived'
          /\ IsFiniteSet(1..arrived')
        BY <1>1, Numbers DEF Gone, Loose
    <2>2. QED
        BY <2>1, FS_Subset, FS_CardinalityType
<1>5. Cardinality(Gone) <= Cardinality(Gone') /\ Cardinality(Loose') <= Cardinality(Loose)
    BY <1>3, <1>4, FS_Subset
<1>6. stale <= Cardinality(Gone) /\ Cardinality(Loose) <= stale + spare + B(owed)
    BY DEF BooksInv
<1>7. stale' <= Cardinality(Gone')
    BY <1>1, <1>3, <1>4, <1>5, <1>6
<1>8. Cardinality(Loose') <= stale' + spare' + B(owed')
    <2>1. PICK x, y : x = B(owed) /\ y = B(owed')
        OBVIOUS
    <2>2. QED
        BY <1>1, <1>2, <1>3, <1>4, <1>5, <1>6, <2>1
<1>9. QED
    BY <1>7, <1>8 DEF BooksInv

\* One more batch is loose.
LEMMA BooksMore ==
    ASSUME BooksInv, TypeOK, TypeOK', NEW b, arrived' = arrived,
           Loose' \subseteq Loose \cup {b},
           \/ /\ Gone \subseteq Gone' /\ stale' = stale
              /\ spare' + B(owed') = spare + B(owed) + 1
           \/ /\ Gone \cup {b} \subseteq Gone' /\ b \notin Gone
              /\ stale' = stale + 1 /\ spare' = spare /\ B(owed') = B(owed)
    PROVE  BooksInv'
<1>1. /\ arrived \in Nat /\ arrived' \in Nat /\ stale \in Nat /\ spare \in Nat
      /\ spare' \in Nat
    BY DEF TypeOK, StateOK
<1>2. B(owed) \in {0, 1} /\ B(owed') \in {0, 1}
    BY Zenon DEF B
<1>3. /\ IsFiniteSet(Gone) /\ Cardinality(Gone) \in Nat
      /\ IsFiniteSet(Loose) /\ Cardinality(Loose) \in Nat
    BY <1>1, SetsFinite
<1>4. /\ IsFiniteSet(Gone') /\ Cardinality(Gone') \in Nat
      /\ IsFiniteSet(Loose') /\ Cardinality(Loose') \in Nat
    <2>1. /\ Gone' \subseteq 1..arrived' /\ Loose' \subseteq 1..arrived'
          /\ IsFiniteSet(1..arrived')
        BY <1>1, Numbers DEF Gone, Loose
    <2>2. QED
        BY <2>1, FS_Subset, FS_CardinalityType
<1>5. Cardinality(Loose') <= Cardinality(Loose) + 1
    <2>1. /\ IsFiniteSet(Loose \cup {b})
          /\ \/ Cardinality(Loose \cup {b}) = Cardinality(Loose)
             \/ Cardinality(Loose \cup {b}) = Cardinality(Loose) + 1
        BY <1>3, FS_AddElement
    <2>2. Cardinality(Loose') <= Cardinality(Loose \cup {b})
        BY <2>1, FS_Subset
    <2>3. QED
        BY <1>3, <1>4, <2>1, <2>2
<1>6. stale <= Cardinality(Gone) /\ Cardinality(Loose) <= stale + spare + B(owed)
    BY DEF BooksInv
<1>7. stale' <= Cardinality(Gone')
    <2>1. CASE Gone \subseteq Gone' /\ stale' = stale
        <3>1. Cardinality(Gone) <= Cardinality(Gone')
            BY <1>4, <2>1, FS_Subset
        <3>2. QED
            BY <1>1, <1>3, <1>4, <1>6, <2>1, <3>1
    <2>2. CASE Gone \cup {b} \subseteq Gone' /\ b \notin Gone /\ stale' = stale + 1
        <3>1. Cardinality(Gone \cup {b}) = Cardinality(Gone) + 1
            BY <1>3, <2>2, FS_AddElement
        <3>2. Cardinality(Gone \cup {b}) <= Cardinality(Gone')
            BY <1>4, <2>2, FS_Subset
        <3>3. QED
            BY <1>1, <1>3, <1>4, <1>6, <2>2, <3>1, <3>2
    <2>3. QED
        BY <2>1, <2>2
<1>8. Cardinality(Loose') <= stale' + spare' + B(owed')
    <2>1. PICK x, y : x = B(owed) /\ y = B(owed')
        OBVIOUS
    <2>2. stale' + spare' + y = stale + spare + x + 1
        BY <1>1, <1>2, <2>1
    <2>3. QED
        BY <1>1, <1>2, <1>3, <1>4, <1>5, <1>6, <2>1, <2>2
<1>9. QED
    BY <1>7, <1>8 DEF BooksInv

\* A loose batch is taken.
LEMMA BooksFewer ==
    ASSUME BooksInv, TypeOK, TypeOK', NEW b \in Loose,
           Gone \subseteq Gone', stale' = stale, spare' = spare,
           Loose' \subseteq Loose \ {b}
    PROVE  BooksInv'
<1>1. /\ arrived \in Nat /\ arrived' \in Nat /\ stale \in Nat /\ spare \in Nat
    BY DEF TypeOK, StateOK
<1>2. B(owed) \in {0, 1} /\ B(owed') \in {0, 1}
    BY Zenon DEF B
<1>3. /\ IsFiniteSet(Gone) /\ Cardinality(Gone) \in Nat
      /\ IsFiniteSet(Loose) /\ Cardinality(Loose) \in Nat
    BY <1>1, SetsFinite
<1>4. /\ IsFiniteSet(Gone') /\ Cardinality(Gone') \in Nat
      /\ IsFiniteSet(Loose') /\ Cardinality(Loose') \in Nat
    <2>1. /\ Gone' \subseteq 1..arrived' /\ Loose' \subseteq 1..arrived'
          /\ IsFiniteSet(1..arrived')
        BY <1>1, Numbers DEF Gone, Loose
    <2>2. QED
        BY <2>1, FS_Subset, FS_CardinalityType
<1>5. Cardinality(Loose') <= Cardinality(Loose) - 1
    <2>1. IsFiniteSet(Loose \ {b}) /\ Cardinality(Loose \ {b}) = Cardinality(Loose) - 1
        BY <1>3, FS_RemoveElement
    <2>2. Cardinality(Loose') <= Cardinality(Loose \ {b})
        BY <2>1, FS_Subset
    <2>3. QED
        BY <1>3, <1>4, <2>1, <2>2
<1>6. Cardinality(Gone) <= Cardinality(Gone')
    BY <1>4, FS_Subset
<1>7. stale <= Cardinality(Gone) /\ Cardinality(Loose) <= stale + spare + B(owed)
    BY DEF BooksInv
<1>8. stale' <= Cardinality(Gone')
    BY <1>1, <1>3, <1>4, <1>6, <1>7
<1>9. Cardinality(Loose') <= stale' + spare' + B(owed')
    <2>1. PICK x, y : x = B(owed) /\ y = B(owed')
        OBVIOUS
    <2>2. QED
        BY <1>1, <1>2, <1>3, <1>4, <1>5, <1>7, <2>1
<1>10. QED
    BY <1>8, <1>9 DEF BooksInv

\* The books look only at batches, not at empty places or the final None.
LEMMA OwnedSame ==
    ASSUME PlaceInv, TypeOK, UNCHANGED <<slot, conn, arrived>>,
           Owned' \subseteq Owned \cup {0, -1}, Owned \subseteq Owned' \cup {0, -1}
    PROVE  PlaceInv' /\ Gone' = Gone /\ Loose' = Loose
<1>1. arrived \in Nat
    BY DEF TypeOK, StateOK
<1>2. Unchecked' = Unchecked
    BY DEF Unchecked
<1>3. \A b \in 1..arrived : b # 0 /\ b # -1
    BY <1>1
<1>4. \A b \in 1..arrived : b \in Owned' <=> b \in Owned
    BY <1>3
<1>5. Loose' = Loose
    BY <1>2, <1>4, Zenon DEF Loose
<1>6. \A b : b \in Kept' <=> b \in Owned' \/ b = slot \/ \E d \in Conns : b = conn[d].batch
    BY DEF Kept, Owned, Items
<1>7. Gone' = Gone
    BY <1>4, <1>6, KeptAre, Zenon DEF Gone
<1>8. PlaceInv'
    <2>1. Owned' \subseteq -1..arrived'
        <3>1. 0 \in -1..arrived /\ -1 \in -1..arrived
            BY <1>1
        <3>2. QED
            BY <3>1 DEF PlaceInv
    <2>2. slot # 0 => slot \in 1..arrived /\ slot \notin Owned'
        BY <1>4 DEF PlaceInv, NoBatch
    <2>3. \A d \in Conns : IF Carrying(d)
                           THEN /\ conn[d].batch \in 1..arrived
                                /\ conn[d].batch \notin Owned' /\ conn[d].batch # slot
                           ELSE conn[d].batch = NoBatch
        BY <1>4 DEF PlaceInv
    <2>4. QED
        BY <2>1, <2>2, <2>3 DEF PlaceInv, Carrying, NoBatch
<1>9. QED
    BY <1>5, <1>7, <1>8

\* Nothing moves, or a batch moves between the control task and the handler.
LEMMA Settled ==
    ASSUME BatchInv, TypeOK, TypeOK', CycleInv',
           UNCHANGED <<slot, conn, arrived, stale, owed, spare>>,
           Owned' \subseteq Owned \cup {0, -1}, Owned \subseteq Owned' \cup {0, -1}
    PROVE  BatchInv'
<1>1. PlaceInv' /\ Gone' = Gone /\ Loose' = Loose
    BY OwnedSame DEF BatchInv
<1>2. spare + B(owed) <= spare' + B(owed')
    BY DEF TypeOK, StateOK, B
<1>3. BooksInv'
    BY <1>1, <1>2, BooksKept DEF BatchInv
<1>4. QED
    BY <1>1, <1>3 DEF BatchInv

LEMMA OwnedUnmoved ==
    ASSUME UNCHANGED <<held, handler, channel, handled>>
    PROVE  Owned' = Owned
BY DEF Owned, Items

\* The control steps that neither move a batch nor end a cycle.
LEMMA StillStep ==
    ASSUME BatchInv, TypeOK, TypeOK',
           \/ Top \/ Gate \/ Clear \/ Reset \/ SendCrdy \/ Open \/ BatchReady
           \/ CloseWindow \/ Again \/ SessionDies \/ Reconnect
           \/ ConsumeAgain \/ Close
    PROVE  BatchInv'
<1> USE DEF gateVars, userVars, masterVars, dataVars, history
<1>1. /\ UNCHANGED <<held, handler, channel, handled>>
      /\ UNCHANGED <<slot, conn, arrived, stale, owed, spare>>
    BY Zenon DEF Top, Gate, Clear, Reset, SendCrdy, Open, BatchReady, CloseWindow,
       Again, SessionDies, Reconnect, ConsumeAgain, Close
<1>2. CycleInv'
    <2>1. CycleInv
        BY DEF BatchInv
    <2>2. At({"store"})' = At({"store"}) /\ At({"store", "raise"})' = At({"store", "raise"})
        BY <1>1 DEF At
    <2>3. /\ accept' => control' \in {"wait", "close", "timeout"}
          /\ owed => control' \in {"wait", "close", "take"}
        BY <2>1 DEF CycleInv, Top, Gate, Clear, Reset, SendCrdy, Open, BatchReady,
           CloseWindow, Again, SessionDies, Reconnect, ConsumeAgain, Close
    <2>4. owed => (ready => ready')
        BY <2>1 DEF CycleInv, Top, Gate, Clear, Reset, SendCrdy, Open, BatchReady,
           CloseWindow, Again, SessionDies, Reconnect, ConsumeAgain, Close
    <2>5. QED
        BY <1>1, <2>1, <2>2, <2>3, <2>4, Zenon DEF CycleInv
<1>3. QED
    BY <1>1, <1>2, OwnedUnmoved, Settled

\* Batches move through the channel.
LEMMA ChannelStep ==
    ASSUME BatchInv, TypeOK, TypeOK', consume # "dropped",
           Send \/ End \/ Pull \/ HandlerDone \/ HandlerFails
    PROVE  BatchInv'
<1> USE DEF gateVars, userVars, masterVars, dataVars, history
<1>1. UNCHANGED <<slot, conn, arrived, stale, owed, spare>>
    BY Zenon DEF Send, End, Pull, HandlerDone, HandlerFails
<1>2. CycleInv'
    <2>1. CycleInv
        BY DEF BatchInv
    <2>2. At({"store"})' = At({"store"}) /\ At({"store", "raise"})' = At({"store", "raise"})
        BY <1>1 DEF At
    <2>3. UNCHANGED <<accept, ready>>
        BY Zenon DEF Send, End, Pull, HandlerDone, HandlerFails
    <2>4. control' = control \/ (~accept /\ ~owed)
        BY <2>1 DEF CycleInv, Send, End, Pull, HandlerDone, HandlerFails
    <2>5. QED
        BY <1>1, <2>1, <2>2, <2>3, <2>4, Zenon DEF CycleInv
<1>3. channel \in Seq(Nat \cup {-1})
    BY DEF TypeOK, StateOK, Batch, Last
<1>4. Owned' \subseteq Owned \cup {0, -1} /\ Owned \subseteq Owned' \cup {0, -1}
    <2>1. CASE Send
        <3>1. /\ held' = 0 /\ channel' = Append(channel, held)
              /\ UNCHANGED <<handler, handled>>
            BY <2>1 DEF Send, NoBatch
        <3>2. Items(channel)' = Items(channel) \cup {held}
            <4>1. Items(Append(channel, held)) = Items(channel) \cup {held}
                BY <1>3, AppendRange, Zenon
            <4>2. QED
                BY <3>1, <4>1 DEF Items
        <3>3. QED
            BY <3>1, <3>2, Zenon DEF Owned
    <2>2. CASE End
        <3>1. channel' = Append(channel, -1) /\ UNCHANGED <<held, handler, handled>>
            BY <2>2 DEF End, Last
        <3>2. Items(channel)' = Items(channel) \cup {-1}
            <4>1. Items(Append(channel, -1)) = Items(channel) \cup {-1}
                BY <1>3, AppendRange, Zenon
            <4>2. QED
                BY <3>1, <4>1 DEF Items
        <3>3. QED
            BY <3>1, <3>2, Zenon DEF Owned
    <2>3. CASE Pull
        <3>1. /\ handler = 0 /\ channel # <<>> /\ channel' = Tail(channel)
              /\ UNCHANGED <<held, handled>>
              /\ \/ handler' = Head(channel)
                 \/ Head(channel) = -1 /\ handler' = handler
            BY <2>3, Zenon DEF Pull, NoBatch, Last
        <3>2. Items(channel) = Items(channel)' \cup {Head(channel)}
            BY <1>3, <3>1, TailRange, Zenon DEF Items
        <3>3. QED
            BY <3>1, <3>2, Zenon DEF Owned
    <2>4. CASE HandlerDone \/ HandlerFails
        <3>1. /\ handled' = handled \cup {handler} /\ handler' = 0
              /\ UNCHANGED <<held, channel>>
            BY <2>4, Zenon DEF HandlerDone, HandlerFails, NoBatch
        <3>2. Items(channel)' = Items(channel)
            BY <3>1 DEF Items
        <3>3. QED
            BY <3>1, <3>2, Zenon DEF Owned
    <2>5. QED
        BY <2>1, <2>2, <2>3, <2>4
<1>5. QED
    BY <1>1, <1>2, <1>4, Settled

\* A new cycle empties the slot, of a batch that no cycle waits for.
LEMMA EmptyStep ==
    ASSUME BatchInv, TypeOK, TypeOK', EmptySlot
    PROVE  BatchInv'
<1>1. /\ UNCHANGED <<held, handler, channel, handled>>
      /\ UNCHANGED <<conn, arrived, stale, owed, spare, accept>>
      /\ slot' = 0 /\ control = "empty" /\ control' = "crdy"
    BY Zenon DEF EmptySlot, userVars, masterVars, dataVars, history, NoBatch
<1>2. ~accept /\ ~owed
    BY <1>1 DEF BatchInv, CycleInv
<1>3. CycleInv'
    BY <1>1, <1>2, Zenon DEF CycleInv
<1>4. Owned' = Owned /\ Unchecked' = Unchecked
    BY <1>1, OwnedUnmoved DEF Unchecked
<1>5. PlaceInv'
    <2>1. arrived \in Nat /\ 0 \notin 1..arrived
        BY DEF TypeOK, StateOK
    <2>2. QED
        BY <1>1, <1>4, <2>1 DEF BatchInv, PlaceInv, Carrying, NoBatch
<1>6. Loose' = Loose
    BY <1>1, <1>4, Zenon DEF Loose
<1>7. Gone \subseteq Gone'
    <2>1. arrived \in Nat /\ 0 \notin 1..arrived
        BY DEF TypeOK, StateOK
    <2>2. \A b : b \in Kept' <=> b \in Owned \/ b = 0 \/ \E d \in Conns : b = conn[d].batch
        BY <1>1 DEF Kept, Owned, Items
    <2>3. QED
        BY <1>1, <2>1, <2>2, KeptAre, Zenon DEF Gone
<1>8. spare + B(owed) <= spare' + B(owed')
    BY <1>1 DEF TypeOK, StateOK, B
<1>9. BooksInv'
    BY <1>1, <1>6, <1>7, <1>8, BooksKept DEF BatchInv
<1>10. QED
    BY <1>3, <1>5, <1>9 DEF BatchInv

\* A cycle ends without its batch.
LEMMA EndStep ==
    ASSUME BatchInv, TypeOK, TypeOK', Timeout \/ SessionEnds
    PROVE  BatchInv'
<1>1. /\ UNCHANGED <<held, handler, channel, handled>>
      /\ UNCHANGED <<slot, conn, arrived, stale>>
      /\ owed' = FALSE
    BY Zenon DEF Timeout, SessionEnds, EndCycle, gateVars, userVars, masterVars
<1>2. accept' => control' \in {"wait", "close", "timeout"}
    BY DEF Timeout, SessionEnds, BatchInv, CycleInv, gateVars
<1>3. CycleInv'
    BY <1>1, <1>2, Zenon DEF CycleInv
<1>4. spare' = IF owed THEN spare + 1 ELSE spare
    BY Zenon DEF Timeout, SessionEnds, EndCycle, BatchInv, CycleInv
<1>5. spare + B(owed) <= spare' + B(owed')
    <2>1. CASE owed
        BY <1>1, <1>4, <2>1 DEF TypeOK, StateOK, B
    <2>2. CASE ~owed
        BY <1>1, <1>4, <2>2 DEF TypeOK, StateOK, B
    <2>3. QED
        BY <2>1, <2>2
<1>6. Owned' = Owned
    BY <1>1, OwnedUnmoved
<1>7. PlaceInv' /\ Gone' = Gone /\ Loose' = Loose
    BY <1>1, <1>6, OwnedSame DEF BatchInv
<1>8. BooksInv'
    BY <1>1, <1>5, <1>7, BooksKept DEF BatchInv
<1>9. QED
    BY <1>3, <1>7, <1>8 DEF BatchInv

LEMMA KeptAfter ==
    \A b : b \in Kept' <=> b \in Owned' \/ b = slot' \/ \E d \in Conns : b = conn'[d].batch
BY DEF Kept, Owned, Items

LEMMA TakeStep ==
    ASSUME BatchInv, TypeOK, TypeOK', Take
    PROVE  BatchInv'
<1>1. /\ UNCHANGED <<handler, channel, handled, conn, arrived, stale, accept>>
      /\ control = "take" /\ held' = slot /\ slot' = 0 /\ owed' = FALSE
      /\ spare' = IF owed /\ slot = 0 /\ At({"store"}) THEN spare + 1 ELSE spare
    BY Zenon DEF Take, EndCycle, userVars, masterVars, NoBatch
<1>2. ~accept
    BY <1>1 DEF BatchInv, CycleInv
<1>3. CycleInv'
    BY <1>1, <1>2, Zenon DEF CycleInv
<1>4. held = 0 /\ arrived \in Nat /\ 0 \notin 1..arrived /\ slot \in Nat
    BY <1>1 DEF TypeOK, StateOK, NoBatch, Batch
<1>5. Items(channel)' = Items(channel)
    BY <1>1 DEF Items
<1>6. CASE slot = 0
    <2>1. Owned' = Owned /\ slot' = slot
        BY <1>1, <1>4, <1>5, <1>6 DEF Owned
    <2>2. PlaceInv' /\ Gone' = Gone /\ Loose' = Loose
        BY <1>1, <2>1, OwnedSame DEF BatchInv
    <2>3. spare' = IF owed THEN spare + 1 ELSE spare
        BY <1>1, <1>6, Zenon DEF BatchInv, CycleInv, NoBatch
    <2>4. spare + B(owed) <= spare' + B(owed')
        <3>1. CASE owed
            BY <1>1, <2>3, <3>1 DEF TypeOK, StateOK, B
        <3>2. CASE ~owed
            BY <1>1, <2>3, <3>2 DEF TypeOK, StateOK, B
        <3>3. QED
            BY <3>1, <3>2
    <2>5. BooksInv'
        BY <1>1, <2>2, <2>4, BooksKept DEF BatchInv
    <2>6. QED
        BY <1>3, <2>2, <2>5 DEF BatchInv
<1>7. CASE slot # 0
    <2>1. slot \in 1..arrived /\ slot \notin Owned
        BY <1>7 DEF BatchInv, PlaceInv, NoBatch
    <2>2. /\ Owned' \subseteq Owned \cup {slot}
          /\ Owned \cup {slot} \subseteq Owned' \cup {0}
        BY <1>1, <1>4, <1>5 DEF Owned
    <2>3. \A b \in 1..arrived : b \in Owned' <=> b \in Owned \/ b = slot
        BY <1>4, <2>2
    <2>4. Unchecked' = Unchecked
        BY <1>1 DEF Unchecked
    <2>5. slot \notin Unchecked
        BY DEF BatchInv, PlaceInv, Unchecked, Carrying
    <2>6. slot \in Loose
        BY <2>1, <2>5 DEF Loose
    <2>7. Loose' \subseteq Loose \ {slot}
        BY <1>1, <2>3, <2>4 DEF Loose
    <2>8. Gone \subseteq Gone'
        BY <1>1, <1>4, <2>3, KeptAre, KeptAfter DEF Gone
    <2>9. BooksInv'
        BY <1>1, <1>7, <2>6, <2>7, <2>8, BooksFewer DEF BatchInv
    <2>10. PlaceInv'
        <3>1. Owned' \subseteq -1..arrived
            <4>1. Owned' \subseteq Owned \cup {slot}
                BY <2>2
            <4>2. slot \in -1..arrived
                BY <1>4, <2>1
            <4>3. QED
                BY <4>1, <4>2 DEF BatchInv, PlaceInv
        <3>2. \A d \in Conns : IF Carrying(d)
                               THEN /\ conn[d].batch \in 1..arrived
                                    /\ conn[d].batch \notin Owned'
                                    /\ conn[d].batch # slot'
                               ELSE conn[d].batch = NoBatch
            BY <1>1, <1>4, <2>3 DEF BatchInv, PlaceInv
        <3>3. QED
            BY <1>1, <3>1, <3>2 DEF BatchInv, PlaceInv, Carrying, NoBatch
    <2>11. QED
        BY <1>3, <2>9, <2>10 DEF BatchInv
<1>8. QED
    BY <1>6, <1>7

-----------------------------------------------------------------------------
(* The data connections.                                                   *)

LEMMA ConnAfter ==
    ASSUME TypeOK, NEW d \in Conns, NEW r, conn' = [conn EXCEPT ![d] = r]
    PROVE  conn'[d] = r /\ \A e \in Conns : e # d => conn'[e] = conn[e]
BY DEF TypeOK, StateOK

LEMMA TurnIs == Turn.batch = 0 /\ Turn.at \in {"read", "closed"}
BY DEF Turn, NoBatch

LEMMA ReceiveStep ==
    ASSUME BatchInv, TypeOK, TypeOK', NEW d \in Conns, Receive(d)
    PROVE  BatchInv'
<1>1. /\ UNCHANGED <<held, handler, channel, handled>>
      /\ UNCHANGED <<slot, stale, owed, spare, accept, ready, control>>
      /\ conn[d].at = "read" /\ arrived' = arrived + 1
    BY Zenon DEF Receive, gateVars, userVars, masterVars, history
<1>2. PICK r : r = [at |-> "check", batch |-> arrived + 1]
    OBVIOUS
<1>3. r.at = "check" /\ r.batch = arrived + 1
    BY <1>2
<1>4. conn' = [conn EXCEPT ![d] = r]
    BY <1>2, Zenon DEF Receive
<1>5. conn'[d] = r /\ \A e \in Conns : e # d => conn'[e] = conn[e]
    BY <1>4, ConnAfter, Zenon
<1>6. Owned' = Owned
    BY <1>1, OwnedUnmoved
<1>7. PICK n \in Nat : n = arrived
    BY DEF TypeOK, StateOK
<1>8. /\ 1..n \subseteq 1..n + 1 /\ -1..n \subseteq -1..n + 1
      /\ \A b \in 1..n + 1 : b # n + 1 => b \in 1..n
      /\ \A b \in -1..n : b # n + 1
      /\ \A b \in 1..n : b # n + 1
      /\ n + 1 \in 1..n + 1
      /\ 0 \notin 1..n /\ 0 \notin 1..n + 1 /\ n + 1 # 0
    OBVIOUS
<1>9. /\ PlaceInv /\ CycleInv
    BY DEF BatchInv
<1>10. Owned \subseteq -1..n
    BY <1>7, <1>9 DEF PlaceInv
<1>11. n + 1 \notin Owned /\ slot # n + 1
    BY <1>7, <1>8, <1>9, <1>10 DEF PlaceInv, NoBatch
<1>12. ~Carrying(d) /\ conn[d].batch = 0
    BY <1>1, <1>9 DEF Carrying, PlaceInv, NoBatch
<1>13. \A e \in Conns : e # d => conn[e].batch # n + 1
    BY <1>7, <1>8, <1>9 DEF PlaceInv, NoBatch
<1>14. PlaceInv'
    <2>1. Owned' \subseteq -1..arrived'
        BY <1>1, <1>6, <1>7, <1>8, <1>10
    <2>2. slot' # NoBatch => slot' \in 1..arrived' /\ slot' \notin Owned'
        BY <1>1, <1>6, <1>7, <1>8, <1>9 DEF PlaceInv
    <2>3. ASSUME NEW e \in Conns
          PROVE  IF Carrying(e)'
                 THEN /\ conn'[e].batch \in 1..arrived'
                      /\ conn'[e].batch \notin Owned' /\ conn'[e].batch # slot'
                 ELSE conn'[e].batch = NoBatch
        <3>1. CASE e = d
            BY <1>1, <1>3, <1>5, <1>6, <1>7, <1>8, <1>11, <3>1 DEF Carrying
        <3>2. CASE e # d
            BY <1>1, <1>5, <1>6, <1>7, <1>8, <1>9, <3>2 DEF Carrying, PlaceInv
        <3>3. QED
            BY <3>1, <3>2
    <2>4. ASSUME NEW e \in Conns, NEW f \in Conns, Carrying(e)', Carrying(f)',
                 conn'[e].batch = conn'[f].batch
          PROVE  e = f
        <3>1. CASE e = d
            BY <1>3, <1>5, <1>7, <1>13, <2>4, <3>1
        <3>2. CASE f = d
            BY <1>3, <1>5, <1>7, <1>13, <2>4, <3>2
        <3>3. CASE e # d /\ f # d
            BY <1>5, <1>9, <2>4, <3>3 DEF Carrying, PlaceInv
        <3>4. QED
            BY <3>1, <3>2, <3>3
    <2>5. QED
        BY <2>1, <2>2, <2>3, <2>4 DEF PlaceInv
<1>15. CycleInv'
    <2>1. At({"store"})' = At({"store"}) /\ At({"store", "raise"})' = At({"store", "raise"})
        <3>1. \A e \in Conns : conn'[e].at = conn[e].at \/ (conn'[e].at = "check" /\ conn[e].at = "read")
            BY <1>1, <1>3, <1>5
        <3>2. QED
            BY <3>1 DEF At
    <2>2. QED
        BY <1>1, <1>9, <2>1, Zenon DEF CycleInv
<1>16. Loose' \subseteq Loose
    <2>1. ASSUME NEW b \in Loose' PROVE b \in Loose
        <3>1. b \in 1..n + 1 /\ b \notin Owned /\ b \notin Unchecked'
            BY <1>1, <1>6, <1>7 DEF Loose
        <3>2. n + 1 \in Unchecked'
            BY <1>3, <1>5, <1>7 DEF Unchecked
        <3>3. b \in 1..n
            BY <3>1, <3>2, <1>8
        <3>4. b \notin Unchecked
            BY <1>1, <1>5, <3>1 DEF Unchecked
        <3>5. QED
            BY <1>7, <3>1, <3>3, <3>4 DEF Loose
    <2>2. QED
        BY <2>1
<1>17. Gone \subseteq Gone'
    <2>1. ASSUME NEW b \in Gone PROVE b \in Gone'
        <3>1. b \in 1..n /\ b \notin Kept
            BY <1>7 DEF Gone
        <3>2. \A e \in Conns : b # conn'[e].batch
            BY <1>3, <1>5, <1>7, <1>8, <3>1, KeptAre
        <3>3. b \notin Kept'
            BY <1>1, <1>6, <3>1, <3>2, KeptAre, KeptAfter
        <3>4. QED
            BY <1>1, <1>7, <1>8, <3>1, <3>3 DEF Gone
    <2>2. QED
        BY <2>1
<1>18. spare + B(owed) <= spare' + B(owed')
    BY <1>1 DEF TypeOK, StateOK, B
<1>19. BooksInv'
    BY <1>1, <1>16, <1>17, <1>18, BooksKept DEF BatchInv
<1>20. QED
    BY <1>14, <1>15, <1>19 DEF BatchInv

\* A connection turns to its next step: what it carries stays the same or is
\* given up, and what it gives up may become the stored batch.
LEMMA PlaceTurn ==
    ASSUME PlaceInv, TypeOK, NEW d \in Conns, NEW r,
           conn' = [conn EXCEPT ![d] = r], arrived' = arrived,
           UNCHANGED <<held, handler, channel, handled>>,
           \/ /\ Carrying(d) /\ r.at \in {"check", "store"}
              /\ r.batch = conn[d].batch /\ slot' = slot
           \/ r.at \notin {"check", "store"} /\ r.batch = 0 /\ slot' = slot
           \/ /\ r.at \notin {"check", "store"} /\ r.batch = 0
              /\ Carrying(d) /\ slot' = conn[d].batch
    PROVE  PlaceInv'
<1>1. conn'[d] = r /\ \A e \in Conns : e # d => conn'[e] = conn[e]
    BY ConnAfter, Zenon
<1>2. Owned' = Owned
    BY OwnedUnmoved
<1>3. Owned' \subseteq -1..arrived'
    BY <1>2 DEF PlaceInv
<1>4. slot' # NoBatch => slot' \in 1..arrived' /\ slot' \notin Owned'
    BY <1>2 DEF PlaceInv
<1>5. ASSUME NEW e \in Conns
      PROVE  IF Carrying(e)'
             THEN /\ conn'[e].batch \in 1..arrived'
                  /\ conn'[e].batch \notin Owned' /\ conn'[e].batch # slot'
             ELSE conn'[e].batch = NoBatch
    <2>1. CASE e = d
        BY <1>1, <1>2, <2>1 DEF Carrying, PlaceInv, NoBatch
    <2>2. CASE e # d
        BY <1>1, <1>2, <2>2 DEF Carrying, PlaceInv, NoBatch
    <2>3. QED
        BY <2>1, <2>2
<1>6. ASSUME NEW e \in Conns, NEW f \in Conns, Carrying(e)', Carrying(f)',
             conn'[e].batch = conn'[f].batch
      PROVE  e = f
    <2>1. /\ Carrying(e) /\ conn'[e].batch = conn[e].batch
          /\ Carrying(f) /\ conn'[f].batch = conn[f].batch
        BY <1>1, <1>6 DEF Carrying
    <2>2. QED
        BY <1>6, <2>1 DEF PlaceInv
<1>7. QED
    BY <1>3, <1>4, <1>5, <1>6 DEF PlaceInv

\* A batch passes the check.
LEMMA AcceptStep ==
    ASSUME BatchInv, TypeOK, TypeOK', NEW d \in Conns, CheckWindow(d), accept
    PROVE  BatchInv'
<1>1. /\ UNCHANGED <<held, handler, channel, handled>>
      /\ UNCHANGED <<slot, stale, arrived, accept, ready, control>>
      /\ conn[d].at = "check" /\ Accepted
    BY Zenon DEF CheckWindow, gateVars, userVars, masterVars
<1>2. PICK r : r = [at |-> "store", batch |-> conn[d].batch]
    OBVIOUS
<1>3. r.at = "store" /\ r.batch = conn[d].batch
    BY <1>2
<1>4. conn' = [conn EXCEPT ![d] = r]
    <2>1. conn[d] \in Served
        BY DEF TypeOK, StateOK, Served, Batch
    <2>2. [conn[d] EXCEPT !.at = "store"] = r
        BY <1>2, <2>1 DEF Served
    <2>3. [conn EXCEPT ![d].at = "store"] = [conn EXCEPT ![d] = r]
        BY <2>2
    <2>4. QED
        BY <2>3, Zenon DEF CheckWindow
<1>5. conn'[d] = r /\ \A e \in Conns : e # d => conn'[e] = conn[e]
    BY <1>4, ConnAfter, Zenon
<1>6. Owned' = Owned
    BY <1>1, OwnedUnmoved
<1>7. Carrying(d)
    BY <1>1 DEF Carrying
<1>8. r.at \in {"check", "store"}
    BY <1>3
<1>9. PlaceInv'
    BY <1>1, <1>3, <1>4, <1>7, <1>8, PlaceTurn, Zenon DEF BatchInv
<1>10. CycleInv
    BY DEF BatchInv
<1>11. control \in {"wait", "close", "timeout"} /\ (control = "timeout" => ~owed)
    BY <1>10 DEF CycleInv
<1>12. owed' = (control # "timeout")
    BY <1>1, <1>11, Zenon DEF Accepted
<1>13. CycleInv'
    <2>1. At({"store"})' /\ At({"store", "raise"})'
        BY <1>3, <1>5 DEF At
    <2>2. owed' => control \in {"wait", "close", "take"}
        BY <1>11, <1>12
    <2>3. QED
        BY <1>1, <1>10, <2>1, <2>2, Zenon DEF CycleInv
<1>14. spare' + B(owed') = spare + B(owed) + 1
    <2>1. spare \in Nat
        BY DEF TypeOK, StateOK
    <2>2. CASE control = "timeout"
        <3>1. ~owed /\ ~owed' /\ spare' = spare + 1
            BY <1>1, <1>11, <1>12, <2>2 DEF Accepted
        <3>2. QED
            BY <2>1, <3>1 DEF B
    <2>3. CASE control # "timeout" /\ owed
        <3>1. owed' /\ spare' = spare + 1
            BY <1>1, <1>12, <2>3 DEF Accepted
        <3>2. QED
            BY <2>1, <2>3, <3>1 DEF B
    <2>4. CASE control # "timeout" /\ ~owed
        <3>1. owed' /\ spare' = spare
            BY <1>1, <1>12, <2>4 DEF Accepted
        <3>2. QED
            BY <2>1, <2>4, <3>1 DEF B
    <2>5. QED
        BY <2>2, <2>3, <2>4
<1>15. Loose' \subseteq Loose \cup {conn[d].batch}
    <2>1. \A b : b \in Unchecked /\ b # conn[d].batch => b \in Unchecked'
        BY <1>5 DEF Unchecked
    <2>2. QED
        BY <1>1, <1>6, <2>1 DEF Loose
<1>16. Gone' = Gone
    <2>1. \A e \in Conns : conn'[e].batch = conn[e].batch
        BY <1>3, <1>5
    <2>2. QED
        BY <1>1, <1>6, <2>1, KeptAre, KeptAfter DEF Gone
<1>17. BooksInv'
    BY <1>1, <1>14, <1>15, <1>16, BooksMore DEF BatchInv
<1>18. QED
    BY <1>9, <1>13, <1>17 DEF BatchInv

\* What At says when a connection turns from a step outside it.
LEMMA AtTurn ==
    ASSUME TypeOK, NEW d \in Conns, NEW r, conn' = [conn EXCEPT ![d] = r],
           NEW S, conn[d].at \notin S, r.at \notin S
    PROVE  At(S)' = At(S)
<1>1. conn'[d] = r /\ \A e \in Conns : e # d => conn'[e] = conn[e]
    BY ConnAfter, Zenon
<1>2. \A e \in Conns : conn'[e].at \in S <=> conn[e].at \in S
    BY <1>1
<1>3. QED
    BY <1>2 DEF At

\* A batch outside the window is dropped and counted.
LEMMA RejectStep ==
    ASSUME BatchInv, TypeOK, TypeOK', NEW d \in Conns, CheckWindow(d), ~accept
    PROVE  BatchInv'
<1>1. /\ UNCHANGED <<held, handler, channel, handled>>
      /\ UNCHANGED <<slot, arrived, accept, ready, control, owed, spare>>
      /\ conn[d].at = "check" /\ stale' = stale + 1
      /\ conn' = [conn EXCEPT ![d] = Turn]
    BY Zenon DEF CheckWindow, gateVars, userVars, masterVars, history
<1>2. Turn.at \notin {"check", "store"} /\ Turn.at \notin {"store", "raise"}
    BY TurnIs
<1>3. conn'[d] = Turn /\ \A e \in Conns : e # d => conn'[e] = conn[e]
    BY <1>1, ConnAfter, Zenon
<1>4. Owned' = Owned
    BY <1>1, OwnedUnmoved
<1>5. PlaceInv'
    BY <1>1, <1>2, TurnIs, PlaceTurn, Zenon DEF BatchInv
<1>6. CycleInv'
    <2>1. /\ conn[d].at \notin {"store"} /\ conn[d].at \notin {"store", "raise"}
          /\ Turn.at \notin {"store"}
        BY <1>1, <1>2
    <2>2. At({"store"})' = At({"store"}) /\ At({"store", "raise"})' = At({"store", "raise"})
        BY <1>1, <1>2, <2>1, AtTurn, Zenon
    <2>3. CycleInv
        BY DEF BatchInv
    <2>4. QED
        BY <1>1, <2>2, <2>3, Zenon DEF CycleInv
<1>7. Carrying(d) /\ PlaceInv
    BY <1>1 DEF Carrying, BatchInv
<1>8. PICK b : b = conn[d].batch
    OBVIOUS
<1>9. /\ b \in 1..arrived /\ b \notin Owned /\ b # slot /\ b # 0
      /\ \A e \in Conns : e # d => conn[e].batch # b
    <2>1. b \in 1..arrived /\ b \notin Owned /\ b # slot
        BY <1>7, <1>8 DEF PlaceInv
    <2>2. b # 0
        BY <2>1 DEF TypeOK, StateOK
    <2>3. QED
        BY <1>7, <1>8, <2>1, <2>2 DEF PlaceInv, NoBatch
<1>10. Loose' \subseteq Loose \cup {b}
    <2>1. \A c : c \in Unchecked /\ c # b => c \in Unchecked'
        BY <1>3, <1>8 DEF Unchecked
    <2>2. QED
        BY <1>1, <1>4, <2>1 DEF Loose
<1>11. b \notin Gone
    BY <1>8, KeptAre DEF Gone
<1>12. Gone \cup {b} \subseteq Gone'
    <2>1. b \notin Kept'
        BY <1>1, <1>3, <1>4, <1>9, TurnIs, KeptAfter
    <2>2. ASSUME NEW c \in Gone PROVE c \notin Kept'
        <3>1. c \in 1..arrived /\ c # 0 /\ c \notin Kept
            BY DEF Gone, TypeOK, StateOK
        <3>2. QED
            BY <1>1, <1>3, <1>4, <3>1, TurnIs, KeptAre, KeptAfter
    <2>3. QED
        BY <1>1, <1>9, <2>1, <2>2 DEF Gone
<1>13. BooksInv'
    BY <1>1, <1>10, <1>11, <1>12, BooksMore DEF BatchInv
<1>14. QED
    BY <1>5, <1>6, <1>13 DEF BatchInv

\* A batch is stored, over another one maybe.
LEMMA StoreStep ==
    ASSUME BatchInv, TypeOK, TypeOK', NEW d \in Conns, StoreBatch(d),
           conn[d].at = "store"
    PROVE  BatchInv'
<1>1. /\ UNCHANGED <<held, handler, channel, handled>>
      /\ UNCHANGED <<stale, arrived, accept, ready, control, owed, spare>>
      /\ slot' = conn[d].batch
      /\ conn' = [conn EXCEPT ![d] = [at |-> "raise", batch |-> NoBatch]]
    BY DEF StoreBatch, userVars, masterVars, history
<1>2. PICK r : r = [at |-> "raise", batch |-> NoBatch]
    OBVIOUS
<1>3. r.at = "raise" /\ r.batch = 0 /\ r.at \notin {"check", "store"}
    BY <1>2 DEF NoBatch
<1>4. conn'[d] = r /\ \A e \in Conns : e # d => conn'[e] = conn[e]
    BY <1>1, <1>2, ConnAfter, Zenon
<1>5. Owned' = Owned
    BY <1>1, OwnedUnmoved
<1>6. Carrying(d) /\ PlaceInv /\ CycleInv
    BY DEF Carrying, BatchInv
<1>7. PlaceInv'
    BY <1>1, <1>2, <1>3, <1>6, PlaceTurn, Zenon
<1>8. conn[d].batch # 0
    BY <1>6 DEF PlaceInv, TypeOK, StateOK
<1>9. CycleInv'
    <2>1. At({"store", "raise"})'
        BY <1>3, <1>4 DEF At
    <2>2. QED
        BY <1>1, <1>6, <1>8, <2>1, Zenon DEF CycleInv, NoBatch
<1>10. Unchecked' = Unchecked
    BY <1>3, <1>4 DEF Unchecked
<1>11. Loose' = Loose
    BY <1>1, <1>5, <1>10, Zenon DEF Loose
<1>12. Gone \subseteq Gone'
    <2>1. ASSUME NEW c \in Gone PROVE c \notin Kept'
        <3>1. c \in 1..arrived /\ c # 0 /\ c \notin Kept
            BY DEF Gone, TypeOK, StateOK
        <3>2. QED
            BY <1>1, <1>3, <1>4, <1>5, <3>1, KeptAre, KeptAfter
    <2>2. QED
        BY <1>1, <2>1 DEF Gone
<1>13. spare + B(owed) <= spare' + B(owed')
    BY <1>1 DEF TypeOK, StateOK, B
<1>14. BooksInv'
    BY <1>1, <1>11, <1>12, <1>13, BooksKept DEF BatchInv
<1>15. QED
    BY <1>7, <1>9, <1>14 DEF BatchInv

\* The gate is raised.
LEMMA RaiseStep ==
    ASSUME BatchInv, TypeOK, TypeOK', NEW d \in Conns, StoreBatch(d),
           conn[d].at = "raise"
    PROVE  BatchInv'
<1>1. /\ UNCHANGED <<held, handler, channel, handled>>
      /\ UNCHANGED <<slot, stale, arrived, accept, control, owed, spare>>
      /\ ready' = TRUE
      /\ conn' = [conn EXCEPT ![d] = Turn]
    BY DEF StoreBatch, userVars, masterVars, history
<1>2. Turn.at \notin {"check", "store"} /\ Turn.at \notin {"store"}
    BY TurnIs
<1>3. conn'[d] = Turn /\ \A e \in Conns : e # d => conn'[e] = conn[e]
    BY <1>1, ConnAfter, Zenon
<1>4. Owned' = Owned
    BY <1>1, OwnedUnmoved
<1>5. PlaceInv'
    BY <1>1, <1>2, TurnIs, PlaceTurn, Zenon DEF BatchInv
<1>6. CycleInv'
    <2>1. conn[d].at \notin {"store"}
        OBVIOUS
    <2>2. At({"store"})' = At({"store"})
        BY <1>1, <1>2, <2>1, AtTurn, Zenon
    <2>3. CycleInv
        BY DEF BatchInv
    <2>4. QED
        BY <1>1, <2>2, <2>3, Zenon DEF CycleInv
<1>7. conn[d].batch = 0
    BY DEF BatchInv, PlaceInv, Carrying, NoBatch
<1>8. Unchecked' = Unchecked
    BY <1>2, <1>3 DEF Unchecked
<1>9. Loose' = Loose
    BY <1>1, <1>4, <1>8, Zenon DEF Loose
<1>10. Gone \subseteq Gone'
    <2>1. \A e \in Conns : conn'[e].batch = conn[e].batch
        BY <1>3, <1>7, TurnIs
    <2>2. QED
        BY <1>1, <1>4, <2>1, KeptAre, KeptAfter DEF Gone
<1>11. spare + B(owed) <= spare' + B(owed')
    BY <1>1 DEF TypeOK, StateOK, B
<1>12. BooksInv'
    BY <1>1, <1>9, <1>10, <1>11, BooksKept DEF BatchInv
<1>13. QED
    BY <1>5, <1>6, <1>12 DEF BatchInv

-----------------------------------------------------------------------------

\* Once the Consumer is dropped nothing is promised about its batches any more,
\* and it stays dropped.
LEMMA DroppedStep ==
    ASSUME TypeOK, Next, consume = "dropped" => handler = NoBatch
    PROVE  /\ consume' = "dropped" => handler' = NoBatch
           /\ consume = "dropped" => consume' = "dropped"
<1> USE DEF userVars
<1>1. CASE ControlStep
    BY <1>1, Zenon DEF ControlStep, Top, End, Gate, Clear, Reset, EmptySlot,
       SendCrdy, Open, BatchReady, Timeout, CloseWindow, Again, Take, Send,
       SessionEnds, Reconnect
<1>2. CASE SessionDies \/ Close \/ Drop
    BY <1>2, Zenon DEF SessionDies, Close, Drop
<1>3. CASE Pull \/ HandlerDone \/ HandlerFails \/ ConsumeAgain
    BY <1>3 DEF Pull, HandlerDone, HandlerFails, ConsumeAgain
<1>4. ASSUME NEW d \in Conns, Receive(d) \/ DataStep(d)
      PROVE  UNCHANGED <<handler, consume>>
    BY <1>4, Zenon DEF Receive, DataStep, CheckWindow, StoreBatch
<1>5. QED
    BY <1>1, <1>2, <1>3, <1>4 DEF Next

LEMMA BatchInit == Init => BatchInv
<1> SUFFICES ASSUME Init PROVE BatchInv
    OBVIOUS
<1>1. /\ held = 0 /\ handler = 0 /\ channel = <<>> /\ handled = {} /\ slot = 0
      /\ arrived = 0 /\ stale = 0 /\ spare = 0 /\ ~owed /\ ~accept
    BY Zenon DEF Init, NoBatch
<1>2. conn = [d \in Conns |-> [at |-> "read", batch |-> 0]]
    BY Zenon DEF Init, NoBatch
<1>3. Owned = {0}
    BY <1>1 DEF Owned, Items
<1>4. \A d \in Conns : ~Carrying(d) /\ conn[d].batch = 0
    BY <1>2 DEF Carrying
<1>5. PlaceInv
    <2>1. 0 \in -1..0
        OBVIOUS
    <2>2. QED
        BY <1>1, <1>3, <1>4, <2>1 DEF PlaceInv, NoBatch
<1>6. CycleInv
    BY <1>1, Zenon DEF CycleInv
<1>7. Gone = {} /\ Loose = {}
    BY <1>1 DEF Gone, Loose
<1>8. Cardinality({}) = 0
    BY FS_EmptySet
<1>9. BooksInv
    BY <1>1, <1>7, <1>8 DEF BooksInv, B
<1>10. QED
    BY <1>5, <1>6, <1>9 DEF BatchInv

LEMMA BatchStep ==
    ASSUME BatchInv, TypeOK, TypeOK', Next, consume' # "dropped", consume # "dropped"
    PROVE  BatchInv'
<1>1. CASE \/ Top \/ Gate \/ Clear \/ Reset \/ SendCrdy \/ Open \/ BatchReady
           \/ CloseWindow \/ Again \/ SessionDies \/ Reconnect
           \/ ConsumeAgain \/ Close
    BY <1>1, StillStep
<1>2. CASE Send \/ End \/ Pull \/ HandlerDone \/ HandlerFails
    BY <1>2, ChannelStep
<1>3. CASE EmptySlot
    BY <1>3, EmptyStep
<1>4. CASE Timeout \/ SessionEnds
    BY <1>4, EndStep
<1>5. CASE Take
    BY <1>5, TakeStep
<1>6. ASSUME NEW d \in Conns, Receive(d) PROVE BatchInv'
    BY <1>6, ReceiveStep
<1>7. ASSUME NEW d \in Conns, CheckWindow(d) PROVE BatchInv'
    BY <1>7, AcceptStep, RejectStep
<1>8. ASSUME NEW d \in Conns, StoreBatch(d) PROVE BatchInv'
    <2>1. conn[d].at = "store" \/ conn[d].at = "raise"
        BY <1>8, Zenon DEF StoreBatch
    <2>2. QED
        BY <1>8, <2>1, StoreStep, RaiseStep
<1>9. ~Drop
    BY DEF Drop
<1>10. QED
    BY <1>1, <1>2, <1>3, <1>4, <1>5, <1>6, <1>7, <1>8, <1>9
       DEF Next, ControlStep, DataStep

\* A gone batch is loose, and so is the one to come, which is not gone.
LEMMA BooksClose ==
    ASSUME TypeOK, BatchInv
    PROVE  stale <= Cardinality(Gone) /\ Cardinality(Gone) <= stale + spare
<1>1. PlaceInv /\ CycleInv /\ BooksInv
    BY DEF BatchInv
<1>2. arrived \in Nat /\ stale \in Nat /\ spare \in Nat
    BY DEF TypeOK, StateOK
<1>3. /\ IsFiniteSet(Gone) /\ Cardinality(Gone) \in Nat
      /\ IsFiniteSet(Loose) /\ Cardinality(Loose) \in Nat
    BY <1>2, SetsFinite
<1>4. Gone \subseteq Loose
    <2>1. ASSUME NEW b \in Gone PROVE b \in Loose
        <3>1. b \in 1..arrived /\ b \notin Kept
            BY DEF Gone
        <3>2. b \notin Owned /\ \A d \in Conns : b # conn[d].batch
            BY <3>1, KeptAre
        <3>3. QED
            BY <3>1, <3>2 DEF Loose, Unchecked
    <2>2. QED
        BY <2>1
<1>5. CASE ~owed
    <2>1. Cardinality(Gone) <= Cardinality(Loose)
        BY <1>3, <1>4, FS_Subset
    <2>2. Cardinality(Loose) <= stale + spare
        BY <1>1, <1>2, <1>3, <1>5 DEF BooksInv, B
    <2>3. QED
        BY <1>1, <1>2, <1>3, <2>1, <2>2 DEF BooksInv
<1>6. CASE owed
    <2>1. \E b : b \in Loose /\ b \in Kept
        <3>1. CASE slot # NoBatch
            <4>1. slot \in 1..arrived /\ slot \notin Owned
                BY <1>1, <3>1 DEF PlaceInv
            <4>2. slot \notin Unchecked
                BY <1>1 DEF PlaceInv, Unchecked, Carrying
            <4>3. QED
                BY <4>1, <4>2, KeptAre DEF Loose
        <3>2. CASE At({"store"})
            <4>1. PICK d \in Conns : conn[d].at = "store"
                BY <3>2 DEF At
            <4>2. conn[d].batch \in 1..arrived /\ conn[d].batch \notin Owned
                BY <1>1, <4>1 DEF PlaceInv, Carrying
            <4>3. conn[d].batch \notin Unchecked
                BY <1>1, <4>1 DEF PlaceInv, Unchecked, Carrying
            <4>4. QED
                BY <4>2, <4>3, KeptAre DEF Loose
        <3>3. QED
            BY <1>1, <1>6, <3>1, <3>2 DEF CycleInv
    <2>2. PICK b : b \in Loose /\ b \in Kept
        BY <2>1
    <2>3. Gone \subseteq Loose \ {b}
        BY <1>4, <2>2 DEF Gone
    <2>4. IsFiniteSet(Loose \ {b}) /\ Cardinality(Loose \ {b}) = Cardinality(Loose) - 1
        BY <1>3, <2>2, FS_RemoveElement
    <2>5. Cardinality(Gone) <= Cardinality(Loose \ {b})
        BY <2>3, <2>4, FS_Subset
    <2>6. Cardinality(Loose) <= stale + spare + 1
        BY <1>1, <1>6 DEF BooksInv, B
    <2>7. QED
        BY <1>1, <1>2, <1>3, <2>4, <2>5, <2>6 DEF BooksInv
<1>7. QED
    BY <1>5, <1>6

LEMMA BatchStutter == CountedInv /\ UNCHANGED vars => CountedInv'
<1> SUFFICES ASSUME CountedInv, UNCHANGED vars PROVE CountedInv'
    OBVIOUS
<1>1. TypeOK'
    BY TypeStutter DEF CountedInv
<1>2. UNCHANGED <<consume, handler>>
    BY DEF vars
<1>3. BatchInv' <=> BatchInv
    BY DEF vars, BatchInv, PlaceInv, CycleInv, BooksInv, Owned, Unchecked, Loose,
       Carrying, Items, At, Gone, Kept, B
<1>4. QED
    BY <1>1, <1>2, <1>3 DEF CountedInv

\* serve_data_connection and run_control_session share the window, the slot and
\* the gate without a common lock.  Whatever batches arrive, on any number of
\* connections: stale_batches counts only batches that are gone, and the gone
\* ones that it does not count are the further batches of a window and those of
\* cycles that had to end without them.
THEOREM BatchesCounted == Spec => []Counted
<1>1. Init => CountedInv
    <2>1. Init => consume # "dropped"
        BY DEF Init
    <2>2. QED
        BY <2>1, TypeInit, BatchInit DEF CountedInv
<1>2. CountedInv /\ [Next]_vars => CountedInv'
    <2>1. ASSUME CountedInv, Next PROVE CountedInv'
        <3>1. TypeOK /\ TypeOK'
            BY <2>1, TypeStep DEF CountedInv
        <3>2. /\ consume' = "dropped" => handler' = NoBatch
              /\ consume = "dropped" => consume' = "dropped"
            BY <2>1, <3>1, DroppedStep DEF CountedInv
        <3>3. consume' # "dropped" => BatchInv'
            BY <2>1, <3>1, <3>2, BatchStep DEF CountedInv
        <3>4. QED
            BY <3>1, <3>2, <3>3 DEF CountedInv
    <2>2. QED
        BY <2>1, BatchStutter
<1>3. CountedInv => Counted
    BY BooksClose DEF CountedInv, Counted
<1>4. QED
    BY <1>1, <1>2, <1>3, PTL DEF Spec
=============================================================================
