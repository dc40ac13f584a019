------------------------------- MODULE Outbox -------------------------------
(***************************************************************************)
(* What a producer promises of the messages it is given: they wait in one  *)
(* queue and leave it from the front, in the order of publishing and once, *)
(* or are dropped and counted.                                             *)
(***************************************************************************)
EXTENDS Integers, Sequences

CONSTANT Sizes  \* sizes of payloads; an empty one is no message

VARIABLES
    queue,      \* messages that wait, the oldest first
    delivered,  \* messages sent to consumers, in order
    dropped,    \* number of messages given up
    published   \* number of messages taken

vars == <<queue, delivered, dropped, published>>

Init == queue = <<>> /\ delivered = <<>> /\ dropped = 0 /\ published = 0

\* q becomes the queue, but for a run of neighbours: those after the first i up
\* to the j-th.
KeepMost(q) ==
    \E i, j \in 0..Len(q) :
        /\ i <= j
        /\ queue' = SubSeq(q, 1, i) \o SubSeq(q, j + 1, Len(q))
        /\ dropped' = dropped + (j - i)

Publish(m) ==
    /\ published' = m.id /\ m.id = published + 1
    /\ KeepMost(Append(queue, m))
    /\ UNCHANGED delivered

Deliver(n) ==
    /\ delivered' = delivered \o SubSeq(queue, 1, n)
    /\ queue' = SubSeq(queue, n + 1, Len(queue))
    /\ UNCHANGED <<dropped, published>>

Drop == KeepMost(queue) /\ UNCHANGED <<delivered, published>>

Next ==
    \/ \E size \in Sizes \ {0} : Publish([id |-> published + 1, size |-> size])
    \/ \E n \in 1..Len(queue) : Deliver(n)
    \/ Drop

Spec == Init /\ [][Next]_vars
=============================================================================
