------------------------------ MODULE ByteRing ------------------------------
(***************************************************************************)
(* master/src/ring/byte_ring.rs: a queue with a byte cap.  push drops from *)
(* the front until the new entry fits; push_front, which takes an entry    *)
(* back, drops from the back.  A ring keeps its byte count beside its      *)
(* queue, as the code does, and counts what it dropped.                    *)
(*                                                                         *)
(* A message is its number, in the order of publishing, and its size.      *)
(***************************************************************************)
EXTENDS Integers, Sequences

Message == [id : Nat, size : Nat]

ByteRing == [queue : Seq(Message), bytes : Int, drops_total : Nat]

EmptyRing == [queue |-> <<>>, bytes |-> 0, drops_total |-> 0]

\* Sum of the sizes: what the byte counts are meant to be.
Bytes(s) ==
    LET sum[n \in 0..Len(s)] == IF n = 0 THEN 0 ELSE sum[n - 1] + s[n].size
    IN  sum[Len(s)]

First(s, n)   == SubSeq(s, 1, n)
Without(s, n) == SubSeq(s, n + 1, Len(s))   \* s without its first n entries

saturating_sub(a, b) == IF a < b THEN 0 ELSE a - b

\* pop_front_inner, n times; pop_front and pop_up_to return First(r.queue, n).
popped(r, n) ==
    [r EXCEPT !.queue = Without(@, n),
              !.bytes = saturating_sub(@, Bytes(First(r.queue, n)))]

\* queue.pop_back(), n times.
cut(r, n) ==
    [r EXCEPT !.queue = First(@, Len(@) - n),
              !.bytes = saturating_sub(@,
                            Bytes(Without(r.queue, Len(r.queue) - n)))]

\* How often push pops the front to make room for `len` bytes.
evictions(r, len, max) ==
    CHOOSE n \in 0..Len(r.queue) :
        /\ popped(r, n).bytes + len <= max \/ n = Len(r.queue)
        /\ \A k \in 0..n - 1 : popped(r, k).bytes + len > max

\* How often push_front pops the back.
excess(r, max) ==
    CHOOSE n \in 0..Len(r.queue) :
        /\ cut(r, n).bytes <= max \/ n = Len(r.queue)
        /\ \A k \in 0..n - 1 : cut(r, k).bytes > max

\* Mutant: room is made for one byte less than the entry has.
push_tight(r, m, max) ==
    LET n    == evictions(r, m.size - 1, max)
        room == popped(r, n)
    IN  CASE m.size = 0   -> r
          [] m.size > max -> [r EXCEPT !.drops_total = @ + 1]
          [] OTHER        -> [queue       |-> Append(room.queue, m),
                              bytes       |-> room.bytes + m.size,
                              drops_total |-> r.drops_total + n]

\* An empty payload is accepted and not stored; one above the cap is dropped.
push(r, m, max) ==
    LET n    == evictions(r, m.size, max)
        room == popped(r, n)
    IN  CASE m.size = 0   -> r
          [] m.size > max -> [r EXCEPT !.drops_total = @ + 1]
          [] OTHER        -> [queue       |-> Append(room.queue, m),
                              bytes       |-> room.bytes + m.size,
                              drops_total |-> r.drops_total + n]

\* Mutant: what the back loses is not counted.
push_front_uncounted(r, m, max) ==
    LET more == [r EXCEPT !.queue = <<m>> \o @, !.bytes = @ + m.size]
    IN  cut(more, excess(more, max))

push_front(r, m, max) ==
    LET more == [r EXCEPT !.queue = <<m>> \o @, !.bytes = @ + m.size]
        n    == excess(more, max)
    IN  [cut(more, n) EXCEPT !.drops_total = @ + n]
=============================================================================
