--------------------------- MODULE DeliveryProofs ---------------------------
(***************************************************************************)
(* Proofs about Delivery: its types, that a batch is written at most once, *)
(* that a producer holds one connection to a consumer, that what is        *)
(* handed on is what was sent, and that nothing is refused without cause.  *)
(***************************************************************************)
EXTENDS Delivery, WireProofs

-----------------------------------------------------------------------------
(* SentOnce.                                                               *)

\* The batch is written from WriteOk until it is reported, and only then.
WrittenOnce == writes = IF task = "delivered" THEN 1 ELSE 0

LEMMA SentInit == Init => WrittenOnce
  BY DEF Init, WrittenOnce

LEMMA SentNext == WrittenOnce /\ [Next]_vars => WrittenOnce'
<1> SUFFICES ASSUME WrittenOnce, [Next]_vars PROVE WrittenOnce'
  OBVIOUS
<1> USE DEF WrittenOnce
<1>1. ASSUME NEW addr \in Addrs, Assign(addr) \/ Die(addr) \/ Restart(addr)
      PROVE  WrittenOnce'
  BY <1>1 DEF Assign, Die, Restart, taskVars
<1>2. ASSUME NEW old \in Stale, Get(old) PROVE WrittenOnce'
  BY <1>2 DEF Get
<1>3. CASE Connect \/ ConnectFails \/ WriteFails \/ Timeout
  BY <1>3 DEF Connect, ConnectFails, WriteFails, Timeout
<1>4. ASSUME NEW n \in 1..Len(encode_framed_batch(batch)), NEW old \in Stale,
             WriteOk(n, old)
      PROVE  WrittenOnce'
  BY <1>4 DEF WriteOk
<1>5. CASE Report
  BY <1>5 DEF Report
<1>6. ASSUME NEW c \in Conns, Serve(c) \/ Refuse(c) \/ IdleTimeout(c) \/ Break(c)
      PROVE  WrittenOnce'
  BY <1>6 DEF Serve, Refuse, IdleTimeout, Break, Close, taskVars
<1>7. CASE UNCHANGED vars
  BY <1>7 DEF vars, taskVars
<1> QED BY <1>1, <1>2, <1>3, <1>4, <1>5, <1>6, <1>7 DEF Next, Deliver

\* A retry or a FAIL never sends a batch twice.
THEOREM BatchesSentOnce == Spec => []SentOnce
<1>1. WrittenOnce => SentOnce
  BY DEF WrittenOnce, SentOnce
<1> QED BY <1>1, SentInit, SentNext, PTL DEF Spec

-----------------------------------------------------------------------------
(* Types.                                                                  *)

LEMMA BatchCells ==
    ASSUME NEW items \in Batches
    PROVE  /\ items \in Seq(Cells) /\ items # <<>>
           /\ \A i \in 1..Len(items) : items[i] # <<>>
<1>1. items \in Seq(Seq(1..Word - 1) \ {<<>>}) /\ items # <<>>
  BY DeliveryAssumption
<1>2. \A i \in 1..Len(items) : items[i] \in Seq(1..Word - 1) /\ items[i] # <<>>
  BY <1>1
<1>3. Seq(1..Word - 1) \subseteq Cells
  BY WireAssumption DEF Cells, Cell
<1>4. items \in Seq(Cells)
  BY <1>1, <1>2, <1>3
<1> QED BY <1>1, <1>2, <1>4

\* A whole frame is cells, and so is what it leaves.
LEMMA FrameRead ==
    ASSUME NEW cells \in Cells, read_batch_frame(cells).kind = "frame"
    PROVE  /\ read_batch_frame(cells).payload \in Cells
           /\ read_batch_frame(cells).rest \in Cells
<1>1. CASE Len(cells) > 2 /\ cells[1] = magic("BATC")
  <2>1. PICK n : n = cells[3]
    OBVIOUS
  <2>2. n \in Nat
    BY <1>1, <2>1 DEF Cells, Cell
  <2>3. cells # <<>> /\ ~(Len(cells) \in 1..2)
    <3>1. PICK m \in Nat : m = Len(cells)
      BY DEF Cells
    <3>2. m > 2
      BY <1>1, <3>1
    <3>3. m # 0 /\ ~(m \in 1..2)
      BY <3>2
    <3>4. Len(<<>>) = 0
      OBVIOUS
    <3> QED BY <3>1, <3>3, <3>4
  <2>4. ~(n > MaxFrame) /\ ~(Len(cells) < 3 + n)
    BY <1>1, <2>1, <2>3 DEF read_batch_frame
  <2>5. read_batch_frame(cells) =
           [kind |-> "frame", payload |-> SubSeq(cells, 4, 3 + n),
            rest |-> SubSeq(cells, 4 + n, Len(cells))]
    BY <1>1, <2>1, <2>3, <2>4 DEF read_batch_frame
  <2>6. SubSeq(cells, 4, 3 + n) \in Cells /\ SubSeq(cells, 4 + n, Len(cells)) \in Cells
    BY <2>2, <2>4 DEF Cells
  <2> QED BY <2>5, <2>6
<1>2. CASE ~(Len(cells) > 2 /\ cells[1] = magic("BATC"))
  <2>1. cells = <<>> => read_batch_frame(cells) = [kind |-> "more"]
    BY DEF read_batch_frame
  <2>2. cells # <<>> /\ cells[1] # magic("BATC") => read_batch_frame(cells) = [kind |-> "bail"]
    BY DEF read_batch_frame
  <2>3. cells # <<>> => Len(cells) \in Nat /\ Len(cells) # 0
    BY DEF Cells
  <2>4. cells # <<>> /\ cells[1] = magic("BATC") => Len(cells) \in 1..2
    <3> SUFFICES ASSUME cells # <<>>, cells[1] = magic("BATC") PROVE Len(cells) \in 1..2
      OBVIOUS
    <3>1. PICK m \in Nat : m = Len(cells)
      BY <2>3
    <3>2. ~(m > 2) /\ m # 0
      BY <1>2, <2>3, <3>1
    <3>3. m \in 1..2
      BY <3>2
    <3> QED BY <3>1, <3>3
  <2>5. cells # <<>> /\ cells[1] = magic("BATC") => read_batch_frame(cells) = [kind |-> "more"]
    BY <2>4 DEF read_batch_frame
  <2> QED BY <2>1, <2>2, <2>5
<1> QED BY <1>1, <1>2

\* What holds of the connection a delivery is to use or uses: it is open, it
\* leads to the destination, and the pool has no other one to it; an open
\* connection is in the pool or is that one.
HeldOK ==
    /\ task \in {"connect", "write"} => pool[dest] = None
    /\ task = "write" => peer[stream] = dest /\ client[stream] = "open"
    /\ \A c \in Conns : client[c] = "open" =>
          c <= opened /\ (pool[peer[c]] = c \/ c = stream)

DeliveryInv == TypeOK /\ HeldOK

LEMMA DeliveryInit == Init => DeliveryInv
<1> SUFFICES ASSUME Init PROVE DeliveryInv
  OBVIOUS
<1>1. dest \in Addrs
  BY DeliveryAssumption DEF Init
<1>2. TaskOK
  BY <1>1, DeliveryAssumption DEF Init, TaskOK, None
<1>3. ConnsOK
  BY <1>1, DeliveryAssumption DEF Init, ConnsOK, Cells
<1>4. PoolOK
  BY DEF Init, PoolOK
<1>5. HeldOK
  BY DEF Init, HeldOK
<1> QED BY <1>2, <1>3, <1>4, <1>5 DEF DeliveryInv, TypeOK

\* Steps that leave the connections of the producer and its pool alone.
LEMMA HeldKept ==
    ASSUME DeliveryInv, UNCHANGED <<pool, opened, peer, client, stream, dest>>,
           task' = task \/ ~(task' \in {"connect", "write"})
    PROVE  PoolOK' /\ HeldOK'
  BY DEF DeliveryInv, TypeOK, PoolOK, HeldOK

\* What is given up of the pool is closed, and what is kept is not.
LEMMA Evicted ==
    ASSUME DeliveryInv, NEW old \in Stale, NEW a \in Addrs
    PROVE  /\ evict_stale(old) \in [Addrs -> {None} \cup 1..opened]
           /\ a \notin old => evict_stale(old)[a] = pool[a]
           /\ a \in old => evict_stale(old)[a] = None
           /\ pool[a] # None /\ a \notin old => pool[a] \notin Pooled(old)
           /\ pool[a] # None /\ a \in old => pool[a] \in Pooled(old)
           /\ pool[a] # None => pool[a] \in 1..opened /\ pool[a] \in Conns
<1>1. /\ pool \in [Addrs -> {None} \cup 1..opened] /\ old \subseteq Addrs
      /\ opened \in 0..MaxConns /\ MaxConns \in Nat
      /\ \A b \in Addrs : pool[b] # None => peer[pool[b]] = b
  BY DeliveryAssumption DEF DeliveryInv, TypeOK, PoolOK, ConnsOK, Stale
<1>2. /\ evict_stale(old) \in [Addrs -> {None} \cup 1..opened]
      /\ a \notin old => evict_stale(old)[a] = pool[a]
      /\ a \in old => evict_stale(old)[a] = None
  BY <1>1 DEF evict_stale
<1>3. pool[a] # None => pool[a] \in 1..opened /\ pool[a] \in Conns
  BY <1>1 DEF Conns
<1>4. pool[a] # None /\ a \notin old => pool[a] \notin Pooled(old)
  <2> SUFFICES ASSUME pool[a] # None, a \notin old, pool[a] \in Pooled(old) PROVE FALSE
    OBVIOUS
  <2>1. PICK b \in old : pool[a] = pool[b]
    BY DEF Pooled
  <2> QED BY <1>1, <2>1
<1>5. pool[a] # None /\ a \in old => pool[a] \in Pooled(old)
  BY DEF Pooled
<1> QED BY <1>2, <1>3, <1>4, <1>5

LEMMA InvAssign ==
    ASSUME DeliveryInv, NEW addr \in Addrs, Assign(addr)
    PROVE  DeliveryInv'
<1> USE DEF Assign, DeliveryInv, TypeOK
<1>1. TaskOK'
  BY DEF TaskOK
<1>2. ConnsOK'
  BY DEF ConnsOK, connVars, netVars
<1>3. PoolOK'
  BY DEF PoolOK, connVars
<1>4. HeldOK'
  BY DEF HeldOK, connVars
<1> QED BY <1>1, <1>2, <1>3, <1>4

LEMMA InvGet ==
    ASSUME DeliveryInv, NEW old \in Stale, Get(old)
    PROVE  DeliveryInv'
<1>1. TaskOK /\ ConnsOK /\ PoolOK /\ HeldOK /\ task = "get" /\ stream = None
  BY DEF DeliveryInv, TypeOK, Get, TaskOK
<1>2. /\ pool' = [evict_stale(old) EXCEPT ![dest] = None]
      /\ stream' = evict_stale(old)[dest] /\ client' = dropped(Pooled(old))
      /\ task' = IF stream' = None THEN "connect" ELSE "write"
      /\ UNCHANGED <<dest, batch, attempt, writes, served, opened, peer, server,
                     wire, sent, torn, handed, up, faults>>
  BY DEF Get, take, netVars
<1>3. PICK ev : ev = evict_stale(old)
  OBVIOUS
<1>4. dest \in Addrs /\ ev \in [Addrs -> {None} \cup 1..opened]
  BY <1>1, <1>3, Evicted DEF TaskOK
<1>5. pool'[dest] = None /\ \A a \in Addrs : a # dest => pool'[a] = ev[a]
  BY <1>2, <1>3, <1>4
<1>6. ASSUME NEW a \in Addrs, ev[a] # None
      PROVE  /\ a \notin old /\ ev[a] = pool[a] /\ pool[a] \in Conns
             /\ peer[ev[a]] = a /\ client'[ev[a]] = "open"
  <2>1. a \notin old /\ ev[a] = pool[a] /\ pool[a] \in Conns /\ pool[a] \notin Pooled(old)
    BY <1>3, <1>6, Evicted
  <2>2. peer[pool[a]] = a /\ client[pool[a]] = "open"
    BY <1>1, <1>6, <2>1 DEF PoolOK
  <2> QED BY <1>2, <2>1, <2>2 DEF dropped
<1>7. TaskOK'
  BY <1>1, <1>2, <1>3, <1>4 DEF TaskOK
<1>8. client' \in [Conns -> {"open", "closed"}]
  BY <1>1, <1>2 DEF ConnsOK, dropped
<1>9. ConnsOK'
  BY <1>1, <1>2, <1>8 DEF ConnsOK
<1>10. PoolOK'
  <2>1. pool' \in [Addrs -> {None} \cup 1..opened']
    BY <1>2, <1>3, <1>4
  <2>2. \A a \in Addrs : pool'[a] # None => peer'[pool'[a]] = a /\ client'[pool'[a]] = "open"
    BY <1>2, <1>5, <1>6
  <2> QED BY <2>1, <2>2 DEF PoolOK
<1>11. HeldOK'
  <2>1. task' = "write" => peer'[stream'] = dest' /\ client'[stream'] = "open"
    BY <1>2, <1>3, <1>4, <1>6
  <2>2. ASSUME NEW c \in Conns, client'[c] = "open"
        PROVE  c <= opened' /\ (pool'[peer'[c]] = c \/ c = stream')
    <3>1. client[c] = "open" /\ c \notin Pooled(old)
      BY <1>2, <2>2 DEF dropped
    <3>2. c <= opened /\ pool[peer[c]] = c /\ peer[c] \in Addrs /\ c # None
      BY <1>1, <3>1 DEF HeldOK, ConnsOK, Conns, None
    <3>3. peer[c] \notin old /\ ev[peer[c]] = c
      BY <1>3, <3>1, <3>2, Evicted
    <3> QED BY <1>2, <1>3, <1>5, <3>2, <3>3
  <2> QED BY <1>2, <1>5, <2>1, <2>2 DEF HeldOK
<1> QED BY <1>7, <1>9, <1>10, <1>11 DEF DeliveryInv, TypeOK

LEMMA InvConnect ==
    ASSUME DeliveryInv, Connect
    PROVE  DeliveryInv'
<1>1. TaskOK /\ ConnsOK /\ PoolOK /\ HeldOK /\ task = "connect" /\ stream = None
  BY DEF DeliveryInv, TypeOK, Connect, TaskOK
<1>2. PICK n : n = opened + 1
  OBVIOUS
<1>3. /\ opened' = n /\ stream' = n /\ peer' = [peer EXCEPT ![n] = dest]
      /\ client' = [client EXCEPT ![n] = "open"] /\ server' = [server EXCEPT ![n] = "open"]
      /\ task' = "write"
      /\ UNCHANGED <<dest, batch, attempt, writes, served, pool, wire, sent, torn,
                     handed, up, faults>>
  BY <1>2 DEF Connect, netVars
<1>4. /\ opened \in Nat /\ MaxConns \in Nat /\ n \in Conns /\ n # None /\ n \in 1..n
      /\ 1..opened \subseteq 1..n /\ n \notin 1..opened /\ n \in 0..MaxConns
  BY <1>1, <1>2, DeliveryAssumption DEF Connect, ConnsOK, Conns, None
<1>5. \A c \in 1..opened : peer'[c] = peer[c] /\ client'[c] = client[c]
  BY <1>1, <1>3, <1>4 DEF ConnsOK
<1>6. TaskOK'
  BY <1>1, <1>3, <1>4 DEF TaskOK
<1>7. ConnsOK'
  BY <1>1, <1>3, <1>4 DEF ConnsOK, TaskOK
<1>8. PoolOK'
  <2>1. pool' \in [Addrs -> {None} \cup 1..opened']
    BY <1>1, <1>3, <1>4 DEF PoolOK
  <2>2. \A a \in Addrs : pool[a] # None => pool[a] \in 1..opened
    BY <1>1 DEF PoolOK
  <2> QED BY <1>1, <1>3, <1>5, <2>1, <2>2 DEF PoolOK
<1>9. HeldOK'
  <2>1. pool'[dest'] = None /\ peer'[stream'] = dest' /\ client'[stream'] = "open"
    BY <1>1, <1>3, <1>4 DEF HeldOK, ConnsOK
  <2>2. ASSUME NEW c \in Conns, client'[c] = "open", c # n
        PROVE  c <= opened' /\ (pool'[peer'[c]] = c \/ c = stream')
    <3>1. client[c] = "open" /\ peer'[c] = peer[c]
      BY <1>1, <1>3, <1>4, <2>2 DEF ConnsOK
    <3>2. c <= opened /\ pool[peer[c]] = c
      BY <1>1, <3>1 DEF HeldOK, Conns, None
    <3> QED BY <1>2, <1>3, <1>4, <3>1, <3>2 DEF Conns
  <2>3. n <= opened'
    BY <1>3, <1>4
  <2> QED BY <1>3, <2>1, <2>2, <2>3 DEF HeldOK
<1> QED BY <1>6, <1>7, <1>8, <1>9 DEF DeliveryInv, TypeOK

LEMMA InvConnectFails ==
    ASSUME DeliveryInv, ConnectFails
    PROVE  DeliveryInv'
<1> USE DEF ConnectFails, DeliveryInv, TypeOK
<1>1. TaskOK'
  BY DEF TaskOK, connVars
<1>2. ConnsOK'
  BY DEF ConnsOK, connVars, netVars
<1>3. PoolOK' /\ HeldOK'
  BY HeldKept DEF connVars
<1> QED BY <1>1, <1>2, <1>3

LEMMA InvWriteOk ==
    ASSUME DeliveryInv, NEW n \in 1..Len(encode_framed_batch(batch)),
           NEW old \in Stale, WriteOk(n, old)
    PROVE  DeliveryInv'
<1>1. TaskOK /\ ConnsOK /\ PoolOK /\ HeldOK /\ task = "write" /\ stream \in 1..opened
  BY DEF DeliveryInv, TypeOK, WriteOk, TaskOK
<1>2. PICK frame : frame = encode_framed_batch(batch)
  OBVIOUS
<1>3. /\ faults' = IF n < Len(frame) THEN faults + 1 ELSE faults
      /\ wire' = IF server[stream] = "open"
                   THEN [wire EXCEPT ![stream] = @ \o SubSeq(frame, 1, n)]
                   ELSE wire
      /\ sent' = [sent EXCEPT ![stream] = Append(@, batch)]
      /\ torn' = [torn EXCEPT ![stream] = @ \/ n < Len(frame)]
  BY <1>2 DEF WriteOk, write_vectored
<1>4. /\ writes' = writes + 1 /\ stream' = None /\ task' = "delivered"
      /\ pool' = [evict_stale(old) EXCEPT ![dest] = stream]
      /\ client' = dropped(Pooled(old \cup {dest}))
      /\ UNCHANGED <<dest, batch, attempt, served, opened, peer, server, handed, up>>
  BY DEF WriteOk, put
<1>5. /\ dest \in Addrs /\ stream \in Conns /\ stream # None /\ opened \in Nat
      /\ pool[dest] = None /\ peer[stream] = dest /\ client[stream] = "open"
      /\ batch \in Batches /\ old \subseteq Addrs
  BY <1>1, DeliveryAssumption DEF TaskOK, ConnsOK, HeldOK, Conns, None, Stale
<1>6. Pooled(old \cup {dest}) = Pooled(old)
  BY <1>5 DEF Pooled
<1>7. stream \notin Pooled(old)
  <2> SUFFICES ASSUME stream \in Pooled(old) PROVE FALSE
    OBVIOUS
  <2>1. PICK b \in old : stream = pool[b]
    BY DEF Pooled
  <2>2. b \in Addrs /\ peer[pool[b]] = b
    BY <1>1, <1>5, <2>1 DEF PoolOK
  <2> QED BY <1>5, <2>1, <2>2
<1>8. PICK ev : ev = evict_stale(old)
  OBVIOUS
<1>9. ev \in [Addrs -> {None} \cup 1..opened]
  BY <1>5, <1>8, Evicted
<1>10. pool'[dest] = stream /\ \A a \in Addrs : a # dest => pool'[a] = ev[a]
  BY <1>4, <1>5, <1>8, <1>9
<1>11. TaskOK'
  BY <1>1, <1>4 DEF TaskOK
<1>12. ConnsOK'
  <2>1. client' \in [Conns -> {"open", "closed"}]
    BY <1>1, <1>4 DEF ConnsOK, dropped
  <2>2. frame \in Cells
    BY <1>2, <1>5, BatchCells, FrameCells
  <2>3. SubSeq(frame, 1, n) \in Cells
    <3>1. n \in 1..Len(frame)
      BY <1>2
    <3> QED BY <2>2, <3>1 DEF Cells
  <2>4. wire[stream] \o SubSeq(frame, 1, n) \in Cells
    <3>1. wire[stream] \in Cells
      BY <1>1, <1>5 DEF ConnsOK
    <3> QED BY <2>3, <3>1, Joined
  <2>5. wire' \in [Conns -> Cells]
    BY <1>1, <1>3, <2>4 DEF ConnsOK
  <2>6. sent' \in [Conns -> Seq(Batches)]
    <3>1. sent[stream] \in Seq(Batches)
      BY <1>1, <1>5 DEF ConnsOK
    <3>2. Append(sent[stream], batch) \in Seq(Batches)
      BY <1>5, <3>1
    <3> QED BY <1>1, <1>3, <3>2 DEF ConnsOK
  <2>7. torn' \in [Conns -> BOOLEAN]
    BY <1>1, <1>3 DEF ConnsOK
  <2>8. faults' \in Nat
    BY <1>1, <1>3 DEF ConnsOK
  <2> QED BY <1>1, <1>4, <2>1, <2>5, <2>6, <2>7, <2>8 DEF ConnsOK
<1>13. PoolOK'
  <2>1. pool' \in [Addrs -> {None} \cup 1..opened']
    BY <1>1, <1>4, <1>8, <1>9
  <2>2. ASSUME NEW a \in Addrs, pool'[a] # None
        PROVE  peer'[pool'[a]] = a /\ client'[pool'[a]] = "open"
    <3>1. CASE a = dest
      BY <1>4, <1>5, <1>6, <1>7, <1>10, <3>1 DEF dropped
    <3>2. CASE a # dest
      <4>1. ev[a] # None /\ pool'[a] = ev[a]
        BY <1>10, <2>2, <3>2
      <4>2. ev[a] = pool[a] /\ pool[a] \in Conns /\ pool[a] \notin Pooled(old)
        BY <1>8, <4>1, Evicted
      <4>3. peer[pool[a]] = a /\ client[pool[a]] = "open"
        BY <1>1, <4>1, <4>2 DEF PoolOK
      <4> QED BY <1>4, <1>6, <4>1, <4>2, <4>3 DEF dropped
    <3> QED BY <3>1, <3>2
  <2> QED BY <2>1, <2>2 DEF PoolOK
<1>14. HeldOK'
  <2>1. ASSUME NEW c \in Conns, client'[c] = "open"
        PROVE  c <= opened' /\ (pool'[peer'[c]] = c \/ c = stream')
    <3>1. client[c] = "open" /\ c \notin Pooled(old)
      BY <1>4, <1>6, <2>1 DEF dropped
    <3>2. c <= opened /\ peer[c] \in Addrs /\ c # None /\ (pool[peer[c]] = c \/ c = stream)
      BY <1>1, <3>1 DEF HeldOK, ConnsOK, Conns, None
    <3>3. CASE c = stream
      BY <1>4, <1>5, <1>10, <3>2, <3>3
    <3>4. CASE pool[peer[c]] = c
      <4>1. peer[c] \notin old /\ ev[peer[c]] = c
        BY <1>8, <3>1, <3>2, <3>4, Evicted
      <4>2. peer[c] # dest
        BY <1>5, <3>2, <3>4
      <4> QED BY <1>4, <1>10, <3>2, <4>1, <4>2
    <3> QED BY <3>2, <3>3, <3>4
  <2> QED BY <1>4, <2>1 DEF HeldOK
<1> QED BY <1>11, <1>12, <1>13, <1>14 DEF DeliveryInv, TypeOK

\* The connection of a delivery is given up.
LEMMA StreamDropped ==
    ASSUME DeliveryInv, task \in {"connect", "write"}, pool' = pool,
           client' = dropped({stream, None}), stream' = None,
           UNCHANGED <<dest, opened, peer>>, ~(task' \in {"connect", "write"})
    PROVE  /\ PoolOK' /\ HeldOK'
           /\ client' \in [Conns -> {"open", "closed"}]
<1>1. TaskOK /\ ConnsOK /\ PoolOK /\ HeldOK /\ None \notin Conns
  BY DEF DeliveryInv, TypeOK, None, Conns
<1>2. client' \in [Conns -> {"open", "closed"}]
  BY <1>1 DEF ConnsOK, dropped
<1>3. ASSUME NEW a \in Addrs, pool[a] # None PROVE client'[pool[a]] = "open"
  <2>1. pool[a] \in Conns /\ client[pool[a]] = "open" /\ peer[pool[a]] = a
    BY <1>1, <1>3, DeliveryAssumption DEF PoolOK, ConnsOK, Conns
  <2>2. pool[a] # stream
    BY <1>1, <1>3, <2>1 DEF HeldOK, TaskOK
  <2> QED BY <1>3, <2>1, <2>2 DEF dropped
<1>4. PoolOK'
  BY <1>1, <1>3 DEF PoolOK
<1>5. ASSUME NEW c \in Conns, client'[c] = "open"
      PROVE  c <= opened /\ pool[peer[c]] = c
  <2>1. client[c] = "open" /\ c # stream
    BY <1>5 DEF dropped
  <2> QED BY <1>1, <2>1 DEF HeldOK
<1> QED BY <1>2, <1>4, <1>5 DEF HeldOK

LEMMA InvWriteFails ==
    ASSUME DeliveryInv, WriteFails
    PROVE  DeliveryInv'
<1>1. TaskOK /\ ConnsOK /\ PoolOK /\ HeldOK /\ task = "write"
  BY DEF DeliveryInv, TypeOK, WriteFails
<1>2. pool[dest] = None
  BY <1>1 DEF HeldOK
<1>3. /\ pool' = [pool EXCEPT ![dest] = None] /\ client' = dropped({stream, None})
      /\ stream' = None /\ task' \in {"get", "failed"} /\ attempt' \in {attempt, 1}
      /\ UNCHANGED <<dest, batch, writes, served, opened, peer, server, wire, sent,
                     torn, handed, up, faults>>
  BY <1>2 DEF WriteFails, netVars
<1>4. pool' = pool
  BY <1>1, <1>2, <1>3 DEF PoolOK
<1>5. PoolOK' /\ HeldOK' /\ client' \in [Conns -> {"open", "closed"}]
  BY <1>1, <1>3, <1>4, StreamDropped
<1>6. TaskOK'
  BY <1>1, <1>3 DEF TaskOK
<1>7. ConnsOK'
  BY <1>1, <1>3, <1>5 DEF ConnsOK
<1> QED BY <1>5, <1>6, <1>7 DEF DeliveryInv, TypeOK

LEMMA InvTimeout ==
    ASSUME DeliveryInv, Timeout
    PROVE  DeliveryInv'
<1>1. TaskOK /\ ConnsOK /\ PoolOK /\ HeldOK /\ task \in {"connect", "write"}
  BY DEF DeliveryInv, TypeOK, Timeout
<1>2. /\ client' = dropped({stream}) /\ stream' = None /\ task' = "failed"
      /\ UNCHANGED <<dest, batch, attempt, writes, served, pool, opened, peer,
                     server, wire, sent, torn, handed, up, faults>>
  BY DEF Timeout, netVars
<1>3. client' = dropped({stream, None})
  BY <1>2 DEF dropped, Conns, None
<1>4. PoolOK' /\ HeldOK' /\ client' \in [Conns -> {"open", "closed"}]
  BY <1>1, <1>2, <1>3, StreamDropped
<1>5. TaskOK'
  BY <1>1, <1>2 DEF TaskOK
<1>6. ConnsOK'
  BY <1>1, <1>2, <1>4 DEF ConnsOK
<1> QED BY <1>4, <1>5, <1>6 DEF DeliveryInv, TypeOK

LEMMA InvReport ==
    ASSUME DeliveryInv, Report
    PROVE  DeliveryInv'
<1> USE DEF Report, DeliveryInv, TypeOK
<1>1. TaskOK'
  BY DEF TaskOK, connVars
<1>2. ConnsOK'
  BY DEF ConnsOK, connVars, netVars
<1>3. PoolOK' /\ HeldOK'
  BY HeldKept DEF connVars
<1> QED BY <1>1, <1>2, <1>3

LEMMA InvServe ==
    ASSUME DeliveryInv, NEW c \in Conns, Serve(c)
    PROVE  DeliveryInv'
<1>1. TaskOK /\ ConnsOK /\ PoolOK /\ HeldOK
  BY DEF DeliveryInv, TypeOK
<1>2. PICK frame, items :
         /\ frame = read_batch_frame(wire[c]) /\ frame.kind = "frame"
         /\ items = parse_batch_payload_items(frame.payload).items
         /\ handed' = [handed EXCEPT ![c] = Append(@, items)]
         /\ wire' = [wire EXCEPT ![c] = frame.rest]
  BY DEF Serve
<1>3. UNCHANGED <<task, dest, batch, attempt, stream, writes, served, pool, opened,
                  peer, client, server, sent, torn, up, faults>>
  BY DEF Serve, taskVars, netVars
<1>4. frame.payload \in Cells /\ frame.rest \in Cells
  BY <1>1, <1>2, FrameRead DEF ConnsOK
<1>5. items \in Seq(Cells)
  BY <1>2, <1>4, ParseResult DEF Result
<1>6. handed' \in [Conns -> Seq(Seq(Seq(Cell)))]
  <2>1. Append(handed[c], items) \in Seq(Seq(Seq(Cell)))
    BY <1>1, <1>5 DEF ConnsOK, Cells
  <2> QED BY <1>1, <1>2, <2>1 DEF ConnsOK
<1>7. ConnsOK'
  BY <1>1, <1>2, <1>3, <1>4, <1>6 DEF ConnsOK
<1>8. PoolOK' /\ HeldOK'
  BY <1>3, HeldKept
<1>9. TaskOK'
  BY <1>1, <1>3 DEF TaskOK
<1> QED BY <1>7, <1>8, <1>9 DEF DeliveryInv, TypeOK

LEMMA InvClose ==
    ASSUME DeliveryInv, NEW c \in Conns, Refuse(c) \/ IdleTimeout(c) \/ Break(c)
    PROVE  DeliveryInv'
<1>1. TaskOK /\ ConnsOK /\ PoolOK /\ HeldOK
  BY DEF DeliveryInv, TypeOK
<1>2. PICK state \in {"refused", "gone"} :
         /\ server' = [server EXCEPT ![c] = state] /\ wire' = [wire EXCEPT ![c] = <<>>]
         /\ faults' \in {faults, faults + 1}
         /\ UNCHANGED <<task, dest, batch, attempt, stream, writes, served, pool,
                        opened, peer, client, sent, torn, handed, up>>
  BY DEF Refuse, IdleTimeout, Break, Close, taskVars, netVars
<1>3. ConnsOK'
  BY <1>1, <1>2 DEF ConnsOK, Cells
<1>4. PoolOK' /\ HeldOK'
  BY <1>2, HeldKept
<1>5. TaskOK'
  BY <1>1, <1>2 DEF TaskOK
<1> QED BY <1>3, <1>4, <1>5 DEF DeliveryInv, TypeOK

LEMMA InvDie ==
    ASSUME DeliveryInv, NEW addr \in Addrs, Die(addr) \/ Restart(addr)
    PROVE  DeliveryInv'
<1>1. TaskOK /\ ConnsOK /\ PoolOK /\ HeldOK
  BY DEF DeliveryInv, TypeOK
<1>2. /\ up' \subseteq Addrs /\ faults' \in Nat
      /\ server' \in [Conns -> {"open", "refused", "gone"}] /\ wire' \in [Conns -> Cells]
  <2>1. <<>> \in Cells
    BY DEF Cells
  <2>2. CASE Die(addr)
    <3>1. wire' = [d \in Conns |-> IF peer[d] = addr THEN <<>> ELSE wire[d]]
      BY <2>2 DEF Die
    <3>2. wire' \in [Conns -> Cells]
      BY <1>1, <2>1, <3>1 DEF ConnsOK
    <3>3. server' \in [Conns -> {"open", "refused", "gone"}]
      BY <1>1, <2>2 DEF Die, ConnsOK
    <3> QED BY <1>1, <2>2, <3>2, <3>3 DEF Die, ConnsOK
  <2>3. CASE Restart(addr)
    BY <1>1, <2>3 DEF Restart, ConnsOK, connVars
  <2> QED BY <2>2, <2>3
<1>3. UNCHANGED <<task, dest, batch, attempt, stream, writes, served, pool, opened,
                  peer, client, sent, torn, handed>>
  BY DEF Die, Restart, taskVars, connVars
<1>4. ConnsOK'
  BY <1>1, <1>2, <1>3 DEF ConnsOK
<1>5. PoolOK' /\ HeldOK'
  BY <1>3, HeldKept
<1>6. TaskOK'
  BY <1>1, <1>3 DEF TaskOK
<1> QED BY <1>4, <1>5, <1>6 DEF DeliveryInv, TypeOK

LEMMA DeliveryNext == DeliveryInv /\ [Next]_vars => DeliveryInv'
<1> SUFFICES ASSUME DeliveryInv, [Next]_vars PROVE DeliveryInv'
  OBVIOUS
<1>1. CASE UNCHANGED vars
  BY <1>1 DEF vars, taskVars, connVars, netVars, DeliveryInv, TypeOK, TaskOK,
              ConnsOK, PoolOK, HeldOK
<1> QED BY <1>1, InvAssign, InvDie, InvGet, InvConnect, InvConnectFails, InvWriteOk,
           InvWriteFails, InvTimeout, InvReport, InvServe, InvClose
        DEF Next, Deliver

\* The delivery holds a connection while it writes and only then, and the pool
\* holds open connections under the address they lead to.
THEOREM DeliveryTypes == Spec => []TypeOK
<1>1. DeliveryInv => TypeOK
  BY DEF DeliveryInv
<1> QED BY <1>1, DeliveryInit, DeliveryNext, PTL DEF Spec

\* At no time does a producer hold two connections to one consumer.
THEOREM OneConnection == Spec => []OneLive
<1>1. ASSUME DeliveryInv PROVE OneLive
  <2> SUFFICES ASSUME NEW c \in Conns, NEW d \in Conns, client[c] = "open",
                      client[d] = "open", peer[c] = peer[d]
               PROVE  c = d
    BY DEF OneLive
  <2>1. /\ pool[peer[c]] = c \/ c = stream
        /\ pool[peer[d]] = d \/ d = stream
    BY <1>1 DEF DeliveryInv, HeldOK
  <2>2. stream \in Conns => pool[peer[stream]] = None /\ stream # None
    BY <1>1 DEF DeliveryInv, TypeOK, TaskOK, HeldOK, Conns, None
  <2>3. c # None /\ d # None
    BY DEF Conns, None
  <2> QED BY <2>1, <2>2, <2>3
<1> QED BY <1>1, DeliveryInit, DeliveryNext, PTL DEF Spec

-----------------------------------------------------------------------------
(* Frames one behind the other.                                            *)

\* The frames of the sequence s of batches, but for the first h.
Frames(s, h) == [i \in 1..Len(s) - h |-> encode_framed_batch(s[h + i])]

Flight(s, h) == FlattenSeq(Frames(s, h))

LEMMA FramesCells ==
    ASSUME NEW s \in Seq(Batches), NEW h \in 0..Len(s)
    PROVE  Frames(s, h) \in Seq(Cells) /\ Len(Frames(s, h)) = Len(s) - h
<1>1. ASSUME NEW i \in 1..Len(s) - h PROVE encode_framed_batch(s[h + i]) \in Cells
  <2>1. s[h + i] \in Batches
    BY <1>1
  <2> QED BY <2>1, BatchCells, FrameCells
<1> QED BY <1>1 DEF Frames

\* A batch more is sent.
LEMMA FlightAppend ==
    ASSUME NEW s \in Seq(Batches), NEW h \in 0..Len(s), NEW b \in Batches
    PROVE  Flight(Append(s, b), h) = Flight(s, h) \o encode_framed_batch(b)
<1>1. PICK n, m \in Nat : n = Len(s) /\ m = n - h
  OBVIOUS
<1>2. PICK x, fs, t : x = encode_framed_batch(b) /\ fs = Frames(s, h) /\ t = Append(s, b)
  OBVIOUS
<1>3. x \in Cells /\ fs \in Seq(Cells) /\ Len(fs) = m
  BY <1>1, <1>2, BatchCells, FrameCells, FramesCells
<1>4. Len(t) - h = m + 1 /\ \A i \in 1..n : t[i] = s[i] /\ t[n + 1] = b
  BY <1>1, <1>2
<1>5. Frames(t, h) = [i \in 1..m + 1 |-> encode_framed_batch(t[h + i])]
  BY <1>4 DEF Frames
<1>6. Append(fs, x) = [i \in 1..m + 1 |-> IF i = m + 1 THEN x ELSE fs[i]]
  <2>1. PICK u : u = Append(fs, x)
    OBVIOUS
  <2>2. u \in Seq(Cells) /\ Len(u) = m + 1 /\ u[m + 1] = x /\ \A i \in 1..m : u[i] = fs[i]
    BY <1>3, <2>1
  <2>3. u = [i \in 1..m + 1 |-> u[i]]
    BY <2>2
  <2>4. \A i \in 1..m + 1 : u[i] = IF i = m + 1 THEN x ELSE fs[i]
    BY <2>2
  <2> QED BY <2>1, <2>3, <2>4
<1>7. ASSUME NEW i \in 1..m + 1
      PROVE  encode_framed_batch(t[h + i]) = IF i = m + 1 THEN x ELSE fs[i]
  <2>1. CASE i = m + 1
    <3>1. h + i = n + 1
      BY <1>1, <2>1
    <3>2. t[n + 1] = b
      BY <1>1, <1>2
    <3> QED BY <1>2, <2>1, <3>1, <3>2
  <2>2. CASE i # m + 1
    <3>1. i \in 1..Len(s) - h /\ h + i \in 1..n
      BY <1>1, <2>2
    <3>2. fs[i] = encode_framed_batch(s[h + i])
      BY <1>2, <3>1 DEF Frames
    <3> QED BY <1>4, <2>2, <3>1, <3>2
  <2> QED BY <2>1, <2>2
<1>8. Frames(t, h) = Append(fs, x)
  BY <1>5, <1>6, <1>7
<1> QED BY <1>2, <1>3, <1>8, FlattenAppend DEF Flight

\* The first batch in flight is read.
LEMMA FlightRead ==
    ASSUME NEW s \in Seq(Batches), NEW h \in 0..Len(s), h # Len(s)
    PROVE  /\ h + 1 \in 0..Len(s) /\ s[h + 1] \in Batches
           /\ Flight(s, h) = encode_framed_batch(s[h + 1]) \o Flight(s, h + 1)
           /\ Flight(s, h + 1) \in Cells
<1>1. PICK m \in Nat : m = Len(s) - (h + 1)
  <2>1. PICK n \in Nat : n = Len(s)
    OBVIOUS
  <2>2. h \in 0..n /\ h # n
    BY <2>1
  <2>3. n - (h + 1) \in Nat
    BY <2>2
  <2> QED BY <2>1, <2>3
<1>2. h + 1 \in 0..Len(s) /\ s[h + 1] \in Batches
  OBVIOUS
<1>3. PICK x, fs : x = encode_framed_batch(s[h + 1]) /\ fs = Frames(s, h + 1)
  OBVIOUS
<1>4. x \in Cells /\ fs \in Seq(Cells) /\ Len(fs) = m
  BY <1>1, <1>2, <1>3, BatchCells, FrameCells, FramesCells
<1>5. Len(s) - h = m + 1
  BY <1>1
<1>6. Frames(s, h) = [i \in 1..m + 1 |-> encode_framed_batch(s[h + i])]
  BY <1>5 DEF Frames
<1>7. <<x>> \o fs = [i \in 1..m + 1 |-> IF i = 1 THEN x ELSE fs[i - 1]]
  BY <1>4
<1>8. ASSUME NEW i \in 1..m + 1
      PROVE  encode_framed_batch(s[h + i]) = IF i = 1 THEN x ELSE fs[i - 1]
  <2>1. CASE i = 1
    BY <1>3, <2>1
  <2>2. CASE i # 1
    <3>1. i - 1 \in 1..Len(s) - (h + 1) /\ (h + 1) + (i - 1) = h + i
      BY <1>1, <2>2
    <3>2. fs[i - 1] = encode_framed_batch(s[h + i])
      BY <1>3, <3>1 DEF Frames
    <3> QED BY <2>2, <3>2
  <2> QED BY <2>1, <2>2
<1>9. Frames(s, h) = <<x>> \o fs
  BY <1>6, <1>7, <1>8
<1>10. FlattenSeq(fs) \in Cells
  <2>1. PICK f : f \in [0..Len(fs) -> Cells] /\ FlattenSeq(fs) = f[Len(fs)]
    BY <1>4, FlattenChain
  <2> QED BY <1>4, <2>1
<1> QED BY <1>2, <1>3, <1>4, <1>9, <1>10, FlattenCons DEF Flight

\* Nothing is in flight.
LEMMA FlightEmpty ==
    ASSUME NEW s \in Seq(Batches)
    PROVE  Flight(s, Len(s)) = <<>>
<1>1. Len(s) \in 0..Len(s) /\ Len(s) - Len(s) = 0
  OBVIOUS
<1>2. PICK fs : fs = Frames(s, Len(s))
  OBVIOUS
<1>3. fs \in Seq(Cells) /\ Len(fs) = 0
  BY <1>1, <1>2, FramesCells
<1>4. fs = <<>>
  BY <1>3
<1>5. FlattenSeq(fs) = <<>>
  BY <1>3, <1>4 DEF FlattenSeq
<1> QED BY <1>2, <1>5 DEF Flight

\* read_batch_frame takes a whole frame from the front and leaves the rest,
\* or bails when the payload is above the limit.
LEMMA FrameReadBack ==
    ASSUME NEW items \in Batches, NEW rest \in Cells
    PROVE  LET payload == encode_batch_payload(items)
               r == read_batch_frame(encode_framed_batch(items) \o rest)
           IN  /\ Len(payload) > MaxFrame => r.kind = "bail"
               /\ ~(Len(payload) > MaxFrame) =>
                     r.kind = "frame" /\ r.payload = payload /\ r.rest = rest
<1>1. PICK payload, hdr, frame, cells :
         /\ payload = encode_batch_payload(items)
         /\ hdr = <<magic("BATC"), word(Len(items)), word(Len(payload))>>
         /\ frame = hdr \o payload /\ cells = frame \o rest
  OBVIOUS
<1>2. frame = encode_framed_batch(items)
  BY <1>1 DEF encode_framed_batch
<1>3. payload \in Cells /\ frame \in Cells
  BY <1>1, <1>2, BatchCells, FrameCells
<1>4. PICK L \in Nat : L = Len(payload)
  BY <1>3 DEF Cells
<1>5. word(L) = L
  BY <1>1, <1>4, BatchesAssumption, WordSmall
<1>6. /\ hdr \in Cells /\ Len(hdr) = 3 /\ hdr[1] = magic("BATC") /\ hdr[3] = L
  <2>1. magic("BATC") \in Nat
    BY WireAssumption DEF magic, Types
  <2>2. word(Len(items)) \in Nat
    BY BatchCells, WireAssumption DEF word
  <2> QED BY <1>1, <1>4, <1>5, <2>1, <2>2 DEF Cells, Cell
<1>7. /\ Len(frame) = 3 + L
      /\ \A i \in 1..3 : frame[i] = hdr[i]
      /\ \A i \in 1..L : frame[3 + i] = payload[i]
  <2>1. /\ Len(frame) = Len(hdr) + Len(payload)
        /\ \A i \in 1..Len(hdr) : frame[i] = hdr[i]
        /\ \A i \in 1..Len(payload) : frame[Len(hdr) + i] = payload[i]
    <3>1. /\ Len(hdr \o payload) = Len(hdr) + Len(payload)
          /\ \A i \in 1..Len(hdr) : (hdr \o payload)[i] = hdr[i]
          /\ \A i \in 1..Len(payload) : (hdr \o payload)[Len(hdr) + i] = payload[i]
      BY <1>3, <1>6, Joined
    <3> QED BY <1>1, <3>1
  <2> QED BY <1>4, <1>6, <2>1
<1>8. PICK R \in Nat : R = Len(rest)
  BY DEF Cells
<1>9. /\ cells \in Cells /\ Len(cells) = 3 + L + R
      /\ \A i \in 1..3 + L : cells[i] = frame[i]
      /\ \A i \in 1..R : cells[3 + L + i] = rest[i]
  <2>1. /\ cells \in Cells /\ Len(cells) = Len(frame) + Len(rest)
        /\ \A i \in 1..Len(frame) : cells[i] = frame[i]
        /\ \A i \in 1..Len(rest) : cells[Len(frame) + i] = rest[i]
    <3>1. /\ frame \o rest \in Cells /\ Len(frame \o rest) = Len(frame) + Len(rest)
          /\ \A i \in 1..Len(frame) : (frame \o rest)[i] = frame[i]
          /\ \A i \in 1..Len(rest) : (frame \o rest)[Len(frame) + i] = rest[i]
      BY <1>3, Joined
    <3> QED BY <1>1, <3>1
  <2> QED BY <1>7, <1>8, <2>1
<1>10. cells[1] = magic("BATC") /\ cells[3] = L
  BY <1>6, <1>7, <1>9
<1>11. Len(cells) > 2 /\ cells # <<>> /\ ~(Len(cells) \in 1..2) /\ ~(Len(cells) < 3 + L)
  <2>1. PICK m \in Nat : m = 3 + L + R
    OBVIOUS
  <2>2. m > 2 /\ ~(m \in 1..2) /\ ~(m < 3 + L) /\ m # 0
    BY <2>1
  <2>3. Len(<<>>) = 0
    OBVIOUS
  <2> QED BY <1>9, <2>1, <2>2, <2>3
<1>12. read_batch_frame(cells) =
         IF L > MaxFrame THEN [kind |-> "bail"]
         ELSE [kind |-> "frame", payload |-> SubSeq(cells, 4, 3 + L),
               rest |-> SubSeq(cells, 4 + L, Len(cells))]
  BY <1>10, <1>11 DEF read_batch_frame
<1>13. SubSeq(cells, 4, 3 + L) = payload
  <2>1. PICK s : s = SubSeq(cells, 4, 3 + L)
    OBVIOUS
  <2>2. s \in Cells /\ Len(s) = L /\ \A i \in 1..L : s[i] = cells[3 + i]
    BY <1>9, <2>1 DEF Cells
  <2>3. ASSUME NEW i \in 1..L PROVE s[i] = payload[i]
    <3>1. 3 + i \in 1..3 + L
      OBVIOUS
    <3> QED BY <1>7, <1>9, <2>2, <3>1
  <2>4. s = payload
    BY <1>3, <1>4, <2>2, <2>3 DEF Cells
  <2> QED BY <2>1, <2>4
<1>14. SubSeq(cells, 4 + L, Len(cells)) = rest
  <2>1. PICK s : s = SubSeq(cells, 4 + L, 3 + L + R)
    OBVIOUS
  <2>2. s \in Cells /\ Len(s) = R /\ \A i \in 1..R : s[i] = cells[3 + L + i]
    BY <1>9, <2>1 DEF Cells
  <2>3. \A i \in 1..R : s[i] = rest[i]
    BY <1>9, <2>2
  <2>4. s = rest
    BY <1>8, <2>2, <2>3 DEF Cells
  <2> QED BY <1>9, <2>1, <2>4
<1>15. PICK r : r = read_batch_frame(cells)
  OBVIOUS
<1>16. /\ L > MaxFrame => r.kind = "bail"
       /\ ~(L > MaxFrame) => r.kind = "frame" /\ r.payload = payload /\ r.rest = rest
  BY <1>12, <1>13, <1>14, <1>15
<1> QED BY <1>1, <1>2, <1>4, <1>15, <1>16

-----------------------------------------------------------------------------
(* HandedInOrder and RefusedForCause.                                      *)

\* On a connection whose frames were written whole: what was handed on begins
\* what was sent, the rest is in flight while the connection is open, and the
\* first batch of the rest is the cause when the reader has refused it.
Flow(c) ==
    ~torn[c] =>
        /\ Len(handed[c]) <= Len(sent[c])
        /\ \A i \in 1..Len(handed[c]) : handed[c][i] = sent[c][i]
        /\ server[c] = "open" => wire[c] = Flight(sent[c], Len(handed[c]))
        /\ server[c] = "refused" =>
              /\ Len(handed[c]) < Len(sent[c])
              /\ TooLarge(sent[c][Len(handed[c]) + 1])

\* A connection that is yet to be opened.
Unopened(c) ==
    c > opened => /\ sent[c] = <<>> /\ handed[c] = <<>> /\ wire[c] = <<>>
                  /\ server[c] = "gone"

FlowInv == DeliveryInv /\ \A c \in Conns : Flow(c) /\ Unopened(c)

LEMMA FlowInit == Init => FlowInv
<1> SUFFICES ASSUME Init PROVE FlowInv
  OBVIOUS
<1>1. ASSUME NEW c \in Conns PROVE Flow(c) /\ Unopened(c)
  BY DEF Init, Flow, Unopened
<1> QED BY <1>1, DeliveryInit DEF FlowInv

\* A connection that a step does not touch, but that may go.
LEMMA FlowKept ==
    ASSUME FlowInv, NEW c \in Conns, opened' = opened,
           sent'[c] = sent[c], handed'[c] = handed[c], torn'[c] = torn[c],
           \/ wire'[c] = wire[c] /\ server'[c] = server[c]
           \/ wire'[c] = <<>> /\ (server'[c] = server[c] \/ server'[c] = "gone")
              /\ server'[c] # "open"
    PROVE  Flow(c)' /\ Unopened(c)'
  BY DEF FlowInv, Flow, Unopened

LEMMA FlowConnect ==
    ASSUME FlowInv, Connect, NEW c \in Conns
    PROVE  Flow(c)' /\ Unopened(c)'
<1>1. PICK n : n = opened + 1
  OBVIOUS
<1>2. opened' = n /\ server' = [server EXCEPT ![n] = "open"] /\ UNCHANGED <<wire, sent, torn, handed>>
  BY <1>1 DEF Connect
<1>3. ConnsOK /\ opened \in Nat /\ c \in Nat /\ Flow(c) /\ Unopened(c)
  BY DeliveryAssumption DEF FlowInv, DeliveryInv, TypeOK, ConnsOK, Conns
<1>4. CASE c = n
  <2>1. sent[c] = <<>> /\ handed[c] = <<>> /\ wire[c] = <<>>
    BY <1>1, <1>3, <1>4 DEF Unopened
  <2>2. Flight(<<>>, 0) = <<>>
    <3>1. <<>> \in Seq(Batches) /\ Len(<<>>) = 0
      OBVIOUS
    <3> QED BY <3>1, FlightEmpty
  <2>3. server'[c] = "open"
    BY <1>2, <1>3, <1>4 DEF ConnsOK
  <2>4. Flow(c)'
    BY <1>2, <2>1, <2>2, <2>3 DEF Flow
  <2>5. Unopened(c)'
    BY <1>2, <1>3, <1>4 DEF Unopened
  <2> QED BY <2>4, <2>5
<1>5. CASE c # n
  <2>1. server'[c] = server[c]
    BY <1>2, <1>3, <1>5 DEF ConnsOK
  <2>2. c > n => c > opened
    BY <1>1, <1>3
  <2> QED BY <1>2, <1>3, <2>1, <2>2 DEF Flow, Unopened
<1> QED BY <1>4, <1>5

LEMMA FlowWriteOk ==
    ASSUME FlowInv, NEW n \in 1..Len(encode_framed_batch(batch)),
           NEW old \in Stale, WriteOk(n, old), NEW c \in Conns
    PROVE  Flow(c)' /\ Unopened(c)'
<1>1. PICK frame : frame = encode_framed_batch(batch)
  OBVIOUS
<1>2. /\ wire' = IF server[stream] = "open"
                   THEN [wire EXCEPT ![stream] = @ \o SubSeq(frame, 1, n)]
                   ELSE wire
      /\ sent' = [sent EXCEPT ![stream] = Append(@, batch)]
      /\ torn' = [torn EXCEPT ![stream] = @ \/ n < Len(frame)]
      /\ UNCHANGED <<opened, server, handed>>
  BY <1>1 DEF WriteOk, write_vectored
<1>3. /\ ConnsOK /\ stream \in 1..opened /\ stream \in Conns /\ batch \in Batches
      /\ Flow(c) /\ Unopened(c)
  BY DeliveryAssumption DEF FlowInv, DeliveryInv, TypeOK, TaskOK, ConnsOK, Conns, WriteOk
<1>4. CASE c # stream
  BY <1>2, <1>3, <1>4, FlowKept DEF ConnsOK
<1>5. CASE c = stream
  <2>1. opened \in Nat
    BY <1>3, DeliveryAssumption DEF ConnsOK
  <2>2. ~(c > opened)
    BY <1>3, <1>5, <2>1
  <2>3. Unopened(c)'
    BY <1>2, <2>2 DEF Unopened
  <2>4. ASSUME ~torn'[c] PROVE Flow(c)'
    <3>1. ~torn[c] /\ ~(n < Len(frame))
      BY <1>2, <1>3, <1>5, <2>4 DEF ConnsOK
    <3>2. frame \in Cells
      BY <1>1, <1>3, BatchCells, FrameCells
    <3>3. SubSeq(frame, 1, n) = frame
      <4>1. n = Len(frame)
        BY <1>1, <3>1, <3>2 DEF Cells
      <4> QED BY <3>2, <4>1 DEF Cells
    <3>4. PICK s, h : s = sent[c] /\ h = handed[c]
      OBVIOUS
    <3>5. s \in Seq(Batches) /\ h \in Seq(Seq(Seq(Cell)))
      BY <1>3, <3>4 DEF ConnsOK
    <3>6. /\ Len(h) <= Len(s) /\ \A i \in 1..Len(h) : h[i] = s[i]
          /\ server[c] = "open" => wire[c] = Flight(s, Len(h))
          /\ server[c] = "refused" => Len(h) < Len(s) /\ TooLarge(s[Len(h) + 1])
      BY <1>3, <3>1, <3>4 DEF Flow
    <3>7. PICK t : t = Append(s, batch)
      OBVIOUS
    <3>8. sent'[c] = t /\ handed'[c] = h /\ server'[c] = server[c]
      BY <1>2, <1>3, <1>5, <3>4, <3>7 DEF ConnsOK
    <3>9. Len(t) = Len(s) + 1 /\ \A i \in 1..Len(s) : t[i] = s[i]
      BY <1>3, <3>5, <3>7
    <3>10. Len(h) \in Nat /\ Len(s) \in Nat /\ Len(h) \in 0..Len(s)
      BY <3>5, <3>6
    <3>11. Len(h) <= Len(t) /\ \A i \in 1..Len(h) : h[i] = t[i]
      BY <3>6, <3>9, <3>10
    <3>12. server[c] = "refused" => Len(h) < Len(t) /\ TooLarge(t[Len(h) + 1])
      BY <3>6, <3>9, <3>10
    <3>13. server[c] = "open" => wire'[c] = Flight(t, Len(h))
      <4> SUFFICES ASSUME server[c] = "open" PROVE wire'[c] = Flight(t, Len(h))
        OBVIOUS
      <4>1. wire'[c] = Flight(s, Len(h)) \o frame
        BY <1>2, <1>3, <1>5, <3>3, <3>6 DEF ConnsOK
      <4>2. Flight(t, Len(h)) = Flight(s, Len(h)) \o frame
        BY <1>1, <1>3, <3>5, <3>7, <3>10, FlightAppend
      <4> QED BY <4>1, <4>2
    <3> QED BY <3>8, <3>11, <3>12, <3>13 DEF Flow
  <2>5. Flow(c)'
    BY <2>4 DEF Flow
  <2> QED BY <2>3, <2>5
<1> QED BY <1>4, <1>5

\* What the reader finds on an open connection whose frames were written whole:
\* nothing, a batch above the limits, or the next batch, unchanged.
LEMMA FlowFront ==
    ASSUME FlowInv, NEW c \in Conns, server[c] = "open", ~torn[c],
           read_batch_frame(wire[c]).kind # "more"
    PROVE  LET h == Len(handed[c])
               b == sent[c][h + 1]
               r == read_batch_frame(wire[c])
           IN  /\ h \in Nat /\ h < Len(sent[c]) /\ Len(sent[c]) \in Nat
               /\ r.kind = "bail" => TooLarge(b)
               /\ r.kind # "bail" =>
                    /\ r.kind = "frame" /\ r.rest = Flight(sent[c], h + 1)
                    /\ ~parse_batch_payload_items(r.payload).ok => TooLarge(b)
                    /\ parse_batch_payload_items(r.payload).ok =>
                          parse_batch_payload_items(r.payload).items = b
<1>1. PICK s, h, b, r : /\ s = sent[c] /\ h = Len(handed[c]) /\ b = s[h + 1]
                        /\ r = read_batch_frame(wire[c])
  OBVIOUS
<1>2. s \in Seq(Batches) /\ h \in Nat
  BY <1>1 DEF FlowInv, DeliveryInv, TypeOK, ConnsOK
<1>3. h <= Len(s) /\ wire[c] = Flight(s, h)
  BY <1>1 DEF FlowInv, Flow
<1>4. PICK n \in Nat : n = Len(s)
  BY <1>2
<1>5. h # n
  <2> SUFFICES ASSUME h = n PROVE FALSE
    OBVIOUS
  <2>1. wire[c] = <<>>
    BY <1>2, <1>3, <1>4, FlightEmpty
  <2>2. read_batch_frame(wire[c]) = [kind |-> "more"]
    BY <2>1 DEF read_batch_frame
  <2> QED BY <2>2
<1>6. h \in 0..Len(s) /\ h < n
  BY <1>2, <1>3, <1>4, <1>5
<1>7. PICK rest, payload : rest = Flight(s, h + 1) /\ payload = encode_batch_payload(b)
  OBVIOUS
<1>8. b \in Batches /\ wire[c] = encode_framed_batch(b) \o rest /\ rest \in Cells
  BY <1>1, <1>2, <1>3, <1>4, <1>5, <1>6, <1>7, FlightRead
<1>9. /\ Len(payload) > MaxFrame => r.kind = "bail"
      /\ ~(Len(payload) > MaxFrame) => r.kind = "frame" /\ r.payload = payload /\ r.rest = rest
  BY <1>1, <1>7, <1>8, FrameReadBack
<1>10. r.kind = "bail" => Len(payload) > MaxFrame
  BY <1>9
<1>11. /\ b \in Seq(Cells) /\ \A i \in 1..Len(b) : b[i] # <<>>
       /\ Len(b) < Word /\ Len(payload) < Word
  BY <1>7, <1>8, BatchCells, BatchesAssumption
<1>12. PICK p : p = parse_batch_payload_items(payload)
  OBVIOUS
<1>13. /\ p.ok <=> \A i \in 1..Len(b) : Len(b[i]) <= MaxItem
       /\ p.ok => p.items = b
  BY <1>7, <1>11, <1>12, ParseEncoded
<1>14. ~p.ok => TooLarge(b)
  <2> SUFFICES ASSUME ~p.ok PROVE TooLarge(b)
    OBVIOUS
  <2>1. PICK i \in 1..Len(b) : ~(Len(b[i]) <= MaxItem)
    BY <1>13
  <2>2. i \in DOMAIN b /\ Len(b[i]) \in Nat /\ MaxItem \in Nat
    BY <1>11, <2>1, WireAssumption DEF Cells
  <2>3. Len(b[i]) > MaxItem
    BY <2>1, <2>2
  <2> QED BY <2>2, <2>3 DEF TooLarge
<1>15. Len(payload) > MaxFrame => TooLarge(b)
  BY <1>7 DEF TooLarge
<1>16. r.kind # "bail" =>
         /\ r.kind = "frame" /\ r.rest = rest /\ r.payload = payload
  BY <1>9
<1> QED BY <1>1, <1>2, <1>4, <1>6, <1>7, <1>10, <1>12, <1>13, <1>14, <1>15, <1>16

LEMMA FlowServe ==
    ASSUME FlowInv, NEW d \in Conns, Serve(d), NEW c \in Conns
    PROVE  Flow(c)' /\ Unopened(c)'
<1>1. PICK r, p :
         /\ r = read_batch_frame(wire[d]) /\ r.kind = "frame"
         /\ p = parse_batch_payload_items(r.payload) /\ p.ok
         /\ handed' = [handed EXCEPT ![d] = Append(@, p.items)]
         /\ wire' = [wire EXCEPT ![d] = r.rest]
  BY DEF Serve
<1>2. server[d] = "open" /\ UNCHANGED <<opened, server, sent, torn>>
  BY DEF Serve
<1>3. ConnsOK /\ Flow(c) /\ Unopened(c)
  BY DEF FlowInv, DeliveryInv, TypeOK
<1>4. CASE c # d
  BY <1>1, <1>2, <1>3, <1>4, FlowKept DEF ConnsOK
<1>5. CASE c = d
  <2>1. Unopened(c)'
    BY <1>2, <1>3, <1>5 DEF Unopened
  <2>2. ASSUME ~torn'[c] PROVE Flow(c)'
    <3>1. PICK s, h, n : s = sent[c] /\ h = handed[c] /\ n = Len(h)
      OBVIOUS
    <3>2. ~torn[c] /\ r.kind # "bail" /\ r.kind # "more"
      BY <1>1, <1>2, <2>2
    <3>3. /\ n \in Nat /\ n < Len(s) /\ Len(s) \in Nat /\ r.rest = Flight(s, n + 1)
          /\ p.items = s[n + 1]
      BY <1>1, <1>2, <1>5, <3>1, <3>2, FlowFront
    <3>4. h \in Seq(Seq(Seq(Cell)))
      BY <1>3, <3>1 DEF ConnsOK
    <3>5. \A i \in 1..n : h[i] = s[i]
      BY <1>3, <3>1, <3>2 DEF Flow
    <3>6. PICK g : g = Append(h, p.items)
      OBVIOUS
    <3>7. handed'[c] = g /\ wire'[c] = Flight(s, n + 1) /\ server'[c] = "open" /\ sent'[c] = s
      BY <1>1, <1>2, <1>3, <1>5, <3>1, <3>3, <3>6 DEF ConnsOK
    <3>8. Len(g) = n + 1 /\ g[n + 1] = s[n + 1] /\ \A i \in 1..n : g[i] = h[i]
      BY <3>1, <3>3, <3>4, <3>6
    <3>9. n + 1 <= Len(s) /\ \A i \in 1..n + 1 : g[i] = s[i]
      BY <3>3, <3>5, <3>8
    <3> QED BY <3>7, <3>8, <3>9 DEF Flow
  <2>3. Flow(c)'
    BY <2>2 DEF Flow
  <2> QED BY <2>1, <2>3
<1> QED BY <1>4, <1>5

LEMMA FlowRefuse ==
    ASSUME FlowInv, NEW d \in Conns, Refuse(d), NEW c \in Conns
    PROVE  Flow(c)' /\ Unopened(c)'
<1>1. PICK r : /\ r = read_batch_frame(wire[d])
               /\ \/ r.kind = "bail"
                  \/ r.kind = "frame" /\ ~parse_batch_payload_items(r.payload).ok
  BY DEF Refuse
<1>2. /\ server[d] = "open" /\ server' = [server EXCEPT ![d] = "refused"]
      /\ wire' = [wire EXCEPT ![d] = <<>>] /\ UNCHANGED <<opened, sent, torn, handed>>
  BY DEF Refuse, Close
<1>3. ConnsOK /\ Flow(c) /\ Unopened(c)
  BY DEF FlowInv, DeliveryInv, TypeOK
<1>4. CASE c # d
  BY <1>2, <1>3, <1>4, FlowKept DEF ConnsOK
<1>5. CASE c = d
  <2>1. Unopened(c)'
    BY <1>2, <1>3, <1>5 DEF Unopened
  <2>2. ASSUME ~torn[c]
        PROVE  /\ Len(handed[c]) < Len(sent[c])
               /\ TooLarge(sent[c][Len(handed[c]) + 1])
    BY <1>1, <1>2, <1>5, <2>2, FlowFront
  <2>3. server'[c] = "refused"
    BY <1>2, <1>3, <1>5 DEF ConnsOK
  <2>4. Flow(c)'
    BY <1>2, <1>3, <2>2, <2>3 DEF Flow
  <2> QED BY <2>1, <2>4
<1> QED BY <1>4, <1>5

LEMMA FlowGone ==
    ASSUME FlowInv, NEW d \in Conns, IdleTimeout(d) \/ Break(d), NEW c \in Conns
    PROVE  Flow(c)' /\ Unopened(c)'
<1>1. /\ server' = [server EXCEPT ![d] = "gone"] /\ wire' = [wire EXCEPT ![d] = <<>>]
      /\ UNCHANGED <<opened, sent, torn, handed>>
  BY DEF IdleTimeout, Break, Close
<1>2. ConnsOK
  BY DEF FlowInv, DeliveryInv, TypeOK
<1>3. \/ wire'[c] = wire[c] /\ server'[c] = server[c]
      \/ wire'[c] = <<>> /\ server'[c] = "gone"
  BY <1>1, <1>2 DEF ConnsOK
<1> QED BY <1>1, <1>3, FlowKept

LEMMA FlowDie ==
    ASSUME FlowInv, NEW addr \in Addrs, Die(addr), NEW c \in Conns
    PROVE  Flow(c)' /\ Unopened(c)'
<1>1. UNCHANGED <<opened, sent, torn, handed>>
  BY DEF Die
<1>2. \/ wire'[c] = wire[c] /\ server'[c] = server[c]
      \/ wire'[c] = <<>> /\ server'[c] = "gone"
      \/ wire'[c] = <<>> /\ server'[c] = server[c] /\ server[c] # "open"
  BY DEF Die
<1> QED BY <1>1, <1>2, FlowKept

LEMMA FlowNext == FlowInv /\ [Next]_vars => FlowInv'
<1> SUFFICES ASSUME FlowInv, [Next]_vars PROVE FlowInv'
  OBVIOUS
<1>1. DeliveryInv'
  BY DeliveryNext DEF FlowInv
<1>2. ASSUME NEW c \in Conns PROVE Flow(c)' /\ Unopened(c)'
  <2>1. UNCHANGED <<opened, sent, handed, torn, wire, server>> => Flow(c)' /\ Unopened(c)'
    BY FlowKept
  <2>2. ASSUME NEW addr \in Addrs, Assign(addr) \/ Restart(addr)
        PROVE  UNCHANGED <<opened, sent, handed, torn, wire, server>>
    BY <2>2 DEF Assign, Restart, connVars
  <2>3. ASSUME NEW old \in Stale, Get(old)
        PROVE  UNCHANGED <<opened, sent, handed, torn, wire, server>>
    BY <2>3 DEF Get
  <2>4. CASE ConnectFails \/ WriteFails \/ Timeout \/ Report
    BY <2>1, <2>4 DEF ConnectFails, WriteFails, Timeout, Report, connVars
  <2>5. CASE UNCHANGED vars
    BY <2>1, <2>5 DEF vars, connVars
  <2> QED BY <2>1, <2>2, <2>3, <2>4, <2>5, FlowConnect, FlowWriteOk, FlowServe,
             FlowRefuse, FlowGone, FlowDie
          DEF Next, Deliver
<1> QED BY <1>1, <1>2 DEF FlowInv

\* On a connection whose frames were all written whole, accept_batch gets the
\* batches of the producer, in order and unchanged, and the others are in
\* flight as long as the consumer keeps the connection.
THEOREM BatchesInOrder == Spec => []HandedInOrder
<1>1. ASSUME FlowInv PROVE HandedInOrder
  <2> SUFFICES ASSUME NEW c \in Conns, ~torn[c]
               PROVE  /\ IsPrefix(handed[c], sent[c])
                      /\ server[c] = "open" => wire[c] = InFlight(c)
    BY DEF HandedInOrder
  <2>1. PICK s, h : s = sent[c] /\ h = handed[c]
    OBVIOUS
  <2>2. /\ Len(h) <= Len(s) /\ \A i \in 1..Len(h) : h[i] = s[i]
        /\ server[c] = "open" => wire[c] = Flight(s, Len(h))
    BY <1>1, <2>1 DEF FlowInv, Flow
  <2>3. s \in Seq(Batches) /\ h \in Seq(Seq(Seq(Cell)))
    BY <1>1, <2>1 DEF FlowInv, DeliveryInv, TypeOK, ConnsOK
  <2>4. SubSeq(h, 1, Len(h)) = SubSeq(s, 1, Len(h))
    BY <2>2, <2>3
  <2>5. InFlight(c) = Flight(s, Len(h))
    BY <2>1 DEF InFlight, Flight, Frames
  <2> QED BY <2>1, <2>2, <2>4, <2>5 DEF IsPrefix
<1> QED BY <1>1, FlowInit, FlowNext, PTL DEF Spec

\* read_batch_frame and parse_batch_payload_items refuse nothing that was
\* written whole, but for batches above the limits.
THEOREM RefusalsHaveCause == Spec => []RefusedForCause
<1>1. FlowInv => RefusedForCause
  BY DEF FlowInv, Flow, RefusedForCause
<1> QED BY <1>1, FlowInit, FlowNext, PTL DEF Spec
=============================================================================
