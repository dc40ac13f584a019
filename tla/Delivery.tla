------------------------------ MODULE Delivery ------------------------------
(***************************************************************************)
(* The data plane: a producer's deliver_assign (producer/client.rs) sends  *)
(* batches over pooled connections (producer/delivery_pool.rs), each       *)
(* read by a serve_data_connection of a consumer (consumer/client.rs).     *)
(* A connection is a stream of cells with two ends.                        *)
(***************************************************************************)
EXTENDS Wire, SequencesExt

CONSTANTS
    Addrs,          \* data_addr of the consumers
    Batches,        \* what drain_for_assign can return, sequences of payloads
    MaxConns,       \* bound: connections opened
    MaxDeliveries,  \* bound: ASGNs served
    MaxFaults       \* bound: short writes, broken connections, deaths

ASSUME DeliveryAssumption ==
    /\ Addrs # {} /\ Batches \subseteq Seq(Seq(1..Word - 1) \ {<<>>}) \ {<<>>}
    /\ MaxConns \in Nat /\ MaxDeliveries \in Nat /\ MaxFaults \in Nat

\* The casts of the encoder lose nothing: max_items of an ASGN is a u16, and
\* max_batch_bytes, of which only a first item can be longer, is 64 MiB unless
\* the application sets more.
ASSUME BatchesAssumption ==
    \A items \in Batches :
        Len(items) < Word /\ Len(encode_batch_payload(items)) < Word

Conns == 1..MaxConns
None  == 0

VARIABLES
    task,       \* where deliver_assign is
    dest,       \* data_addr of the ASGN it serves
    batch,      \* its items; kept, as requeue_items does, when it fails
    attempt,    \* attempt of tcp_deliver_batch
    stream,     \* the connection it holds
    writes,     \* history: successful write_vectored calls for the batch
    served,     \* ASGNs served so far
    pool,       \* conns of the DeliveryPool
    opened,     \* connections opened so far
    peer,       \* data_addr a connection leads to
    client,     \* producer's end of a connection
    server,     \* consumer's end: open, refused by the reader, or gone
    wire,       \* cells written and not yet read
    sent,       \* history: batches written, whole or in part
    torn,       \* history: a part of a batch was written
    handed,     \* batches that reached accept_batch
    up,         \* consumers that accept connections
    faults

taskVars == <<task, dest, batch, attempt, stream, writes, served>>
connVars == <<opened, peer, client, server, wire, sent, torn, handed>>
netVars  == <<up, faults>>
vars     == <<taskVars, pool, connVars, netVars>>

Init ==
    /\ task = "idle" /\ dest = (CHOOSE a \in Addrs : TRUE) /\ batch \in Batches
    /\ attempt = 0 /\ stream = None /\ writes = 0 /\ served = 0
    /\ pool = [a \in Addrs |-> None]
    /\ opened = 0 /\ peer = [c \in Conns |-> dest]
    /\ client = [c \in Conns |-> "closed"] /\ server = [c \in Conns |-> "gone"]
    /\ wire = [c \in Conns |-> <<>>] /\ sent = [c \in Conns |-> <<>>]
    /\ torn = [c \in Conns |-> FALSE] /\ handed = [c \in Conns |-> <<>>]
    /\ up = Addrs /\ faults = 0

-----------------------------------------------------------------------------
(* DeliveryPool.                                                           *)

\* evict_stale: `old` are the destinations idle for idle_timeout or longer.
evict_stale(old) == [a \in Addrs |-> IF a \in old THEN None ELSE pool[a]]

\* Dropping a TcpStream closes this end of it.
dropped(cs) == [c \in Conns |-> IF c \in cs THEN "closed" ELSE client[c]]

Pooled(as) == {pool[a] : a \in as} \ {None}

\* Mutant: leaves the connection in the pool.
take_kept(addr, old) ==
    /\ pool'   = evict_stale(old)
    /\ stream' = evict_stale(old)[addr]
    /\ client' = dropped(Pooled(old))

\* take, up to the connection it returns.
take(addr, old) ==
    /\ pool'   = [evict_stale(old) EXCEPT ![addr] = None]
    /\ stream' = evict_stale(old)[addr]
    /\ client' = dropped(Pooled(old))

\* put: the previous connection to addr is dropped.
put(addr, conn, old) ==
    /\ pool'   = [evict_stale(old) EXCEPT ![addr] = conn]
    /\ client' = dropped(Pooled(old \cup {addr}))

-----------------------------------------------------------------------------
(* deliver_assign and tcp_deliver_batch.                                   *)

\* An ASGN arrives; drain_for_assign returns what it did when the last
\* delivery failed, for requeue_items put it back in front.
Assign(addr) ==
    /\ task = "idle" /\ served < MaxDeliveries
    /\ dest' = addr /\ attempt' = 0 /\ served' = served + 1
    /\ task' = "get"
    /\ UNCHANGED <<batch, stream, writes, pool, connVars, netVars>>

\* Mutant: connects anew for every delivery.
GetFresh(old) ==
    /\ task = "get"
    /\ stream' = None /\ task' = "connect"
    /\ UNCHANGED <<dest, batch, attempt, writes, served, pool, connVars, netVars>>

\* get_or_connect finds a connection or goes on to connect_fresh.
Get(old) ==
    /\ task = "get"
    /\ take(dest, old)
    /\ task' = IF stream' = None THEN "connect" ELSE "write"
    /\ UNCHANGED <<dest, batch, attempt, writes, served, opened, peer, server,
                   wire, sent, torn, handed, netVars>>

\* One of CONNECT_ATTEMPTS succeeds; run_data_plane accepts.
Connect ==
    /\ task = "connect" /\ dest \in up /\ opened < MaxConns
    /\ LET c == opened + 1
       IN  /\ opened' = c /\ stream' = c
           /\ peer'   = [peer EXCEPT ![c] = dest]
           /\ client' = [client EXCEPT ![c] = "open"]
           /\ server' = [server EXCEPT ![c] = "open"]
    /\ task' = "write"
    /\ UNCHANGED <<dest, batch, attempt, writes, served, pool, wire, sent, torn,
                   handed, netVars>>

\* All fail: the error leaves tcp_deliver_batch whatever the attempt.
ConnectFails ==
    /\ task = "connect"
    /\ task' = "failed"
    /\ UNCHANGED <<dest, batch, attempt, stream, writes, served, pool, connVars,
                   netVars>>

\* write_framed_batch_vectored on a connection: one write_vectored, which
\* takes n cells of the frame.  A reader that is gone does not get them.
write_vectored(c, n) ==
    LET frame == encode_framed_batch(batch)
    IN  /\ n < Len(frame) => faults < MaxFaults
        /\ faults' = IF n < Len(frame) THEN faults + 1 ELSE faults
        /\ wire' = IF server[c] = "open"
                   THEN [wire EXCEPT ![c] = @ \o SubSeq(frame, 1, n)]
                   ELSE wire
        /\ sent' = [sent EXCEPT ![c] = Append(@, batch)]
        /\ torn' = [torn EXCEPT ![c] = @ \/ n < Len(frame)]

\* The write succeeds, with any n: the connection goes to the pool.
WriteOk(n, old) ==
    /\ task = "write" /\ n \in 1..Len(encode_framed_batch(batch))
    /\ write_vectored(stream, n)
    /\ writes' = writes + 1
    /\ put(dest, stream, old)
    /\ stream' = None
    /\ task' = "delivered"
    /\ UNCHANGED <<dest, batch, attempt, served, opened, peer, server, handed,
                   up>>

\* It fails, on a connection whose other end is gone: once more, or give up.
WriteFails ==
    /\ task = "write" /\ server[stream] # "open"
    /\ pool' = [pool EXCEPT ![dest] = None]
    /\ client' = dropped({stream, pool[dest]})
    /\ stream' = None
    /\ IF attempt = 0 THEN task' = "get" /\ attempt' = 1
       ELSE task' = "failed" /\ UNCHANGED attempt
    /\ UNCHANGED <<dest, batch, writes, served, opened, peer, server, wire,
                   sent, torn, handed, netVars>>

\* Mutant: the timeout also ends a delivery whose write has succeeded.
TimeoutWritten ==
    /\ task \in {"connect", "write", "delivered"}
    /\ client' = dropped({stream})
    /\ stream' = None
    /\ task' = "failed"
    /\ UNCHANGED <<dest, batch, attempt, writes, served, pool, opened, peer,
                   server, wire, sent, torn, handed, netVars>>

\* delivery_timeout_secs pass while it connects or the socket takes nothing.
Timeout ==
    /\ task \in {"connect", "write"}
    /\ client' = dropped({stream})
    /\ stream' = None
    /\ task' = "failed"
    /\ UNCHANGED <<dest, batch, attempt, writes, served, pool, opened, peer,
                   server, wire, sent, torn, handed, netVars>>

\* DELV or FAIL; after FAIL the batch is at the front of the ring again.
Report ==
    /\ task \in {"delivered", "failed"}
    /\ IF task = "delivered" THEN batch' \in Batches /\ writes' = 0
       ELSE UNCHANGED <<batch, writes>>
    /\ task' = "idle"
    /\ UNCHANGED <<dest, attempt, stream, served, pool, connVars, netVars>>

-----------------------------------------------------------------------------
(* serve_data_connection.                                                  *)

\* What read_batch_frame makes of the cells that have arrived: it needs more,
\* it bails, or it has a payload, `rest` being what it leaves.
read_batch_frame(cells) ==
    CASE cells = <<>> -> [kind |-> "more"]
      [] cells # <<>> /\ cells[1] # magic("BATC") -> [kind |-> "bail"]
      [] Len(cells) \in 1..2 /\ cells[1] = magic("BATC") -> [kind |-> "more"]
      [] Len(cells) > 2 /\ cells[1] = magic("BATC") ->
            LET payload_len == cells[3]
            IN  IF payload_len > MaxFrame THEN [kind |-> "bail"]
                ELSE IF Len(cells) < 3 + payload_len THEN [kind |-> "more"]
                ELSE [kind    |-> "frame",
                      payload |-> SubSeq(cells, 4, 3 + payload_len),
                      rest    |-> SubSeq(cells, 4 + payload_len, Len(cells))]

\* A frame is read and parsed, and handed on.
Serve(c) ==
    /\ server[c] = "open"
    /\ LET frame == read_batch_frame(wire[c])
       IN  /\ frame.kind = "frame"
           /\ parse_batch_payload_items(frame.payload).ok
           /\ handed' = [handed EXCEPT ![c] =
                            Append(@, parse_batch_payload_items(frame.payload).items)]
           /\ wire' = [wire EXCEPT ![c] = frame.rest]
    /\ UNCHANGED <<taskVars, pool, opened, peer, client, server, sent, torn,
                   netVars>>

Close(c, state) ==
    /\ server' = [server EXCEPT ![c] = state]
    /\ wire' = [wire EXCEPT ![c] = <<>>]
    /\ UNCHANGED <<taskVars, pool, opened, peer, client, sent, torn, handed>>

\* The reader or the parser bails: the connection is dropped.
Refuse(c) ==
    /\ server[c] = "open"
    /\ LET frame == read_batch_frame(wire[c])
       IN  \/ frame.kind = "bail"
           \/ frame.kind = "frame" /\ ~parse_batch_payload_items(frame.payload).ok
    /\ Close(c, "refused")
    /\ UNCHANGED netVars

\* Mutant: data_idle_secs only bounds the wait for a frame to begin.
IdleTimeoutEmpty(c) ==
    /\ server[c] = "open" /\ wire[c] = <<>>
    /\ Close(c, "gone")
    /\ UNCHANGED netVars

\* data_idle_secs pass, or the producer's end closes, before a frame is whole.
IdleTimeout(c) ==
    /\ server[c] = "open" /\ read_batch_frame(wire[c]).kind = "more"
    /\ Close(c, "gone")
    /\ UNCHANGED netVars

-----------------------------------------------------------------------------
(* Faults.                                                                 *)

\* The connection breaks, with what is in flight.
Break(c) ==
    /\ server[c] = "open" /\ faults < MaxFaults
    /\ faults' = faults + 1
    /\ Close(c, "gone")
    /\ UNCHANGED up

\* A consumer dies, and comes back at the same data_addr.
Die(addr) ==
    /\ addr \in up /\ faults < MaxFaults
    /\ faults' = faults + 1 /\ up' = up \ {addr}
    /\ server' = [c \in Conns |-> IF peer[c] = addr /\ server[c] = "open"
                                  THEN "gone" ELSE server[c]]
    /\ wire' = [c \in Conns |-> IF peer[c] = addr THEN <<>> ELSE wire[c]]
    /\ UNCHANGED <<taskVars, pool, opened, peer, client, sent, torn, handed>>

Restart(addr) ==
    /\ addr \notin up
    /\ up' = up \cup {addr}
    /\ UNCHANGED <<taskVars, pool, connVars, faults>>

-----------------------------------------------------------------------------
\* The destinations whose pooled connection has been idle for too long.
Stale == SUBSET {a \in Addrs : pool[a] # None}

Deliver ==
    \/ \E old \in Stale : Get(old)
    \/ Connect \/ ConnectFails
    \/ \E n \in 1..Len(encode_framed_batch(batch)), old \in Stale : WriteOk(n, old)
    \/ WriteFails \/ Timeout \/ Report

Next ==
    \/ \E addr \in Addrs : Assign(addr) \/ Die(addr) \/ Restart(addr)
    \/ Deliver
    \/ \E c \in Conns : Serve(c) \/ Refuse(c) \/ IdleTimeout(c) \/ Break(c)

Spec == Init /\ [][Next]_vars

\* The tasks of the consumers run and the timer of an idle connection fires.
FairSpec ==
    /\ Spec
    /\ \A c \in Conns : WF_vars(Serve(c) \/ Refuse(c)) /\ WF_vars(IdleTimeout(c))

-----------------------------------------------------------------------------
(* Types.                                                                  *)

TaskOK ==
    /\ task \in {"idle", "get", "connect", "write", "delivered", "failed"}
    /\ dest \in Addrs /\ batch \in Batches /\ attempt \in 0..1
    /\ stream \in {None} \cup 1..opened /\ writes \in Nat /\ served \in Nat
    /\ stream # None <=> task = "write"

ConnsOK ==
    /\ opened \in 0..MaxConns /\ peer \in [Conns -> Addrs]
    /\ client \in [Conns -> {"open", "closed"}]
    /\ server \in [Conns -> {"open", "refused", "gone"}]
    /\ wire \in [Conns -> Cells]
    /\ sent \in [Conns -> Seq(Batches)] /\ torn \in [Conns -> BOOLEAN]
    /\ handed \in [Conns -> Seq(Seq(Seq(Cell)))]
    /\ up \subseteq Addrs /\ faults \in Nat

PoolOK ==
    /\ pool \in [Addrs -> {None} \cup 1..opened]
    /\ \A a \in Addrs : pool[a] # None => peer[pool[a]] = a /\ client[pool[a]] = "open"

\* The delivery holds a connection while it writes and only then, and the pool
\* holds open connections under the address they lead to.
TypeOK == TaskOK /\ ConnsOK /\ PoolOK

-----------------------------------------------------------------------------
(* Safety.                                                                 *)

\* A retry or a FAIL never sends a batch twice: tcp_deliver_batch writes again,
\* and deliver_assign requeues the items, only when not one byte of the batch
\* went out.
SentOnce == writes <= (IF task = "failed" THEN 0 ELSE 1)

\* The frames of the batches that were written and not yet read.
InFlight(c) ==
    FlattenSeq([i \in 1..Len(sent[c]) - Len(handed[c]) |->
                    encode_framed_batch(sent[c][Len(handed[c]) + i])])

\* On a connection whose frames were all written whole, accept_batch gets the
\* batches of the producer, in order and unchanged, and as long as the consumer
\* keeps the connection the others are in flight: a batch reported with DELV
\* is lost only with its connection.
HandedInOrder ==
    \A c \in Conns : ~torn[c] =>
        /\ IsPrefix(handed[c], sent[c])
        /\ server[c] = "open" => wire[c] = InFlight(c)

\* A batch the reader never takes: encode_batch_payload adds to the bytes that
\* drain_for_assign bounds, and it bounds no single item.
TooLarge(items) ==
    \/ Len(encode_batch_payload(items)) > MaxFrame
    \/ \E i \in DOMAIN items : Len(items[i]) > MaxItem

\* read_batch_frame and parse_batch_payload_items refuse nothing that
\* write_framed_batch_vectored wrote whole, but for batches above the limits.
RefusedForCause ==
    \A c \in Conns : server[c] = "refused" /\ ~torn[c] =>
        /\ Len(handed[c]) < Len(sent[c])
        /\ TooLarge(sent[c][Len(handed[c]) + 1])

\* cupidmq.mdc: "1 live TCP per host:port".  At no time does a producer hold
\* two connections to one consumer, in the pool or in a delivery.
OneLive ==
    \A c, d \in Conns :
        client[c] = "open" /\ client[d] = "open" /\ peer[c] = peer[d] => c = d

-----------------------------------------------------------------------------
(* Liveness.                                                               *)

\* A consumer does not sit on a part of a frame: what arrives is handed on, or
\* the connection is closed, also when the rest of a frame never comes.
Unwedged ==
    \A c \in Conns : wire[c] # <<>> ~> wire[c] = <<>>

-----------------------------------------------------------------------------
(* What the sources say of DELV.                                           *)

\* protocol.rs: "batch delivered over TCP".  Every batch reported so has been
\* handed on or is in flight, unless its connection is gone.
DelvDelivered ==
    \A c \in Conns : server[c] = "open" => wire[c] = InFlight(c)
=============================================================================
