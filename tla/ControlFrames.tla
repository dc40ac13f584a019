---------------------------- MODULE ControlFrames ----------------------------
(***************************************************************************)
(* The control plane on the wire: a consumer and a producer connected to   *)
(* the master, the frames they exchange (protocol.rs), and the readers:    *)
(* handle_control, handle_consumer and producer_read_loop of the master    *)
(* (server.rs), and the producer's select! over read_assign_frame          *)
(* (producer/client.rs).  Readers take one cell at a time: TCP may cut a   *)
(* frame anywhere.  What the frames make the master do is in Master.       *)
(***************************************************************************)
EXTENDS Wire, SequencesExt

CONSTANTS
    MaxField,   \* the 256 bytes of read_utf8_field and read_register_payload
    MaxText,    \* bound: length of the texts clients are configured with
    Prefix,     \* length of "connect consumer data " in a failure message
    MaxCrdys,   \* bound: CRDYs sent
    MaxNews     \* bound: PRDYs and heartbeats sent

ASSUME FramesAssumption ==
    /\ {MaxField, MaxText, Prefix, MaxCrdys, MaxNews} \subseteq Nat
    /\ MaxField < Word /\ MaxText < Word
    /\ Prefix + MaxField < Word  \* no failure message is cut by encode_failed

\* Streams to the master, and the one from it; "producer" and "assign" are the
\* two directions of one connection.
Streams == {"consumer", "producer", "assign"}

VARIABLES
    wire,     \* cells written and not yet read
    got,      \* cells the read under way has taken
    written,  \* history: frames written
    read,     \* frames that were read
    closed,   \* connections that a reader gave up
    torn      \* history: a partly read ASGN was lost

vars == <<wire, got, written, read, closed, torn>>

Init ==
    /\ wire = [s \in Streams |-> <<>>] /\ got = [s \in Streams |-> <<>>]
    /\ written = [s \in Streams |-> <<>>] /\ read = [s \in Streams |-> <<>>]
    /\ closed = {} /\ torn = FALSE

Conn(s) == IF s = "consumer" THEN "consumer" ELSE "producer"

-----------------------------------------------------------------------------
(* Frames: a magic, numbers, and texts behind their lengths.               *)

Numbers == [t \in {"REG!", "CRDY", "PRDY", "HBRP", "DELV", "FAIL", "ASGN"} |->
    CASE t \in {"REG!", "PRDY"} -> 0 [] t \in {"CRDY", "ASGN"} -> 1
      [] t = "DELV" -> 2 [] t = "FAIL" -> 3 [] t = "HBRP" -> 5]

Texts == [t \in DOMAIN Numbers |->
    CASE t = "ASGN" -> 2 [] t \in {"REG!", "CRDY", "FAIL"} -> 1
      [] t \in {"PRDY", "HBRP", "DELV"} -> 0]

\* The k-th text of a frame is a data_addr, which is not empty.
IsAddr(type, k) == type = "REG!" \/ (type = "ASGN" /\ k = 2)

\* Numbers are data: any one will do.
Frame(type, texts) ==
    [type |-> type, nums |-> [i \in 1..Numbers[type] |-> 1], texts |-> texts]

\* encode_register, encode_consumer_ready, encode_producer_ready,
\* encode_heartbeat, encode_delivered, encode_failed and encode_assign.
encode(f) ==
    <<magic(f.type)>> \o [i \in DOMAIN f.nums |-> word(f.nums[i])]
        \o encoded(f.texts)

\* Mutant: only read_utf8_field has a limit.
too_long_utf8(type, k, len) ==
    \/ type # "REG!" /\ len > MaxField
    \/ IsAddr(type, k) /\ len = 0

\* What read_utf8_field, read_register_payload and read_assign_payload say to
\* the length of the k-th text.
too_long(type, k, len) == len > MaxField \/ (IsAddr(type, k) /\ len = 0)

\* The k-th of at most two texts: the cells in front of it, whether its length
\* has been read, and whether the whole of it has.
before(type, cells, k) ==
    LET first == 1 + Numbers[type]
    IN  IF k = 1 THEN first ELSE first + 1 + cells[first + 1]

begun(type, cells, k) == Len(cells) > before(type, cells, k)

text_len(type, cells, k) == cells[before(type, cells, k) + 1]

whole(type, cells, k) ==
    /\ begun(type, cells, k)
    /\ Len(cells) >= before(type, cells, k) + 1 + text_len(type, cells, k)

text(type, cells, k) ==
    LET at == before(type, cells, k)
    IN  SubSeq(cells, at + 2, at + 1 + text_len(type, cells, k))

\* A length is refused as soon as it has been read.
refused(type, cells) ==
    \E k \in 1..Texts[type] :
        /\ \A j \in 1..k - 1 : whole(type, cells, j)
        /\ begun(type, cells, k)
        /\ too_long(type, k, text_len(type, cells, k))

\* What a reader that expects one of `types` makes of the cells it has: it
\* waits for more, bails, or has a frame.
read_frame(types, cells) ==
    LET type == CHOOSE t \in types : magic(t) = cells[1]
        last == 1 + Numbers[type]
    IN  IF \A t \in types : magic(t) # cells[1] THEN [kind |-> "bail"]
        ELSE IF refused(type, cells) THEN [kind |-> "bail"]
        ELSE IF /\ Len(cells) >= last
                /\ \A k \in 1..Texts[type] : whole(type, cells, k)
             THEN [kind |-> "frame",
                   frame |-> [type |-> type, nums |-> SubSeq(cells, 2, last),
                              texts |-> [k \in 1..Texts[type] |->
                                            text(type, cells, k)]]]
        ELSE [kind |-> "more"]

\* The frames a stream may carry next: REG! and then CRDYs from a consumer,
\* which handle_control tells from a producer by the first magic.
Expected(s) ==
    CASE s = "consumer" /\ read[s] = <<>> -> {"REG!"}
      [] s = "consumer" /\ read[s] # <<>> -> {"CRDY"}
      [] s = "producer" -> {"PRDY", "HBRP", "DELV", "FAIL"}
      [] s = "assign" -> {"ASGN"}

-----------------------------------------------------------------------------
(* Writers.                                                                *)

Write(s, f) ==
    /\ Conn(s) \notin closed
    /\ wire' = [wire EXCEPT ![s] = @ \o encode(f)]
    /\ written' = [written EXCEPT ![s] = Append(@, f)]
    /\ UNCHANGED <<got, read, closed, torn>>

Text(n) == [i \in 1..n |-> 1]

\* A consumer registers, with the data_addr of its configuration, and asks.
SendRegister(n) ==
    /\ written["consumer"] = <<>> /\ n > 0
    /\ Write("consumer", Frame("REG!", <<Text(n)>>))

SendCrdy(n) ==
    /\ Len(written["consumer"]) \in 1..MaxCrdys
    /\ Write("consumer", Frame("CRDY", <<Text(n)>>))

\* The master answers a CRDY with the texts it has read.
SendAssign ==
    /\ Len(written["assign"]) < Len(read["consumer"]) - 1
    /\ LET crdy == read["consumer"][Len(written["assign"]) + 2]
           reg  == read["consumer"][1]
       IN  Write("assign", Frame("ASGN", <<crdy.texts[1], reg.texts[1]>>))

Count(s, types, seq) == Cardinality({i \in DOMAIN seq[s] : seq[s][i].type \in types})

\* A producer has news, or reports the end of a delivery; a connection that
\* fails is named in the report.
SendNews(type) ==
    /\ Count("producer", {"PRDY", "HBRP"}, written) < MaxNews
    /\ Write("producer", Frame(type, <<>>))

Unreported ==
    Count("producer", {"DELV", "FAIL"}, written) < Len(read["assign"])

SendDelivered ==
    Unreported /\ Write("producer", Frame("DELV", <<>>))

SendFailed ==
    /\ Unreported
    /\ LET asgn == read["assign"][Count("producer", {"DELV", "FAIL"}, written) + 1]
       IN  Write("producer",
                 Frame("FAIL", <<Text(Prefix) \o asgn.texts[2]>>))

-----------------------------------------------------------------------------
(* Readers.                                                                *)

\* Mutant: a cell that is no magic is skipped.
TakeSkipping(s) ==
    /\ Conn(s) \notin closed /\ wire[s] # <<>>
    /\ wire' = [wire EXCEPT ![s] = Tail(@)]
    /\ LET cells == Append(got[s], Head(wire[s]))
           r     == read_frame(Expected(s), cells)
       IN  /\ got' = [got EXCEPT ![s] = IF r.kind = "more" THEN cells ELSE <<>>]
           /\ read' = IF r.kind = "frame"
                      THEN [read EXCEPT ![s] = Append(@, r.frame)] ELSE read
           /\ closed' = IF r.kind = "bail" /\ Len(cells) > 1
                        THEN closed \cup {Conn(s)} ELSE closed
    /\ UNCHANGED <<written, torn>>

\* Mutant: the buffer is not emptied behind a frame.
TakeKept(s) ==
    /\ Conn(s) \notin closed /\ wire[s] # <<>>
    /\ wire' = [wire EXCEPT ![s] = Tail(@)]
    /\ LET cells == Append(got[s], Head(wire[s]))
           r     == read_frame(Expected(s), cells)
       IN  /\ got' = [got EXCEPT ![s] = cells]
           /\ read' = IF r.kind = "frame"
                      THEN [read EXCEPT ![s] = Append(@, r.frame)] ELSE read
           /\ closed' = IF r.kind = "bail" THEN closed \cup {Conn(s)} ELSE closed
    /\ UNCHANGED <<written, torn>>

\* The next cell is read; the read ends with a frame, or with an error that
\* closes the connection.
Take(s) ==
    /\ Conn(s) \notin closed /\ wire[s] # <<>>
    /\ wire' = [wire EXCEPT ![s] = Tail(@)]
    /\ LET cells == Append(got[s], Head(wire[s]))
           r     == read_frame(Expected(s), cells)
       IN  /\ got' = [got EXCEPT ![s] = IF r.kind = "more" THEN cells ELSE <<>>]
           /\ read' = IF r.kind = "frame"
                      THEN [read EXCEPT ![s] = Append(@, r.frame)] ELSE read
           /\ closed' = IF r.kind = "bail" THEN closed \cup {Conn(s)} ELSE closed
    /\ UNCHANGED <<written, torn>>

\* Another branch of the producer's select! is ready while read_assign_frame
\* waits: the read is dropped, with the cells it has taken.
Cancel ==
    /\ Conn("assign") \notin closed /\ got["assign"] # <<>>
    /\ got' = [got EXCEPT !["assign"] = <<>>]
    /\ torn' = TRUE
    /\ UNCHANGED <<wire, written, read, closed>>

-----------------------------------------------------------------------------
Next ==
    \/ \E n \in 0..MaxText : SendRegister(n) \/ SendCrdy(n)
    \/ SendAssign \/ SendDelivered \/ SendFailed
    \/ \E type \in {"PRDY", "HBRP"} : SendNews(type)
    \/ \E s \in Streams : Take(s)
    \/ Cancel

Spec == Init /\ [][Next]_vars

\* What is written arrives, and the readers run.
FairSpec == Spec /\ \A s \in Streams : WF_vars(Take(s))

-----------------------------------------------------------------------------
(* Types.                                                                  *)

Frames ==
    [type : DOMAIN Numbers, nums : Seq(Cell), texts : Seq(Seq(Cell))]

\* Streams carry cells and frames; a read under way has taken cells only where
\* the frame is not whole, and the ends of a connection close together.
TypeOK ==
    /\ wire \in [Streams -> Cells] /\ got \in [Streams -> Cells]
    /\ written \in [Streams -> Seq(Frames)] /\ read \in [Streams -> Seq(Frames)]
    /\ closed \subseteq {"consumer", "producer"} /\ torn \in BOOLEAN
    /\ \A s \in Streams :
          got[s] # <<>> => read_frame(Expected(s), got[s]).kind = "more"

-----------------------------------------------------------------------------
(* Safety.                                                                 *)

\* Every reader hands on the frames its peer wrote, unchanged and in order: a
\* producer never acts on a frame put together from two ASGNs, although select!
\* can drop a read half-way, nor on an ASGN behind the one that was lost.
ReadBack == \A s \in Streams : IsPrefix(read[s], written[s])

\* The frame that the reader of a stream has not got past.
Stuck(s) == written[s][Len(read[s]) + 1]

Overlong(f) == \E k \in DOMAIN f.texts : Len(f.texts[k]) > MaxField

\* A connection is given up for a cause: a torn ASGN, or a text above the
\* limit, which encode_* do not have.  No ASGN is one: a data_addr or tag that
\* a producer could not read has closed the connection of the consumer that
\* sent it.
ClosedForCause ==
    \A c \in closed :
        \/ c = "producer" /\ torn
        \/ Len(read[c]) < Len(written[c]) /\ Overlong(Stuck(c))

-----------------------------------------------------------------------------
(* Liveness.                                                               *)

\* No frame is left behind: it is read, or its connection is closed, so that a
\* consumer whose ASGN was torn is put back when the master sees the end of
\* the producer's connection.
AllRead ==
    \A s \in Streams :
        Len(read[s]) < Len(written[s])
            ~> Len(read[s]) = Len(written[s]) \/ Conn(s) \in closed
=============================================================================
