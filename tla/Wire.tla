-------------------------------- MODULE Wire --------------------------------
(***************************************************************************)
(* master/src/protocol.rs: what the frames are made of.  A frame is a      *)
(* sequence of cells.  A magic, a count, a length and a byte of text or    *)
(* payload are one cell each; counts and lengths are written modulo Word,  *)
(* as the casts to u16 and u32 do.  A magic that is read as a length is    *)
(* above every limit, as "BATC" read as a u32 is.                          *)
(***************************************************************************)
EXTENDS Integers, Sequences, Functions

CONSTANTS
    Word,       \* 2^16 of a count, 2^32 of a length
    MaxItem,    \* MAX_INGRESS_ITEM_BYTES
    MaxFrame    \* MAX_INGRESS_BATCH_FRAME_BYTES

ASSUME WireAssumption ==
    /\ {Word, MaxItem, MaxFrame} \subseteq Nat \ {0}
    /\ MaxItem < Word /\ MaxFrame < Word

Cell  == Nat
Cells == Seq(Cell)

Types == <<"BATC", "REG!", "CRDY", "PRDY", "HBRP", "DELV", "FAIL", "ASGN">>

magic(type) == Word + (CHOOSE i \in DOMAIN Types : Types[i] = type)

word(n) == n % Word

\* The cells of a text or payload behind its length.
counted(s) == <<word(Len(s))>> \o s

-----------------------------------------------------------------------------
(* BATC: a count and the length of the payload, then the payload, which is *)
(* the count again and the items, each behind its length.                  *)

\* The first k items of a payload.
encoded(items) ==
    LET f[k \in 0..Len(items)] ==
            IF k = 0 THEN <<>> ELSE f[k - 1] \o counted(items[k])
    IN  f[Len(items)]

encode_batch_payload(items) == <<word(Len(items))>> \o encoded(items)

\* What write_framed_batch_vectored hands to write_vectored.
encode_framed_batch(items) ==
    LET payload == encode_batch_payload(items)
    IN  <<magic("BATC"), word(Len(items)), word(Len(payload))>> \o payload

Refused == [ok |-> FALSE, items |-> <<>>]

\* Mutant: the limit on an item is exclusive.
parse_batch_payload_items_tight(payload) ==
    LET fits(at) == /\ at < Len(payload)
                    /\ payload[at + 1] \in 1..MaxItem - 1
                    /\ at + 1 + payload[at + 1] <= Len(payload)
        item(at) == SubSeq(payload, at + 2, at + 1 + payload[at + 1])
        f[left \in Nat] ==
            [at \in Nat |->
                IF left = 0 THEN [ok |-> TRUE, items |-> <<>>]
                ELSE IF ~fits(at) THEN Refused
                ELSE [f[left - 1][at + 1 + payload[at + 1]]
                        EXCEPT !.items = <<item(at)>> \o @]]
    IN  IF payload = <<>> THEN Refused ELSE f[payload[1]][1]

\* Mutant: the length of an item is not skipped.
parse_batch_payload_items_shifted(payload) ==
    LET fits(at) == /\ at < Len(payload)
                    /\ payload[at + 1] \in 1..MaxItem
                    /\ at + 1 + payload[at + 1] <= Len(payload)
        item(at) == SubSeq(payload, at + 1, at + payload[at + 1])
        f[left \in Nat] ==
            [at \in Nat |->
                IF left = 0 THEN [ok |-> TRUE, items |-> <<>>]
                ELSE IF ~fits(at) THEN Refused
                ELSE [f[left - 1][at + 1 + payload[at + 1]]
                        EXCEPT !.items = <<item(at)>> \o @]]
    IN  IF payload = <<>> THEN Refused ELSE f[payload[1]][1]

\* parse_batch_payload_items: `left` items are still to come behind the first
\* `at` cells.  Cells behind the last item are ignored.
parse_batch_payload_items(payload) ==
    LET fits(at) == /\ at < Len(payload)
                    /\ payload[at + 1] \in 1..MaxItem
                    /\ at + 1 + payload[at + 1] <= Len(payload)
        item(at) == SubSeq(payload, at + 2, at + 1 + payload[at + 1])
        f[left \in Nat] ==
            [at \in Nat |->
                IF left = 0 THEN [ok |-> TRUE, items |-> <<>>]
                ELSE IF ~fits(at) THEN Refused
                ELSE [f[left - 1][at + 1 + payload[at + 1]]
                        EXCEPT !.items = <<item(at)>> \o @]]
    IN  IF payload = <<>> THEN Refused ELSE f[payload[1]][1]
=============================================================================
