------------------------- MODULE ProducerQueueProofs -------------------------
(***************************************************************************)
(* Theorems about ProducerQueue, for every cap, batch size and number of   *)
(* messages: the queues hold messages and the mutex protects them, both    *)
(* byte counts are exact and within the cap, and the producer implements   *)
(* Outbox, from which the order of the messages and the drop counters      *)
(* follow.                                                                 *)
(***************************************************************************)
EXTENDS ProducerQueue, Induction, SequenceTheorems

Messages == Seq(Message)

-----------------------------------------------------------------------------
(* Sequences of messages, and parts of them.                               *)

LEMMA Joined ==
    ASSUME NEW s \in Messages, NEW t \in Messages
    PROVE  /\ s \o t \in Messages /\ Len(s \o t) = Len(s) + Len(t)
           /\ Len(s) \in Nat /\ Len(t) \in Nat
           /\ \A i \in 1..Len(s) : (s \o t)[i] = s[i]
           /\ \A i \in 1..Len(t) : (s \o t)[Len(s) + i] = t[i]
  BY DEF Messages

LEMMA Entries ==
    ASSUME NEW s \in Messages
    PROVE  /\ Len(s) \in Nat
           /\ \A i \in 1..Len(s) : s[i] \in Message /\ s[i].id \in Nat
                                   /\ s[i].size \in Nat
<1>1. Len(s) \in Nat /\ \A i \in 1..Len(s) : s[i] \in Message
  BY DEF Messages
<1>2. \A m \in Message : m.id \in Nat /\ m.size \in Nat
  BY DEF Message
<1> QED  BY <1>1, <1>2

LEMMA Same ==
    ASSUME NEW s \in Messages, NEW t \in Messages, Len(s) = Len(t),
           \A i \in 1..Len(s) : s[i] = t[i]
    PROVE  s = t
  BY SeqEqual DEF Messages

LEMMA Regroup ==
    ASSUME NEW s \in Messages, NEW t \in Messages, NEW u \in Messages
    PROVE  (s \o t) \o u = s \o (t \o u)
  BY ConcatAssociative DEF Messages

LEMMA Nothing ==
    /\ <<>> \in Messages /\ Len(<<>>) = 0
    /\ \A s \in Messages : s \o <<>> = s /\ <<>> \o s = s /\ (Len(s) = 0 <=> s = <<>>)
  BY EmptySeq, ConcatEmptySeq DEF Messages

LEMMA One ==
    ASSUME NEW m \in Message
    PROVE  /\ <<m>> \in Messages /\ Len(<<m>>) = 1 /\ <<m>>[1] = m
           /\ \A s \in Messages : Append(s, m) = s \o <<m>>
<1>1. <<m>> \in Messages /\ Len(<<m>>) = 1 /\ <<m>>[1] = m
  BY DEF Messages
<1>2. ASSUME NEW s \in Messages PROVE Append(s, m) = s \o <<m>>
  BY AppendIsConcat DEF Messages
<1> QED  BY <1>1, <1>2

LEMMA SameOne ==
    ASSUME NEW s \in Messages, Len(s) = 1, NEW m \in Message, s[1] = m
    PROVE  s = <<m>>
<1>1. <<m>> \in Messages /\ Len(<<m>>) = 1 /\ <<m>>[1] = m
  BY One
<1>2. \A i \in 1..1 : i = 1
  OBVIOUS
<1> DEFINE t == <<m>>
<1> HIDE DEF t
<1>3. t \in Messages /\ Len(t) = 1 /\ t[1] = m
  BY <1>1 DEF t
<1>4. s = t
  BY <1>2, <1>3, Same
<1> QED  BY <1>4 DEF t

\* A sequence is its first n entries and the others.
LEMMA Parts ==
    ASSUME NEW s \in Messages, NEW n \in 0..Len(s)
    PROVE  /\ First(s, n) \in Messages /\ Len(First(s, n)) = n
           /\ \A i \in 1..n : First(s, n)[i] = s[i]
           /\ Without(s, n) \in Messages /\ Len(Without(s, n)) = Len(s) - n
           /\ \A i \in 1..Len(s) - n : Without(s, n)[i] = s[n + i]
           /\ s = First(s, n) \o Without(s, n)
<1>1. Len(s) \in Nat /\ \A i \in 1..Len(s) : s[i] \in Message
  BY DEF Messages
<1>2. /\ First(s, n) \in Messages /\ Len(First(s, n)) = n
      /\ \A i \in 1..n : First(s, n)[i] = s[i]
  BY <1>1 DEF First, Messages
<1>3. /\ Without(s, n) \in Messages /\ Len(Without(s, n)) = Len(s) - n
      /\ \A i \in 1..Len(s) - n : Without(s, n)[i] = s[n + i]
  BY <1>1 DEF Without, Messages
<1> DEFINE a == First(s, n)
           b == Without(s, n)
<1> HIDE DEF a, b
<1>4. /\ a \in Messages /\ Len(a) = n /\ \A i \in 1..n : a[i] = s[i]
      /\ b \in Messages /\ Len(b) = Len(s) - n
      /\ \A i \in 1..Len(s) - n : b[i] = s[n + i]
  BY <1>2, <1>3 DEF a, b
<1>5. a \o b \in Messages /\ Len(a \o b) = Len(s)
  <2>1. a \o b \in Messages /\ Len(a \o b) = Len(a) + Len(b)
    BY <1>4, Joined
  <2>2. n + (Len(s) - n) = Len(s)
    BY <1>1
  <2> QED  BY <1>4, <2>1, <2>2
<1>6. ASSUME NEW i \in 1..Len(s) PROVE s[i] = (a \o b)[i]
  <2>1. CASE i \in 1..n
    BY <1>4, <2>1, Joined
  <2>2. CASE i \notin 1..n
    <3>1. i - n \in 1..Len(b) /\ n + (i - n) = i
      BY <1>1, <1>4, <2>2
    <3>2. (a \o b)[n + (i - n)] = b[i - n]
      BY <1>4, <3>1, Joined
    <3>3. b[i - n] = s[n + (i - n)]
      BY <1>4, <3>1
    <3> QED  BY <3>1, <3>2, <3>3
  <2> QED  BY <2>1, <2>2
<1>7. s = a \o b
  BY <1>5, <1>6, Same
<1> QED  BY <1>2, <1>3, <1>7 DEF a, b

\* Parts of sequences laid one behind the other.
LEMMA PartsOfJoined ==
    ASSUME NEW s \in Messages, NEW t \in Messages
    PROVE  First(s \o t, Len(s)) = s /\ Without(s \o t, Len(s)) = t
<1> DEFINE u == s \o t
<1>1. u \in Messages /\ Len(u) = Len(s) + Len(t) /\ Len(s) \in Nat /\ Len(t) \in Nat
  BY Joined
<1>2. Len(s) \in 0..Len(u)
  BY <1>1
<1> HIDE DEF u
<1>3. First(u, Len(s)) = s
  <2>1. /\ First(u, Len(s)) \in Messages /\ Len(First(u, Len(s))) = Len(s)
        /\ \A i \in 1..Len(s) : First(u, Len(s))[i] = u[i]
    BY <1>1, <1>2, Parts
  <2>2. \A i \in 1..Len(s) : u[i] = s[i]
    BY Joined DEF u
  <2> QED  BY <2>1, <2>2, Same
<1>4. Without(u, Len(s)) = t
  <2>1. /\ Without(u, Len(s)) \in Messages /\ Len(Without(u, Len(s))) = Len(t)
        /\ \A i \in 1..Len(t) : Without(u, Len(s))[i] = u[Len(s) + i]
    <3>1. Len(u) - Len(s) = Len(t)
      BY <1>1
    <3>2. /\ Without(u, Len(s)) \in Messages
          /\ Len(Without(u, Len(s))) = Len(u) - Len(s)
          /\ \A i \in 1..Len(u) - Len(s) : Without(u, Len(s))[i] = u[Len(s) + i]
      BY <1>1, <1>2, Parts
    <3> QED  BY <3>1, <3>2
  <2>2. \A i \in 1..Len(t) : u[Len(s) + i] = t[i]
    BY Joined DEF u
  <2> QED  BY <2>1, <2>2, Same
<1> QED  BY <1>3, <1>4 DEF u

\* The first entry and the others; the last entry and the others.
LEMMA Ends ==
    ASSUME NEW s \in Messages, s # <<>>
    PROVE  /\ Len(s) \in Nat \ {0} /\ 1 \in 0..Len(s) /\ Len(s) - 1 \in 0..Len(s)
           /\ Head(s) \in Message /\ Tail(s) \in Messages /\ Head(s) = s[1]
           /\ Len(Tail(s)) = Len(s) - 1
           /\ s = <<Head(s)>> \o Tail(s)
           /\ Tail(s) = Without(s, 1) /\ First(s, 1) = <<Head(s)>>
           /\ s[Len(s)] \in Message /\ First(s, Len(s) - 1) \in Messages
           /\ s = First(s, Len(s) - 1) \o <<s[Len(s)]>>
<1>1. Len(s) \in Nat \ {0} /\ 1 \in 0..Len(s) /\ Len(s) - 1 \in 0..Len(s)
  BY DEF Messages
<1>2. s[1] \in Message /\ s[Len(s)] \in Message /\ Head(s) = s[1]
  BY <1>1 DEF Messages
<1>3. Tail(s) = Without(s, 1)
  BY <1>1, TailIsSubSeq DEF Without, Messages
<1>4. First(s, 1) = <<s[1]>>
  <2>1. /\ First(s, 1) \in Messages /\ Len(First(s, 1)) = 1
        /\ \A i \in 1..1 : First(s, 1)[i] = s[i]
    BY <1>1, Parts
  <2> QED  BY <1>2, <2>1, SameOne
<1>5. Without(s, Len(s) - 1) = <<s[Len(s)]>>
  <2> DEFINE n == Len(s) - 1
  <2>1. n \in 0..Len(s) /\ Len(s) - n = 1 /\ n + 1 = Len(s) /\ 1 \in 1..1
    BY <1>1
  <2> HIDE DEF n
  <2>2. /\ Without(s, n) \in Messages /\ Len(Without(s, n)) = Len(s) - n
        /\ \A i \in 1..Len(s) - n : Without(s, n)[i] = s[n + i]
    BY <2>1, Parts
  <2>3. Without(s, n) = <<s[Len(s)]>>
    BY <1>2, <2>1, <2>2, SameOne
  <2> QED  BY <2>3 DEF n
<1>6. /\ s = First(s, 1) \o Without(s, 1) /\ Len(Without(s, 1)) = Len(s) - 1
      /\ s = First(s, Len(s) - 1) \o Without(s, Len(s) - 1)
      /\ First(s, Len(s) - 1) \in Messages /\ Without(s, 1) \in Messages
  BY <1>1, Parts
<1> QED  BY <1>1, <1>2, <1>3, <1>4, <1>5, <1>6

-----------------------------------------------------------------------------
(* Sums of sizes.                                                          *)

\* f[n] is the sum of the sizes of the first n messages of s.
Sums(f, s) ==
    /\ f \in [0..Len(s) -> Nat] /\ f[0] = 0
    /\ \A n \in 1..Len(s) : f[n] = f[n - 1] + s[n].size

\* t is what s has behind its first a messages, perhaps not to the end.
Behind(t, s, a) ==
    a + Len(t) <= Len(s) /\ \A i \in 1..Len(t) : t[i] = s[a + i]

\* Then its sums are those of s from there on.
LEMMA SumsShift ==
    ASSUME NEW s \in Messages, NEW t \in Messages, NEW a \in 0..Len(s),
           Behind(t, s, a), NEW f, Sums(f, s), NEW g, Sums(g, t)
    PROVE  \A k \in 0..Len(t) : f[a + k] = f[a] + g[k]
<1>1. Len(s) \in Nat /\ Len(t) \in Nat /\ a \in Nat /\ f[a] \in Nat /\ g[0] = 0
  BY DEF Messages, Sums
<1>0. a + Len(t) <= Len(s) /\ \A i \in 1..Len(t) : t[i] = s[a + i]
  BY DEF Behind
<1> DEFINE T == {k \in Nat : k <= Len(t) => f[a + k] = f[a] + g[k]}
<1>2. 0 \in T
  BY <1>1
<1>3. ASSUME NEW k \in T PROVE k + 1 \in T
  <2> SUFFICES ASSUME k + 1 <= Len(t)
               PROVE  f[a + (k + 1)] = f[a] + g[k + 1]
    BY <1>3
  <2>1. /\ k \in Nat /\ k + 1 \in 1..Len(t) /\ (k + 1) - 1 = k
        /\ k \in 0..Len(t) /\ k <= Len(t)
        /\ a + (k + 1) \in 1..Len(s) /\ a + (k + 1) - 1 = a + k
        /\ a + k \in 0..Len(s)
    BY <1>0, <1>1, <1>3
  <2>2. f[a + (k + 1)] = f[a + k] + s[a + (k + 1)].size
    BY <2>1 DEF Sums
  <2>3. g[k + 1] = g[k] + t[k + 1].size
    BY <2>1 DEF Sums
  <2>4. t[k + 1] = s[a + (k + 1)] /\ t[k + 1] \in Message
    BY <1>0, <2>1, Entries
  <2>5. f[a + k] = f[a] + g[k]
    BY <1>3, <2>1
  <2>6. t[k + 1].size \in Nat /\ g[k] \in Nat
    BY <2>1, <2>4 DEF Message, Sums
  <2> QED  BY <1>1, <2>2, <2>3, <2>4, <2>5, <2>6
<1>4. T \in SUBSET Nat
  OBVIOUS
<1>5. \A k \in Nat : k \in T
  <2> HIDE DEF T
  <2> QED  BY <1>2, <1>3, <1>4, SetInduction
<1> QED  BY <1>1, <1>5

LEMMA SumsExist ==
    ASSUME NEW s \in Messages
    PROVE  \E f : Sums(f, s)
<1> DEFINE n == Len(s)
           step == [k \in Nat |-> [x \in Nat |->
                        IF k + 1 \in 1..n THEN x + s[k + 1].size ELSE x]]
<1>1. n \in Nat /\ \A i \in 1..n : s[i].size \in Nat
  BY Entries
<1>2. step \in [Nat -> [Nat -> Nat]]
  BY <1>1
<1>3. PICK h : Recursive(h, Nat, 0, step)
  <2> HIDE DEF step
  <2> QED  BY <1>2, Recursion
<1> DEFINE g == [k \in 0..n |-> h[k]]
<1>4. ASSUME NEW k \in 1..n PROVE g[k] = g[k - 1] + s[k].size
  <2>1. k - 1 \in Nat /\ (k - 1) + 1 = k /\ k - 1 \in 0..n /\ k \in 0..n
    BY <1>1
  <2>2. h[k] = step[k - 1][h[k - 1]]
    BY <1>3, <2>1 DEF Recursive
  <2>3. step[k - 1][h[k - 1]] = h[k - 1] + s[k].size
    BY <1>3, <2>1 DEF Recursive
  <2> QED  BY <2>1, <2>2, <2>3
<1>5. g[0] = 0 /\ g \in [0..n -> Nat]
  BY <1>1, <1>3 DEF Recursive
<1>6. Sums(g, s)
  BY <1>4, <1>5 DEF Sums
<1> QED  BY <1>6

\* The recursive function of Bytes exists: Bytes is the last of the sums.
LEMMA BytesSum ==
    ASSUME NEW s \in Messages
    PROVE  \E f : Sums(f, s) /\ Bytes(s) = f[Len(s)]
<1> DEFINE n == Len(s)
           f[k \in 0..n] == IF k = 0 THEN 0 ELSE f[k - 1] + s[k].size
<1>1. n \in Nat /\ \A i \in 1..n : s[i].size \in Nat
  BY Entries
<1>2. PICK g : Sums(g, s)
  BY SumsExist
<1>3. g = [k \in 0..n |-> IF k = 0 THEN 0 ELSE g[k - 1] + s[k].size]
  <2>1. ASSUME NEW k \in 0..n
        PROVE  g[k] = IF k = 0 THEN 0 ELSE g[k - 1] + s[k].size
    <3>1. k = 0 \/ k \in 1..n
      BY <1>1
    <3> QED  BY <1>2, <3>1 DEF Sums
  <2> QED  BY <1>2, <2>1 DEF Sums
<1>4. f = [k \in 0..n |-> IF k = 0 THEN 0 ELSE f[k - 1] + s[k].size]
  BY <1>3
<1>5. Bytes(s) = f[n]
  BY DEF Bytes
<1> HIDE DEF f
<1>6. f[0] = 0
  BY <1>1, <1>4
<1>7. ASSUME NEW k \in 1..n PROVE f[k] = f[k - 1] + s[k].size
  <2>1. k \in 0..n /\ k # 0
    BY <1>1
  <2> QED  BY <1>4, <2>1
<1>8. \A k \in Nat : k \in {i \in Nat : i <= n => f[i] = g[i]}
  <2> DEFINE T == {i \in Nat : i <= n => f[i] = g[i]}
  <2>1. 0 \in T
    BY <1>2, <1>6 DEF Sums
  <2>2. ASSUME NEW k \in T PROVE k + 1 \in T
    <3> SUFFICES ASSUME k + 1 <= n PROVE f[k + 1] = g[k + 1]
      BY <2>2
    <3>1. k \in Nat /\ k + 1 \in 1..n /\ (k + 1) - 1 = k /\ k <= n
      BY <1>1, <2>2
    <3>2. f[k + 1] = f[k] + s[k + 1].size /\ g[k + 1] = g[k] + s[k + 1].size
      BY <1>2, <1>7, <3>1 DEF Sums
    <3> QED  BY <2>2, <3>1, <3>2
  <2>3. T \in SUBSET Nat
    OBVIOUS
  <2>4. \A k \in Nat : k \in T
    <3> HIDE DEF T
    <3> QED  BY <2>1, <2>2, <2>3, SetInduction
  <2> QED  BY <2>4
<1>9. f[n] = g[n]
  BY <1>1, <1>8
<1> QED  BY <1>2, <1>5, <1>9

LEMMA BytesNat ==
    ASSUME NEW s \in Messages
    PROVE  Bytes(s) \in Nat
<1>1. PICK f : Sums(f, s) /\ Bytes(s) = f[Len(s)]
  BY BytesSum
<1>2. Len(s) \in 0..Len(s)
  BY DEF Messages
<1> QED  BY <1>1, <1>2 DEF Sums

\* Bytes of sequences one behind the other.
LEMMA BytesJoined ==
    ASSUME NEW s \in Messages, NEW t \in Messages
    PROVE  Bytes(s \o t) = Bytes(s) + Bytes(t)
<1> DEFINE u == s \o t
<1>1. /\ u \in Messages /\ Len(u) = Len(s) + Len(t)
      /\ Len(s) \in Nat /\ Len(t) \in Nat
      /\ \A i \in 1..Len(s) : u[i] = s[i]
      /\ \A i \in 1..Len(t) : u[Len(s) + i] = t[i]
  BY Joined
<1> HIDE DEF u
<1>2. PICK f : Sums(f, s) /\ Bytes(s) = f[Len(s)]
  BY BytesSum
<1>3. PICK g : Sums(g, t) /\ Bytes(t) = g[Len(t)]
  BY BytesSum
<1>4. PICK h : Sums(h, u) /\ Bytes(u) = h[Len(u)]
  BY <1>1, BytesSum
<1>5. h[Len(s)] = f[Len(s)]
  <2>1. 0 \in 0..Len(u) /\ 0 + Len(s) <= Len(u) /\ Len(s) \in 0..Len(s)
    BY <1>1
  <2>2. Behind(s, u, 0)
    BY <1>1, <2>1 DEF Behind
  <2>3. \A k \in 0..Len(s) : h[0 + k] = h[0] + f[k]
    BY <1>1, <1>2, <1>4, <2>1, <2>2, SumsShift
  <2>4. h[0] = 0 /\ f[Len(s)] \in Nat /\ 0 + Len(s) = Len(s)
    BY <1>1, <1>2, <1>4, <2>1 DEF Sums
  <2>5. h[0 + Len(s)] = h[0] + f[Len(s)]
    BY <2>1, <2>3
  <2> QED  BY <2>4, <2>5
<1>6. h[Len(s) + Len(t)] = h[Len(s)] + g[Len(t)]
  <2>1. /\ Len(s) \in 0..Len(u) /\ Len(s) + Len(t) <= Len(u)
        /\ Len(t) \in 0..Len(t)
    BY <1>1
  <2>2. Behind(t, u, Len(s))
    BY <1>1, <2>1 DEF Behind
  <2>3. \A k \in 0..Len(t) : h[Len(s) + k] = h[Len(s)] + g[k]
    BY <1>1, <1>3, <1>4, <2>1, <2>2, SumsShift
  <2> QED  BY <2>1, <2>3
<1> QED  BY <1>1, <1>2, <1>3, <1>4, <1>5, <1>6 DEF u

LEMMA BytesSmall ==
    Bytes(<<>>) = 0 /\ \A m \in Message : Bytes(<<m>>) = m.size
<1>1. Bytes(<<>>) = 0
  <2> DEFINE s == <<>>
  <2>1. s \in Messages /\ Len(s) = 0
    BY Nothing
  <2> HIDE DEF s
  <2>2. PICK f : Sums(f, s) /\ Bytes(s) = f[Len(s)]
    BY <2>1, BytesSum
  <2>3. Bytes(s) = 0
    BY <2>1, <2>2 DEF Sums
  <2> QED  BY <2>3 DEF s
<1>2. ASSUME NEW m \in Message PROVE Bytes(<<m>>) = m.size
  <2> DEFINE s == <<m>>
  <2>1. s \in Messages /\ Len(s) = 1 /\ s[1] = m /\ m.size \in Nat
    BY One DEF Message
  <2> HIDE DEF s
  <2>2. PICK f : Sums(f, s) /\ Bytes(s) = f[Len(s)]
    BY <2>1, BytesSum
  <2>3. 1 \in 1..Len(s) /\ 1 - 1 = 0
    BY <2>1
  <2>4. f[1] = f[1 - 1] + s[1].size /\ f[0] = 0
    BY <2>2, <2>3 DEF Sums
  <2>5. Bytes(s) = m.size
    BY <2>1, <2>2, <2>3, <2>4
  <2> QED  BY <2>5 DEF s
<1> QED  BY <1>1, <1>2

LEMMA BytesAdded ==
    ASSUME NEW q \in Messages, NEW m \in Message
    PROVE  /\ q \o <<m>> \in Messages /\ Bytes(q \o <<m>>) = Bytes(q) + m.size
           /\ <<m>> \o q \in Messages /\ Bytes(<<m>> \o q) = Bytes(q) + m.size
<1> DEFINE o == <<m>>
<1>1. o \in Messages /\ Bytes(o) = m.size /\ m.size \in Nat /\ Bytes(q) \in Nat
  BY One, BytesSmall, BytesNat DEF Message
<1> HIDE DEF o
<1>2. q \o o \in Messages /\ o \o q \in Messages
  BY <1>1, Joined
<1>3. Bytes(q \o o) = Bytes(q) + Bytes(o) /\ Bytes(o \o q) = Bytes(o) + Bytes(q)
  BY <1>1, BytesJoined
<1>4. Bytes(q \o o) = Bytes(q) + m.size /\ Bytes(o \o q) = Bytes(q) + m.size
  BY <1>1, <1>3
<1> QED  BY <1>2, <1>4 DEF o

-----------------------------------------------------------------------------
(* The byte ring.                                                          *)

\* A ring whose byte count is exact.
Exact(r) == r \in ByteRing /\ r.bytes = Bytes(r.queue)

LEMMA RingParts ==
    ASSUME NEW r, Exact(r)
    PROVE  /\ r.queue \in Messages /\ r.bytes \in Nat /\ r.drops_total \in Nat
           /\ r.bytes = Bytes(r.queue) /\ Len(r.queue) \in Nat
<1>1. r.queue \in Messages /\ r.drops_total \in Nat
  BY DEF Exact, ByteRing, Messages
<1> QED  BY <1>1, BytesNat, Entries DEF Exact

\* Records of three fields that make an exact ring.
LEMMA RingMade ==
    ASSUME NEW q \in Messages, NEW d \in Nat, NEW b, b = Bytes(q)
    PROVE  /\ Exact([queue |-> q, bytes |-> b, drops_total |-> d])
           /\ [queue |-> q, bytes |-> b, drops_total |-> d].queue = q
           /\ [queue |-> q, bytes |-> b, drops_total |-> d].bytes = b
           /\ [queue |-> q, bytes |-> b, drops_total |-> d].drops_total = d
<1>1. b \in Int
  BY BytesNat
<1> QED  BY <1>1 DEF Exact, ByteRing, Messages

\* r with another queue and another byte count.
Changed(r, q, b) == [r EXCEPT !.queue = q, !.bytes = b]

LEMMA RingChanged ==
    ASSUME NEW r, Exact(r), NEW q \in Messages
    PROVE  /\ Exact(Changed(r, q, Bytes(q)))
           /\ Changed(r, q, Bytes(q)).queue = q
           /\ Changed(r, q, Bytes(q)).bytes = Bytes(q)
           /\ Changed(r, q, Bytes(q)).drops_total = r.drops_total
<1> DEFINE b == Bytes(q)
           s == Changed(r, q, b)
<1>1. b \in Int /\ r \in ByteRing
  BY BytesNat DEF Exact
<1> HIDE DEF b
<1>2. s.queue = q /\ s.bytes = b /\ s.drops_total = r.drops_total
  BY <1>1 DEF ByteRing, Changed
<1>3. s \in ByteRing
  BY <1>1 DEF ByteRing, Messages, Changed
<1> QED  BY <1>2, <1>3 DEF Exact, b

\* Taking n entries from the front leaves an exact ring.
LEMMA PoppedRing ==
    ASSUME NEW r, Exact(r), NEW n \in 0..Len(r.queue)
    PROVE  /\ Exact(popped(r, n))
           /\ popped(r, n).queue = Without(r.queue, n)
           /\ popped(r, n).bytes = Bytes(Without(r.queue, n))
           /\ popped(r, n).bytes <= r.bytes
           /\ popped(r, n).drops_total = r.drops_total
<1> DEFINE q == r.queue
           a == First(q, n)
           b == Without(q, n)
<1>1. /\ q \in Messages /\ r.bytes = Bytes(q) /\ r.drops_total \in Nat
  BY RingParts
<1>2. a \in Messages /\ b \in Messages /\ q = a \o b
  BY <1>1, Parts
<1>3. Bytes(a) \in Nat /\ Bytes(b) \in Nat /\ Bytes(q) = Bytes(a) + Bytes(b)
  <2> HIDE DEF a, b, q
  <2> QED  BY <1>2, BytesNat, BytesJoined
<1>4. saturating_sub(r.bytes, Bytes(a)) = Bytes(b) /\ Bytes(b) <= r.bytes
  BY <1>1, <1>3 DEF saturating_sub
<1>5. popped(r, n) = Changed(r, b, saturating_sub(r.bytes, Bytes(a)))
  BY DEF popped, Changed
<1> HIDE DEF a, b, q
<1>6. popped(r, n) = Changed(r, b, Bytes(b))
  BY <1>4, <1>5
<1>7. /\ Exact(popped(r, n)) /\ popped(r, n).queue = b
      /\ popped(r, n).bytes = Bytes(b)
      /\ popped(r, n).drops_total = r.drops_total
  BY <1>2, <1>6, RingChanged
<1> QED  BY <1>4, <1>7 DEF b, q

\* Taking n entries from the back leaves an exact ring.
LEMMA CutRing ==
    ASSUME NEW r, Exact(r), NEW n \in 0..Len(r.queue)
    PROVE  /\ Exact(cut(r, n))
           /\ cut(r, n).queue = First(r.queue, Len(r.queue) - n)
           /\ cut(r, n).bytes = Bytes(First(r.queue, Len(r.queue) - n))
           /\ cut(r, n).drops_total = r.drops_total
<1> DEFINE q == r.queue
           k == Len(q) - n
           a == First(q, k)
           b == Without(q, k)
<1>1. /\ q \in Messages /\ r.bytes = Bytes(q) /\ r.drops_total \in Nat
      /\ Len(q) \in Nat
  BY RingParts
<1>2. a \in Messages /\ b \in Messages /\ q = a \o b
  <2>1. k \in 0..Len(q)
    BY <1>1
  <2> HIDE DEF k, q
  <2> QED  BY <1>1, <2>1, Parts
<1>3. Bytes(a) \in Nat /\ Bytes(b) \in Nat /\ Bytes(q) = Bytes(a) + Bytes(b)
  <2> HIDE DEF a, b, q
  <2> QED  BY <1>2, BytesNat, BytesJoined
<1>4. saturating_sub(r.bytes, Bytes(b)) = Bytes(a)
  BY <1>1, <1>3 DEF saturating_sub
<1>5. cut(r, n) = Changed(r, a, saturating_sub(r.bytes, Bytes(b)))
  BY DEF cut, Changed
<1> HIDE DEF a, b, q
<1>6. cut(r, n) = Changed(r, a, Bytes(a))
  BY <1>4, <1>5
<1>7. /\ Exact(cut(r, n)) /\ cut(r, n).queue = a /\ cut(r, n).bytes = Bytes(a)
      /\ cut(r, n).drops_total = r.drops_total
  BY <1>2, <1>6, RingChanged
<1> QED  BY <1>7 DEF a, q

\* Nothing is left of a sequence without all its entries.
LEMMA NothingLeft ==
    ASSUME NEW s \in Messages
    PROVE  /\ Len(s) \in 0..Len(s) /\ 0 \in 0..Len(s)
           /\ Without(s, Len(s)) = <<>> /\ First(s, 0) = <<>>
<1>1. Len(s) \in 0..Len(s) /\ 0 \in 0..Len(s)
  BY Entries
<1>2. Without(s, Len(s)) \in Messages /\ Len(Without(s, Len(s))) = Len(s) - Len(s)
  BY <1>1, Parts
<1>3. First(s, 0) \in Messages /\ Len(First(s, 0)) = 0
  BY <1>1, Parts
<1>4. Len(s) - Len(s) = 0
  BY Entries
<1> QED  BY <1>1, <1>2, <1>3, <1>4, Nothing

\* push makes room: the loop ends, with an empty ring at the latest.
LEMMA Evictions ==
    ASSUME NEW r, Exact(r), NEW len \in Nat, NEW max \in Nat, len <= max
    PROVE  /\ evictions(r, len, max) \in 0..Len(r.queue)
           /\ popped(r, evictions(r, len, max)).bytes + len <= max
<1> DEFINE L == Len(r.queue)
           fits(n) == popped(r, n).bytes + len <= max \/ n = L
           P(n) == fits(n) /\ \A k \in 0..n - 1 : popped(r, k).bytes + len > max
           T == {n \in 0..L : fits(n)}
<1>1. L \in Nat /\ r.queue \in Messages
  BY RingParts
<1>2. L \in T /\ T \in SUBSET Nat
  BY <1>1
<1>3. PICK m \in T : \A k \in T : m <= k
  <2> HIDE DEF T
  <2> QED  BY <1>2, LeastNat
<1>4. \A k \in 0..L : popped(r, k).bytes \in Nat
  <2> SUFFICES ASSUME NEW k \in 0..L PROVE popped(r, k).bytes \in Nat
    OBVIOUS
  <2>1. Exact(popped(r, k))
    BY PoppedRing
  <2> QED  BY <2>1, RingParts
<1>5. m \in 0..L /\ P(m)
  <2>1. m \in 0..L /\ fits(m)
    BY <1>3
  <2>2. ASSUME NEW k \in 0..m - 1 PROVE popped(r, k).bytes + len > max
    <3>1. k \in 0..L /\ ~(m <= k)
      BY <1>1, <2>1
    <3>2. k \notin T
      BY <1>3, <3>1
    <3>3. ~fits(k)
      BY <3>1, <3>2
    <3>4. popped(r, k).bytes \in Nat
      BY <1>4, <3>1
    <3> QED  BY <3>3, <3>4
  <2> QED  BY <2>1, <2>2
<1>6. evictions(r, len, max) = CHOOSE n \in 0..L : P(n)
  BY DEF evictions
<1>7. /\ evictions(r, len, max) \in 0..L /\ fits(evictions(r, len, max))
  <2> HIDE DEF fits
  <2> QED  BY <1>5, <1>6
<1>8. popped(r, L).bytes = 0
  <2>1. popped(r, L).bytes = Bytes(Without(r.queue, L))
    BY <1>1, PoppedRing
  <2> QED  BY <1>1, <2>1, NothingLeft, BytesSmall
<1> QED  BY <1>7, <1>8

\* push_front drops what is too much.
LEMMA Excess ==
    ASSUME NEW r, Exact(r), NEW max \in Nat
    PROVE  /\ excess(r, max) \in 0..Len(r.queue)
           /\ cut(r, excess(r, max)).bytes <= max
<1> DEFINE L == Len(r.queue)
           fits(n) == cut(r, n).bytes <= max \/ n = L
           P(n) == fits(n) /\ \A k \in 0..n - 1 : cut(r, k).bytes > max
           T == {n \in 0..L : fits(n)}
<1>1. L \in Nat /\ r.queue \in Messages
  BY RingParts
<1>2. L \in T /\ T \in SUBSET Nat
  BY <1>1
<1>3. PICK m \in T : \A k \in T : m <= k
  <2> HIDE DEF T
  <2> QED  BY <1>2, LeastNat
<1>4. \A k \in 0..L : cut(r, k).bytes \in Nat
  <2> SUFFICES ASSUME NEW k \in 0..L PROVE cut(r, k).bytes \in Nat
    OBVIOUS
  <2>1. Exact(cut(r, k))
    BY CutRing
  <2> QED  BY <2>1, RingParts
<1>5. m \in 0..L /\ P(m)
  <2>1. m \in 0..L /\ fits(m)
    BY <1>3
  <2>2. ASSUME NEW k \in 0..m - 1 PROVE cut(r, k).bytes > max
    <3>1. k \in 0..L /\ ~(m <= k)
      BY <1>1, <2>1
    <3>2. k \notin T
      BY <1>3, <3>1
    <3>3. ~fits(k)
      BY <3>1, <3>2
    <3>4. cut(r, k).bytes \in Nat
      BY <1>4, <3>1
    <3> QED  BY <3>3, <3>4
  <2> QED  BY <2>1, <2>2
<1>6. excess(r, max) = CHOOSE n \in 0..L : P(n)
  BY DEF excess
<1>7. excess(r, max) \in 0..L /\ fits(excess(r, max))
  <2> HIDE DEF fits
  <2> QED  BY <1>5, <1>6
<1>8. cut(r, L).bytes = 0
  <2>1. L \in 0..Len(r.queue) /\ Len(r.queue) - L = 0
    BY <1>1
  <2>2. cut(r, L).bytes = Bytes(First(r.queue, Len(r.queue) - L))
    BY <2>1, CutRing
  <2> QED  BY <1>1, <2>1, <2>2, NothingLeft, BytesSmall
<1> QED  BY <1>7, <1>8

\* r with n more drops.
MoreDrops(r, n) == [r EXCEPT !.drops_total = @ + n]

LEMMA RingCounts ==
    ASSUME NEW r, Exact(r), NEW n \in Nat
    PROVE  /\ Exact(MoreDrops(r, n)) /\ MoreDrops(r, n).queue = r.queue
           /\ MoreDrops(r, n).bytes = r.bytes
           /\ MoreDrops(r, n).drops_total = r.drops_total + n
<1>1. r \in ByteRing /\ r.drops_total + n \in Nat
  BY RingParts DEF Exact
<1>2. /\ MoreDrops(r, n).queue = r.queue /\ MoreDrops(r, n).bytes = r.bytes
      /\ MoreDrops(r, n).drops_total = r.drops_total + n
  BY <1>1 DEF ByteRing, MoreDrops
<1>3. MoreDrops(r, n) \in ByteRing
  BY <1>1 DEF ByteRing, MoreDrops
<1> QED  BY <1>2, <1>3 DEF Exact

\* What push makes of the ring r: m is empty, or too large and counted, or the
\* last of the queue, n others lost.
Pushed(r, s, m) ==
    \/ m.size = 0 /\ s = r
    \/ /\ m.size # 0 /\ s.queue = r.queue
       /\ s.drops_total = r.drops_total + 1
    \/ /\ m.size # 0
       /\ \E n \in 0..Len(r.queue) :
            /\ s.queue = Without(r.queue, n) \o <<m>>
            /\ s.drops_total = r.drops_total + n

LEMMA PushRing ==
    ASSUME NEW r, Exact(r), NEW max \in Nat, r.bytes <= max, NEW m \in Message
    PROVE  /\ Exact(push(r, m, max)) /\ push(r, m, max).bytes <= max
           /\ Pushed(r, push(r, m, max), m)
<1>1. m.size \in Nat /\ r.queue \in Messages /\ r.drops_total \in Nat
  BY RingParts DEF Message
<1> DEFINE s == push(r, m, max)
<1>2. CASE m.size = 0
  <2>1. s = r
    BY <1>2 DEF push
  <2> QED  BY <1>2, <2>1 DEF Pushed
<1>3. CASE m.size # 0 /\ m.size > max
  <2>1. s = MoreDrops(r, 1)
    BY <1>3 DEF push, MoreDrops
  <2>2. /\ Exact(s) /\ s.queue = r.queue /\ s.bytes = r.bytes
        /\ s.drops_total = r.drops_total + 1
    BY <2>1, RingCounts
  <2> QED  BY <1>3, <2>2 DEF Pushed
<1>4. CASE m.size # 0 /\ m.size <= max
  <2> DEFINE n == evictions(r, m.size, max)
             room == popped(r, n)
             q == Append(room.queue, m)
             b == room.bytes + m.size
             d == r.drops_total + n
  <2>1. n \in 0..Len(r.queue) /\ room.bytes + m.size <= max
    BY <1>1, <1>4, Evictions
  <2>2. s = [queue |-> q, bytes |-> b, drops_total |-> d]
    BY <1>1, <1>4 DEF push
  <2> HIDE DEF n
  <2>3. /\ room.queue = Without(r.queue, n) /\ room.bytes = Bytes(room.queue)
        /\ room.queue \in Messages
    <3>1. Exact(room) /\ room.queue = Without(r.queue, n)
      BY <2>1, PoppedRing
    <3> QED  BY <3>1, RingParts
  <2>4. q = room.queue \o <<m>>
    BY <2>3, One
  <2>5. q \in Messages /\ b = Bytes(q)
    BY <2>3, <2>4, BytesAdded
  <2>6. d \in Nat
    BY <1>1, <2>1
  <2>7. /\ Exact(s) /\ s.queue = q /\ s.bytes = b /\ s.drops_total = d
    <3> HIDE DEF q, b, d, s
    <3> QED  BY <2>2, <2>5, <2>6, RingMade
  <2> QED  BY <1>4, <2>1, <2>3, <2>4, <2>7 DEF Pushed
<1> QED  BY <1>1, <1>2, <1>3, <1>4

\* What push_front makes of the ring r: m comes first, n at the back are lost.
PushedFront(r, s, m) ==
    \E n \in 0..Len(<<m>> \o r.queue) :
        /\ s.queue = First(<<m>> \o r.queue, Len(<<m>> \o r.queue) - n)
        /\ s.drops_total = r.drops_total + n

LEMMA PushFrontRing ==
    ASSUME NEW r, Exact(r), NEW max \in Nat, NEW m \in Message
    PROVE  /\ Exact(push_front(r, m, max)) /\ push_front(r, m, max).bytes <= max
           /\ PushedFront(r, push_front(r, m, max), m)
<1> DEFINE s == push_front(r, m, max)
           q == <<m>> \o r.queue
           more == Changed(r, q, r.bytes + m.size)
           n == excess(more, max)
<1>1. /\ m.size \in Nat /\ r.queue \in Messages /\ r.drops_total \in Nat
      /\ r.bytes = Bytes(r.queue) /\ r.bytes \in Nat
  BY RingParts DEF Message
<1>2. q \in Messages /\ r.bytes + m.size = Bytes(q)
  BY <1>1, BytesAdded
<1>4. s = MoreDrops(cut(more, n), n)
  BY DEF push_front, Changed, MoreDrops
<1> HIDE DEF s, q
<1>5. Exact(more) /\ more.queue = q /\ more.drops_total = r.drops_total
  BY <1>2, RingChanged
<1> HIDE DEF more
<1>6. n \in 0..Len(q) /\ cut(more, n).bytes <= max
  BY <1>5, Excess
<1> HIDE DEF n
<1>7. /\ Exact(cut(more, n)) /\ cut(more, n).queue = First(q, Len(q) - n)
      /\ cut(more, n).drops_total = r.drops_total
  BY <1>5, <1>6, CutRing
<1>8. n \in Nat
  BY <1>6
<1>9. /\ Exact(s) /\ s.queue = First(q, Len(q) - n) /\ s.bytes <= max
      /\ s.drops_total = r.drops_total + n
  BY <1>4, <1>6, <1>7, <1>8, RingCounts
<1> QED  BY <1>6, <1>9 DEF PushedFront, s, q

-----------------------------------------------------------------------------
(* What is in the queues: messages, and no more bytes than the cap.        *)

RingsOK ==
    /\ Exact(pending) /\ pending.bytes <= MaxBytes
    /\ Exact(ring) /\ ring.bytes <= MaxBytes

ContentOK ==
    /\ RingsOK /\ acc \in Messages /\ out \in Messages
    /\ batch \in Messages /\ delivered \in Messages
    /\ ripe \in BOOLEAN /\ published \in Nat

LEMMA ContentIsQueues == ContentOK <=> QueuesOK /\ WithinCap
<1>1. ContentOK => QueuesOK /\ WithinCap
  BY DEF ContentOK, QueuesOK, WithinCap, RingsOK, Exact, Messages
<1>2. QueuesOK /\ WithinCap => ContentOK
  BY DEF ContentOK, QueuesOK, WithinCap, RingsOK, Exact, Messages
<1> QED  BY <1>1, <1>2

LEMMA EmptyExact ==
    Exact(EmptyRing) /\ EmptyRing.bytes = 0 /\ EmptyRing.queue = <<>>
    /\ EmptyRing.drops_total = 0
  BY Nothing, BytesSmall, RingMade DEF EmptyRing

LEMMA PublishContent ==
    ASSUME ContentOK, NEW size \in Sizes, Publish(size)
    PROVE  ContentOK'
<1> DEFINE m == [id |-> published + 1, size |-> size]
<1>1. m \in Message /\ published' \in Nat /\ MaxBytes \in Nat
  BY QueueAssumption DEF Publish, ContentOK, Message
<1>2. Exact(pending') /\ pending'.bytes <= MaxBytes
  <2>1. pending' = push(pending, m, MaxBytes)
    BY DEF Publish
  <2> HIDE DEF m
  <2> QED  BY <1>1, <2>1, PushRing DEF ContentOK, RingsOK
<1> QED  BY <1>1, <1>2 DEF Publish, ContentOK, RingsOK

LEMMA FillContent ==
    ASSUME ContentOK, Fill, UNCHANGED published
    PROVE  ContentOK'
<1> DEFINE q == pending.queue
           m == Head(q)
<1>1. q \in Messages /\ q # <<>>
  BY RingParts DEF Fill, ContentOK, RingsOK
<1>2. m \in Message /\ 1 \in 0..Len(q)
  BY <1>1, Ends
<1>3. Exact(pending') /\ pending'.bytes <= pending.bytes
  BY <1>2, PoppedRing DEF Fill, ContentOK, RingsOK
<1>4. pending.bytes \in Nat /\ pending'.bytes \in Nat
  BY <1>3, RingParts DEF ContentOK, RingsOK
<1>5. pending'.bytes <= MaxBytes
  BY <1>3, <1>4, QueueAssumption DEF ContentOK, RingsOK
<1>6. /\ acc \in Messages /\ out \in Messages /\ <<>> \in Messages
      /\ <<m>> \in Messages /\ Append(acc, m) \in Messages
  BY <1>2, Nothing, One, BytesAdded DEF ContentOK
<1>7. acc' \in Messages /\ out' \in Messages /\ ripe' \in BOOLEAN
  BY <1>6 DEF Fill, ContentOK
<1> QED  BY <1>3, <1>5, <1>7 DEF Fill, ContentOK, RingsOK

LEMMA SpillContent ==
    ASSUME ContentOK, Spill, UNCHANGED published
    PROVE  ContentOK'
<1>1. out \in Messages /\ out # <<>> /\ MaxBytes \in Nat
  BY QueueAssumption DEF Spill, ContentOK
<1>2. Head(out) \in Message /\ Tail(out) \in Messages
  BY <1>1, Ends
<1>3. Exact(ring') /\ ring'.bytes <= MaxBytes
  BY <1>1, <1>2, PushRing DEF Spill, ContentOK, RingsOK
<1> QED  BY <1>2, <1>3 DEF Spill, ContentOK, RingsOK

LEMMA TakeContent ==
    ASSUME ContentOK, TakeBatch, UNCHANGED published
    PROVE  ContentOK'
  BY Nothing DEF TakeBatch, ContentOK, RingsOK

\* drain_for_assign takes a number of items there is, and more than one only
\* up to max_batch_bytes.
LEMMA DrainCounts ==
    ASSUME NEW q \in Messages
    PROVE  /\ DrainCount(q) \in 0..Len(q)
           /\ \/ DrainCount(q) <= 1
              \/ Bytes(First(q, DrainCount(q))) <= MaxBatchBytes
<1> DEFINE fits(k) == k <= MaxItems
                      /\ (k <= 1 \/ Bytes(First(q, k)) <= MaxBatchBytes)
           P(n) == fits(n) /\ \A k \in 0..Len(q) : fits(k) => k <= n
           T == {Len(q) - k : k \in {i \in 0..Len(q) : fits(i)}}
<1>1. Len(q) \in Nat /\ MaxItems \in Nat
  BY Entries, QueueAssumption
<1>2. 0 \in 0..Len(q) /\ fits(0)
  BY <1>1
<1> HIDE DEF fits
<1>3. T \in SUBSET Nat /\ T # {}
  BY <1>1, <1>2
<1>4. PICK l \in T : \A k \in T : l <= k
  <2> HIDE DEF T
  <2> QED  BY <1>3, LeastNat
<1>5. PICK n \in 0..Len(q) : fits(n) /\ l = Len(q) - n
  BY <1>4
<1>6. ASSUME NEW k \in 0..Len(q), fits(k) PROVE k <= n
  <2>1. Len(q) - k \in T
    BY <1>6
  <2>2. l <= Len(q) - k
    BY <1>4, <2>1
  <2> QED  BY <1>1, <1>5, <2>2
<1>7. \E i \in 0..Len(q) : P(i)
  BY <1>5, <1>6
<1>8. DrainCount(q) = CHOOSE i \in 0..Len(q) : P(i)
  BY DEF DrainCount, fits
<1> HIDE DEF P
<1>9. DrainCount(q) \in 0..Len(q) /\ P(DrainCount(q))
  BY <1>7, <1>8
<1>10. fits(DrainCount(q))
  BY <1>9 DEF P
<1> QED  BY <1>9, <1>10 DEF fits

LEMMA DrainContent ==
    ASSUME ContentOK, Drain
    PROVE  ContentOK'
<1> DEFINE q == ring.queue
           n == DrainCount(q)
<1>1. q \in Messages
  BY RingParts DEF ContentOK, RingsOK
<1>2. n \in 0..Len(q)
  BY <1>1, DrainCounts
<1>3. batch' = First(q, n) /\ ring' = popped(ring, n)
  BY DEF Drain
<1> HIDE DEF n
<1>4. batch' \in Messages
  BY <1>1, <1>2, <1>3, Parts
<1>5. Exact(ring') /\ ring'.bytes <= ring.bytes
  BY <1>2, <1>3, PoppedRing DEF ContentOK, RingsOK
<1>6. ring.bytes \in Nat /\ ring'.bytes \in Nat
  BY <1>5, RingParts DEF ContentOK, RingsOK
<1>7. ring'.bytes <= MaxBytes
  BY <1>5, <1>6, QueueAssumption DEF ContentOK, RingsOK
<1> QED  BY <1>4, <1>5, <1>7 DEF Drain, pubVars, ContentOK, RingsOK

LEMMA DeliveredContent ==
    ASSUME ContentOK, Delivered
    PROVE  ContentOK'
<1>1. delivered' \in Messages /\ batch' \in Messages
  BY Joined, Nothing DEF Delivered, ContentOK
<1> QED  BY <1>1 DEF Delivered, pubVars, ContentOK, RingsOK

LEMMA RequeueContent ==
    ASSUME ContentOK, Requeue
    PROVE  ContentOK'
<1>1. batch \in Messages /\ batch # <<>> /\ MaxBytes \in Nat
  BY QueueAssumption DEF Requeue, ContentOK
<1>2. batch[Len(batch)] \in Message /\ First(batch, Len(batch) - 1) \in Messages
  BY <1>1, Ends
<1>3. Exact(ring') /\ ring'.bytes <= MaxBytes
  BY <1>1, <1>2, PushFrontRing DEF Requeue, ContentOK, RingsOK
<1> QED  BY <1>2, <1>3 DEF Requeue, pubVars, ContentOK, RingsOK

\* What a step does to the queues.
QueueMove ==
    \/ \E size \in Sizes : Publish(size)
    \/ (Fill \/ Spill) /\ UNCHANGED published
    \/ TakeBatch /\ out = <<>> /\ UNCHANGED published
    \/ Drain \/ Delivered \/ Requeue
    \/ /\ UNCHANGED <<pending, acc, out, ring, batch, delivered, published>>
       /\ ripe' \in {ripe, TRUE}

LEMMA Moves ==
    ASSUME [Next]_vars
    PROVE  QueueMove
<1> USE DEF QueueMove, queueVars, pubVars
<1>1. CASE \E size \in Sizes : Publish(size)
  BY <1>1
<1>2. CASE PublishNotify \/ Ripen \/ AssignArrives \/ Break \/ UNCHANGED vars
  BY <1>2 DEF PublishNotify, Ripen, AssignArrives, Break, vars
<1>3. CASE AccStep
  BY <1>3 DEF AccStep, AccSelect, AccWake, AccMove, AccFlush, AccDone, AccNotify
<1>4. CASE ControlStep
  <2>1. CASE Connect \/ Announce \/ ControlSelect \/ ReadAssign \/ ReadFails
             \/ Notified \/ HeartbeatTick
    BY <2>1 DEF Connect, Announce, ControlSelect, ReadAssign, ReadFails,
                Notified, HeartbeatTick
  <2>2. CASE ControlMove \/ ControlFlush \/ Drain \/ Delivered \/ Requeue
    BY <2>2 DEF ControlMove, ControlFlush
  <2>3. CASE DeliveryFails \/ Requeued \/ Report
    BY <2>3 DEF DeliveryFails, Requeued, Report
  <2> QED  BY <1>4, <2>1, <2>2, <2>3 DEF ControlStep
<1> QED  BY <1>1, <1>2, <1>3, <1>4 DEF Next

LEMMA ContentNext ==
    ASSUME ContentOK, [Next]_vars
    PROVE  ContentOK'
<1>1. CASE UNCHANGED <<pending, acc, out, ring, batch, delivered, published>>
           /\ ripe' \in {ripe, TRUE}
  BY <1>1 DEF ContentOK, RingsOK
<1> QED  BY <1>1, Moves, PublishContent, FillContent, SpillContent, TakeContent,
            DrainContent, DeliveredContent, RequeueContent DEF QueueMove

LEMMA ContentInit == Init => ContentOK
<1> SUFFICES ASSUME Init PROVE ContentOK
  OBVIOUS
<1>1. 0 <= MaxBytes
  BY QueueAssumption
<1> QED  BY <1>1, EmptyExact, Nothing DEF Init, ContentOK, RingsOK

\* The byte counts of both rings are exact and stay within outbound_max_bytes,
\* for every cap and every mix of sizes: push, push_front and the pops of
\* byte_ring.rs keep `bytes` in step with the queue, and both evict enough.
THEOREM BytesWithinCap == Spec => []WithinCap
<1>1. ContentOK => WithinCap
  BY ContentIsQueues
<1> QED  BY <1>1, ContentInit, ContentNext, PTL DEF Spec

-----------------------------------------------------------------------------
(* Where the tasks are, and the mutex.                                     *)

TaskNames == {"accumulator", "control"}

NotifyOK ==
    permit \in BOOLEAN /\ waiters \in Seq(TaskNames) /\ notified \subseteq TaskNames

LEMMA ParkTypes ==
    ASSUME NotifyOK, NEW t \in TaskNames,
           Park(t) \/ Consume(t) \/ Abandon(t) \/ notify_one
    PROVE  NotifyOK'
<1>1. ASSUME NEW ts \in SUBSET TaskNames, Give(ts) PROVE NotifyOK'
  <2>1. CASE waiters = <<>>
    BY <1>1, <2>1 DEF Give, NotifyOK
  <2>2. CASE waiters # <<>>
    <3>1. Head(waiters) \in TaskNames /\ Tail(waiters) \in Seq(TaskNames)
      BY <2>2, HeadTailProperties DEF NotifyOK
    <3> QED  BY <1>1, <2>2, <3>1 DEF Give, NotifyOK
  <2> QED  BY <2>1, <2>2
<1>2. CASE Park(t)
  <2>1. Append(waiters, t) \in Seq(TaskNames)
    BY AppendProperties DEF NotifyOK
  <2> QED  BY <1>2, <2>1 DEF Park, NotifyOK
<1>3. CASE Consume(t)
  BY <1>3 DEF Consume, NotifyOK
<1>4. CASE Abandon(t)
  <2>1. CASE Give(notified \ {t})
    BY <1>1, <2>1 DEF NotifyOK
  <2>2. CASE UNCHANGED <<permit, notified>> /\ \E k \in DOMAIN waiters :
               waiters' = First(waiters, k - 1) \o Without(waiters, k)
    <3>0. DOMAIN waiters = 1..Len(waiters)
      BY DEF NotifyOK
    <3>1. PICK k \in 1..Len(waiters) :
               waiters' = First(waiters, k - 1) \o Without(waiters, k)
      BY <2>2, <3>0
    <3>2. /\ First(waiters, k - 1) \in Seq(TaskNames)
          /\ Without(waiters, k) \in Seq(TaskNames)
      BY DEF First, Without, NotifyOK
    <3>3. waiters' \in Seq(TaskNames)
      BY <3>1, <3>2
    <3> QED  BY <2>2, <3>3 DEF NotifyOK
  <2> QED  BY <1>4, <2>1, <2>2 DEF Abandon
<1>5. CASE notify_one
  BY <1>1, <1>5 DEF notify_one, NotifyOK
<1> QED  BY <1>2, <1>3, <1>4, <1>5

PcsOK ==
    /\ publisher \in {"idle", "notify"} /\ gained \in BOOLEAN
    /\ accTask \in {"select", "waiting", "fill", "flush", "notify"}
    /\ control \in {"connect", "announce", "hello", "select", "waiting", "fill",
                    "drain", "deliver", "requeue", "report"}

LEMMA NotifyNext ==
    ASSUME NotifyOK, [Next]_vars
    PROVE  NotifyOK'
<1>1. \/ UNCHANGED notifyVars
      \/ \E t \in TaskNames : Park(t) \/ Consume(t) \/ Abandon(t) \/ notify_one
  <2> USE DEF TaskNames
  <2>1. CASE AccStep
    BY <2>1 DEF AccStep, AccSelect, AccWake, AccMove, AccFlush, AccDone, AccNotify
  <2>2. CASE ControlStep
    BY <2>2 DEF ControlStep, Connect, Announce, ControlSelect, ReadAssign,
        ReadFails, Notified, HeartbeatTick, ControlMove, ControlFlush, Drain,
        Delivered, DeliveryFails, Requeue, Requeued, Report
  <2>3. CASE (\E size \in Sizes : Publish(size)) \/ PublishNotify \/ Ripen
             \/ AssignArrives \/ Break \/ UNCHANGED vars
    BY <2>3 DEF Publish, PublishNotify, Ripen, AssignArrives, Break, vars
  <2> QED  BY <2>1, <2>2, <2>3 DEF Next
<1>2. CASE UNCHANGED notifyVars
  BY <1>2 DEF notifyVars, NotifyOK
<1> QED  BY <1>1, <1>2, ParkTypes

LEMMA LinkNext ==
    ASSUME LinkOK, [Next]_vars
    PROVE  LinkOK'
<1> USE DEF LinkOK
<1>0. CASE UNCHANGED <<linkVars, wireVars>>
  BY <1>0 DEF linkVars, wireVars
<1>1. ASSUME NEW l \in {"Idle", "Ready", "Busy", "Disconnected"},
             NEW n \in {"nothing", "stale", "backlog"},
             Write(l, n), UNCHANGED wireVars
      PROVE  LinkOK'
  BY <1>1 DEF Write, mark_disconnected, wireVars
<1>2. ASSUME maybe_send_ready, UNCHANGED wireVars PROVE LinkOK'
  BY <1>0, <1>1, <1>2 DEF maybe_send_ready
<1>3. ASSUME maybe_send_heartbeat, UNCHANGED wireVars PROVE LinkOK'
  BY <1>0, <1>1, <1>3 DEF maybe_send_heartbeat
<1>4. CASE AccStep
  BY <1>0, <1>4 DEF AccStep, AccSelect, AccWake, AccMove, AccFlush, AccDone,
      AccNotify
<1>5. CASE (\E size \in Sizes : Publish(size)) \/ PublishNotify \/ Ripen
           \/ UNCHANGED vars
  BY <1>0, <1>5 DEF Publish, PublishNotify, Ripen, vars
<1>6. CASE AssignArrives \/ Break
  BY <1>6 DEF AssignArrives, Break, linkVars
<1>7. CASE ControlStep
  <2>1. CASE Connect
    <3>1. connected' = TRUE /\ link' = "Idle" /\ told' = "nothing"
          /\ wire' = "up" /\ asgns' = 0 /\ breaks' = breaks
      BY <2>1 DEF Connect
    <3> QED  BY <3>1
  <2>7. CASE ReadFails
    <3>1. connected' = FALSE /\ link' = "Disconnected" /\ told' = told
          /\ wire' = "down" /\ asgns' = asgns /\ breaks' = breaks
      BY <2>7 DEF ReadFails, mark_disconnected
    <3> QED  BY <3>1
  <2>5. CASE ReadAssign
    BY <2>5 DEF ReadAssign
  <2>6. CASE Report
    <3>1. connected' \in BOOLEAN
      BY <2>6 DEF Report
    <3> QED  BY <2>6, <3>1 DEF Report, wireVars
  <2>2. CASE Announce \/ Notified \/ HeartbeatTick
    BY <1>2, <1>3, <2>2 DEF Announce, Notified, HeartbeatTick
  <2>3. CASE ControlSelect \/ ControlMove \/ ControlFlush \/ DeliveryFails
             \/ Requeued
    BY <1>0, <2>3 DEF ControlSelect, ControlMove, ControlFlush, DeliveryFails,
        Requeued
  <2>4. CASE Drain \/ Delivered \/ Requeue
    BY <1>0, <2>4 DEF Drain, Delivered, Requeue
  <2> QED  BY <1>7, <2>1, <2>2, <2>3, <2>4, <2>5, <2>6, <2>7
           DEF ControlStep
<1> QED  BY <1>4, <1>5, <1>6, <1>7 DEF Next

\* Each step takes the mutex only where nobody holds it.
LEMMA LockNext ==
    ASSUME ContentOK, PcsOK, LockOK, [Next]_vars
    PROVE  PcsOK' /\ LockOK'
<1> USE DEF PcsOK, LockOK
<1>1. CASE (\E size \in Sizes : Publish(size)) \/ PublishNotify \/ Ripen
           \/ AssignArrives \/ Break \/ UNCHANGED vars
  BY <1>1, ZenonT(60) DEF Publish, PublishNotify, Ripen, AssignArrives, Break, vars,
      queueVars, pubVars
<1>2. CASE AccStep
  <2>1. CASE AccSelect
    BY <2>1 DEF AccSelect, queueVars, pubVars
  <2>2. CASE AccWake
    BY <2>2 DEF AccWake, Locked, queueVars, pubVars
  <2>3. CASE AccMove
    BY <2>3 DEF AccMove, Spill, Fill, pubVars
  <2>4. CASE AccFlush
    BY <2>4 DEF AccFlush, TakeBatch, pubVars
  <2>5. CASE AccDone
    BY <2>5 DEF AccDone, queueVars, pubVars
  <2>6. CASE AccNotify
    BY <2>6 DEF AccNotify, queueVars, pubVars
  <2> QED  BY <1>2, <2>1, <2>2, <2>3, <2>4, <2>5, <2>6 DEF AccStep
<1>3. CASE ControlStep
  <2>1. CASE Connect \/ Announce \/ Report \/ Requeued
    BY <2>1 DEF Connect, Announce, Report, Requeued, Locked, queueVars, pubVars
  <2>2. CASE ControlSelect \/ ReadAssign \/ ReadFails
    BY <2>2 DEF ControlSelect, ReadAssign, ReadFails, Locked, queueVars, pubVars
  <2>3. CASE Notified \/ HeartbeatTick \/ DeliveryFails
    BY <2>3 DEF Notified, HeartbeatTick, DeliveryFails, Locked, queueVars, pubVars
  <2>4. CASE ControlMove
    BY <2>4 DEF ControlMove, Spill, Fill, pubVars
  <2>5. CASE ControlFlush
    BY <2>5 DEF ControlFlush, TakeBatch, pubVars
  <2>6. CASE Drain
    BY <2>6 DEF Drain, pubVars
  <2>7. CASE Delivered
    BY <2>7 DEF Delivered, pubVars
  <2>8. CASE Requeue
    BY <2>8 DEF Requeue, pubVars
  <2> QED  BY <1>3, <2>1, <2>2, <2>3, <2>4, <2>5, <2>6, <2>7, <2>8
           DEF ControlStep
<1> QED  BY <1>1, <1>2, <1>3 DEF Next

\* The queues, the tasks and the link keep their types, and only the task that
\* holds the mutex has items between two queues (`inner.lock()` in client.rs).
THEOREM QueueTypes == Spec => []TypeOK
<1> DEFINE Inv == ContentOK /\ NotifyOK /\ PcsOK /\ LinkOK /\ LockOK
<1>1. Init => Inv
  <2> SUFFICES ASSUME Init PROVE Inv
    OBVIOUS
  <2>1. ContentOK
    BY ContentInit
  <2>2. NotifyOK
    <3>1. <<>> \in Seq(TaskNames)
      BY EmptySeq
    <3>2. permit = FALSE /\ waiters = <<>> /\ notified = {}
      BY DEF Init
    <3> QED  BY <3>1, <3>2 DEF NotifyOK
  <2>3. PcsOK /\ LockOK
    BY DEF Init, PcsOK, LockOK
  <2>4. LinkOK
    BY DEF Init, LinkOK
  <2> QED  BY <2>1, <2>2, <2>3, <2>4
<1>2. Inv /\ [Next]_vars => Inv'
  BY ContentNext, NotifyNext, LinkNext, LockNext
<1>3. Inv => TypeOK
  BY ContentIsQueues DEF TypeOK, TasksOK, NotifyOK, PcsOK, TaskNames
<1> QED  BY <1>1, <1>2, <1>3, PTL DEF Spec

-----------------------------------------------------------------------------
(* What a producer holds in front of its ring and in a delivery.           *)

\* With the accumulator within max_batch_bytes the bound is inductive.
LoadInv == Bytes(acc) <= MaxBatchBytes /\ BufferBounded

LEMMA LoadInit == Init => LoadInv
<1> SUFFICES ASSUME Init PROVE LoadInv
  OBVIOUS
<1>1. /\ pending.queue = <<>> /\ acc = <<>> /\ out = <<>> /\ batch = <<>>
      /\ Len(batch) = 0
  BY EmptyExact, Nothing DEF Init
<1>2. Bytes(<<>>) = 0
  BY BytesSmall
<1>3. MaxBytes \in Nat /\ MaxBatchBytes \in Nat
  BY QueueAssumption
<1> QED  BY <1>1, <1>2, <1>3 DEF LoadInv, BufferBounded

LEMMA LessLoad ==
    ASSUME NEW p \in Nat, NEW a \in Nat, NEW o \in Nat, NEW o2 \in Nat,
           NEW c \in Nat, NEW d \in Nat, p + a + o <= c + d, o2 <= o
    PROVE  p + a + o2 <= c + d
  OBVIOUS

LEMMA LoadNext ==
    ASSUME ContentOK, ContentOK', LockOK, LoadInv, [Next]_vars
    PROVE  LoadInv'
<1> DEFINE p == Bytes(pending.queue)
           a == Bytes(acc)
           o == Bytes(out)
           b == Bytes(batch)
<1>0. /\ MaxBytes \in Nat /\ MaxBatchBytes \in Nat
  BY QueueAssumption
<1>1. /\ p \in Nat /\ a \in Nat /\ o \in Nat /\ b \in Nat
      /\ p = pending.bytes /\ p <= MaxBytes
      /\ ring.bytes = Bytes(ring.queue) /\ ring.bytes <= MaxBytes /\ ring.bytes \in Nat
      /\ pending.queue \in Messages /\ ring.queue \in Messages
      /\ acc \in Messages /\ out \in Messages /\ batch \in Messages
  <2>1. /\ Exact(pending) /\ pending.bytes <= MaxBytes
        /\ Exact(ring) /\ ring.bytes <= MaxBytes
        /\ acc \in Messages /\ out \in Messages /\ batch \in Messages
    BY DEF ContentOK, RingsOK
  <2>2. /\ pending.queue \in Messages /\ pending.bytes = p
        /\ ring.queue \in Messages /\ ring.bytes = Bytes(ring.queue)
        /\ ring.bytes \in Nat
    BY <2>1, RingParts
  <2> QED  BY <2>1, <2>2, BytesNat
<1>2. /\ p' \in Nat /\ a' \in Nat /\ o' \in Nat /\ b' \in Nat
      /\ p' = pending'.bytes /\ p' <= MaxBytes
  <2>1. /\ Exact(pending') /\ pending'.bytes <= MaxBytes
        /\ acc' \in Messages /\ out' \in Messages /\ batch' \in Messages
    BY DEF ContentOK, RingsOK
  <2>2. pending'.queue \in Messages /\ pending'.bytes = Bytes(pending'.queue)
    BY <2>1, RingParts
  <2> QED  BY <2>1, <2>2, BytesNat
<1>3. /\ a <= MaxBatchBytes /\ p + a + o <= MaxBytes + MaxBatchBytes
      /\ b <= MaxBytes /\ (Len(batch) > 1 => b <= MaxBatchBytes)
  BY DEF LoadInv, BufferBounded
<1>4. Bytes(<<>>) = 0 /\ Len(<<>>) = 0
  BY BytesSmall, Nothing
<1> SUFFICES /\ a' <= MaxBatchBytes /\ p' + a' + o' <= MaxBytes + MaxBatchBytes
             /\ b' <= MaxBytes /\ (Len(batch') > 1 => b' <= MaxBatchBytes)
  BY DEF LoadInv, BufferBounded
<1>5. CASE \E size \in Sizes : Publish(size)
  <2>1. UNCHANGED <<acc, out, batch>> /\ out = <<>>
    BY <1>5 DEF Publish, LockOK, Locked
  <2>2. a' = a /\ o' = 0 /\ b' = b /\ Len(batch') = Len(batch)
    BY <1>4, <2>1
  <2> HIDE DEF p, a, o, b
  <2>3. p' + a' + o' <= MaxBytes + MaxBatchBytes
    BY <1>0, <1>1, <1>2, <1>3, <2>2
  <2> QED  BY <1>3, <2>2, <2>3
<1>6. CASE Fill
  <2> DEFINE m == Head(pending.queue)
  <2>1. /\ out = <<>> /\ pending.queue # <<>> /\ pending' = popped(pending, 1)
        /\ batch' = batch
    BY <1>6 DEF Fill
  <2>2. /\ m \in Message /\ m.size \in Nat /\ 1 \in 0..Len(pending.queue)
        /\ Tail(pending.queue) \in Messages
        /\ pending.queue = <<m>> \o Tail(pending.queue)
        /\ Tail(pending.queue) = Without(pending.queue, 1)
    BY <1>1, <2>1, Ends DEF Message
  <2>3. pending'.queue = Tail(pending.queue)
    BY <2>1, <2>2, PoppedRing DEF ContentOK, RingsOK
  <2> HIDE DEF m
  <2>4. p = p' + m.size
    BY <2>2, <2>3, BytesAdded
  <2>5. o = 0 /\ b' = b
    BY <1>4, <2>1
  <2>6. /\ Bytes(Append(acc, m)) = a + m.size /\ Bytes(<<m>>) = m.size
    <3>1. Append(acc, m) = acc \o <<m>>
      BY <1>1, <2>2, One
    <3>2. Bytes(acc \o <<m>>) = Bytes(acc) + m.size
      BY <1>1, <2>2, BytesAdded
    <3> QED  BY <2>2, <3>1, <3>2, BytesSmall
  <2>7. \/ o' = a + m.size /\ a' = 0
        \/ o' = a /\ a' = m.size /\ m.size <= MaxBatchBytes
        \/ o' = 0 /\ a' = a + m.size /\ a + m.size <= MaxBatchBytes
    BY <1>4, <1>6, <2>1, <2>6 DEF Fill, m
  <2> HIDE DEF p, a, o, b
  <2>8. p' + a' + o' = p + a + o
    <3>1. /\ p \in Nat /\ a \in Nat /\ m.size \in Nat
          /\ p' \in Nat /\ a' \in Nat /\ o' \in Nat
      BY <1>1, <1>2, <2>2
    <3> QED  BY <2>4, <2>5, <2>7, <3>1
  <2>9. a' <= MaxBatchBytes
    BY <1>0, <1>1, <2>7
  <2> QED  BY <1>3, <2>1, <2>5, <2>8, <2>9
<1>7. CASE Spill
  <2>1. out # <<>> /\ out' = Tail(out) /\ UNCHANGED <<pending, acc, batch>>
    BY <1>7 DEF Spill
  <2>2. /\ Head(out) \in Message /\ Tail(out) \in Messages
        /\ out = <<Head(out)>> \o Tail(out)
    BY <1>1, <2>1, Ends
  <2>3. Head(out).size \in Nat
    BY <2>2 DEF Message
  <2>4. o = o' + Head(out).size
    BY <2>1, <2>2, BytesAdded
  <2>5. p' = p /\ a' = a /\ b' = b /\ Len(batch') = Len(batch)
    BY <2>1
  <2> HIDE DEF p, a, o, b
  <2>6. p' + a' + o' <= MaxBytes + MaxBatchBytes
    <3>1. /\ p \in Nat /\ a \in Nat /\ o \in Nat /\ o' \in Nat
          /\ p + a + o <= MaxBytes + MaxBatchBytes
      BY <1>1, <1>2, <1>3
    <3>2. o' <= o
      BY <2>3, <2>4, <3>1
    <3>3. p + a + o' <= MaxBytes + MaxBatchBytes
      BY <1>0, <3>1, <3>2, LessLoad, Zenon
    <3>4. p' + a' + o' = p + a + o'
      BY <2>5, Zenon
    <3> QED  BY <3>3, <3>4, Zenon
  <2> QED  BY <1>3, <2>5, <2>6
<1>8. CASE TakeBatch /\ out = <<>>
  <2>1. o = 0 /\ o' = a /\ a' = 0 /\ p' = p /\ b' = b /\ batch' = batch
    BY <1>4, <1>8 DEF TakeBatch
  <2> QED  BY <1>0, <1>1, <1>3, <2>1
<1>9. CASE Drain
  <2> DEFINE q == ring.queue
             n == DrainCount(q)
  <2>1. batch' = First(q, n) /\ UNCHANGED <<pending, acc, out>>
    BY <1>9 DEF Drain
  <2>2. n \in 0..Len(q) /\ (n <= 1 \/ Bytes(First(q, n)) <= MaxBatchBytes)
    BY <1>1, DrainCounts
  <2> HIDE DEF n, q
  <2>3. /\ First(q, n) \in Messages /\ Without(q, n) \in Messages
        /\ q = First(q, n) \o Without(q, n) /\ Len(First(q, n)) = n
    BY <1>1, <2>2, Parts DEF q
  <2>4. /\ Bytes(q) = Bytes(First(q, n)) + Bytes(Without(q, n))
        /\ Bytes(Without(q, n)) \in Nat
    BY <2>3, BytesJoined, BytesNat
  <2>5. b' = Bytes(First(q, n)) /\ Len(batch') = n
    BY <2>1, <2>3
  <2>6. b' <= MaxBytes
    BY <1>0, <1>1, <1>2, <2>4, <2>5 DEF q
  <2>7. Len(batch') > 1 => b' <= MaxBatchBytes
    BY <2>2, <2>5
  <2>8. p' = p /\ a' = a /\ o' = o
    BY <2>1
  <2> QED  BY <1>3, <2>6, <2>7, <2>8
<1>10. CASE Delivered
  <2>1. batch' = <<>> /\ UNCHANGED <<pending, acc, out>>
    BY <1>10 DEF Delivered
  <2>2. b' = 0 /\ Len(batch') = 0 /\ p' = p /\ a' = a /\ o' = o
    BY <1>4, <2>1
  <2> QED  BY <1>0, <1>3, <2>2
<1>11. CASE Requeue
  <2>1. /\ batch # <<>> /\ batch' = First(batch, Len(batch) - 1)
        /\ UNCHANGED <<pending, acc, out>>
    BY <1>11 DEF Requeue
  <2>2. /\ batch[Len(batch)] \in Message /\ Len(batch) \in Nat \ {0}
        /\ batch = batch' \o <<batch[Len(batch)]>> /\ batch' \in Messages
        /\ Len(batch) - 1 \in 0..Len(batch)
    BY <1>1, <2>1, Ends
  <2>3. batch[Len(batch)].size \in Nat
    BY <2>2 DEF Message
  <2>4. b = b' + batch[Len(batch)].size
    BY <2>2, BytesAdded
  <2>5. Len(batch') = Len(batch) - 1
    BY <1>1, <2>1, <2>2, Parts
  <2>6. p' = p /\ a' = a /\ o' = o
    BY <2>1
  <2> HIDE DEF p, a, o, b
  <2>7. b' <= b /\ (Len(batch') > 1 => Len(batch) > 1)
    BY <1>1, <1>2, <2>2, <2>3, <2>4, <2>5
  <2>8. b' <= MaxBytes /\ (Len(batch') > 1 => b' <= MaxBatchBytes)
    BY <1>0, <1>1, <1>2, <1>3, <2>7
  <2> QED  BY <1>3, <2>6, <2>8
<1>12. CASE UNCHANGED <<pending, acc, out, ring, batch, delivered, published>>
  BY <1>3, <1>12
<1> QED  BY <1>5, <1>6, <1>7, <1>8, <1>9, <1>10, <1>11, <1>12, Moves DEF QueueMove

\* What a producer holds is bounded: in front of the ring by one cap and one
\* batch, in a delivery by max_batch_bytes or one item (publish_batch,
\* BatchAccumulator::push, drain_for_assign).
THEOREM BufferIsBounded == Spec => []BufferBounded
<1> DEFINE Inv == ContentOK /\ PcsOK /\ LockOK /\ LoadInv
<1>1. Init => Inv
  <2>1. Init => PcsOK /\ LockOK
    BY DEF Init, PcsOK, LockOK
  <2> QED  BY <2>1, ContentInit, LoadInit
<1>2. Inv /\ [Next]_vars => Inv'
  BY ContentNext, LockNext, LoadNext
<1>3. Inv => BufferBounded
  BY DEF LoadInv
<1> QED  BY <1>1, <1>2, <1>3, PTL DEF Spec

-----------------------------------------------------------------------------
(* The producer implements Outbox.                                         *)

\* \o, to be used by its laws only.
Cat(s, t) == s \o t

LEMMA CatLaws ==
    ASSUME NEW s \in Messages, NEW t \in Messages, NEW u \in Messages
    PROVE  /\ Cat(s, t) \in Messages /\ Len(Cat(s, t)) = Len(s) + Len(t)
           /\ Cat(Cat(s, t), u) = Cat(s, Cat(t, u))
           /\ Cat(s, <<>>) = s /\ Cat(<<>>, s) = s /\ <<>> \in Messages
           /\ First(Cat(s, t), Len(s)) = s /\ Without(Cat(s, t), Len(s)) = t
<1>1. Cat(s, t) \in Messages /\ Len(Cat(s, t)) = Len(s) + Len(t)
  BY Joined DEF Cat
<1>2. Cat(Cat(s, t), u) = Cat(s, Cat(t, u))
  BY Regroup DEF Cat
<1>3. Cat(s, <<>>) = s /\ Cat(<<>>, s) = s /\ <<>> \in Messages
  BY Nothing DEF Cat
<1>4. First(Cat(s, t), Len(s)) = s /\ Without(Cat(s, t), Len(s)) = t
  BY PartsOfJoined DEF Cat
<1> QED  BY <1>1, <1>2, <1>3, <1>4

LEMMA CatParts ==
    ASSUME NEW s \in Messages, NEW n \in 0..Len(s)
    PROVE  /\ First(s, n) \in Messages /\ Len(First(s, n)) = n
           /\ Without(s, n) \in Messages /\ Len(Without(s, n)) = Len(s) - n
           /\ s = Cat(First(s, n), Without(s, n))
  BY Parts DEF Cat

LEMMA CatEnds ==
    ASSUME NEW s \in Messages, s # <<>>
    PROVE  /\ Head(s) \in Message /\ Tail(s) \in Messages
           /\ s = Cat(<<Head(s)>>, Tail(s)) /\ Tail(s) = Without(s, 1)
           /\ s[Len(s)] \in Message /\ First(s, Len(s) - 1) \in Messages
           /\ s = Cat(First(s, Len(s) - 1), <<s[Len(s)]>>)
  BY Ends DEF Cat

LEMMA CatOne ==
    ASSUME NEW m \in Message, NEW s \in Messages
    PROVE  /\ <<m>> \in Messages /\ Len(<<m>>) = 1
           /\ Append(s, m) = Cat(s, <<m>>)
  BY One DEF Cat

\* s is q without a run of n neighbours.
Keeps(q, s, n) ==
    \E i, j \in 0..Len(q) :
        /\ i <= j /\ j - i = n
        /\ s = SubSeq(q, 1, i) \o SubSeq(q, j + 1, Len(q))

\* Without B, a sequence has lost a run of Len(B) neighbours.
LEMMA LostMiddle ==
    ASSUME NEW A \in Messages, NEW B \in Messages, NEW C \in Messages,
           NEW q, q = Cat(A, Cat(B, C))
    PROVE  Keeps(q, Cat(A, C), Len(B))
<1> DEFINE i == Len(A)
           j == Len(Cat(A, B))
<1>1. /\ Cat(A, B) \in Messages /\ Cat(B, C) \in Messages
      /\ j = Len(A) + Len(B)
  BY CatLaws
<1>2. Len(A) \in Nat /\ Len(B) \in Nat /\ Len(C) \in Nat
  BY Entries
<1>3. q = Cat(Cat(A, B), C)
  BY CatLaws
<1>4. First(q, i) = A
  BY <1>1, CatLaws
<1>5. Without(q, j) = C /\ Len(q) = j + Len(C)
  <2> DEFINE D == Cat(A, B)
  <2>1. D \in Messages /\ q = Cat(D, C) /\ j = Len(D)
    BY <1>1, <1>3
  <2> HIDE DEF D, j
  <2> QED  BY <2>1, CatLaws
<1>6. i \in 0..Len(q) /\ j \in 0..Len(q) /\ i <= j /\ j - i = Len(B)
  BY <1>1, <1>2, <1>5
<1> HIDE DEF i, j
<1>7. Cat(A, C) = SubSeq(q, 1, i) \o SubSeq(q, j + 1, Len(q))
  BY <1>4, <1>5 DEF First, Without, Cat
<1> QED  BY <1>6, <1>7 DEF Keeps

\* The messages of five places in one line.
Line(b, r, o, a, p) == b \o r \o o \o a \o p

LEMMA LineGrouped ==
    ASSUME NEW b \in Messages, NEW r \in Messages, NEW o \in Messages,
           NEW a \in Messages, NEW p \in Messages
    PROVE  /\ Line(b, r, o, a, p) = Cat(b, Cat(r, Cat(o, Cat(a, p))))
           /\ Line(b, r, o, a, p) \in Messages
           /\ Cat(a, p) \in Messages /\ Cat(o, Cat(a, p)) \in Messages
           /\ Cat(r, Cat(o, Cat(a, p))) \in Messages
<1>1. Cat(a, p) \in Messages /\ Cat(b, r) \in Messages
  BY CatLaws
<1>2. Cat(o, Cat(a, p)) \in Messages /\ Cat(Cat(b, r), o) \in Messages
  BY <1>1, CatLaws
<1>3. Cat(r, Cat(o, Cat(a, p))) \in Messages
  BY <1>2, CatLaws
<1>4. Line(b, r, o, a, p) = Cat(Cat(Cat(Cat(b, r), o), a), p)
  BY DEF Line, Cat
<1>5. Cat(Cat(Cat(Cat(b, r), o), a), p) = Cat(Cat(Cat(b, r), o), Cat(a, p))
  BY <1>2, CatLaws
<1>6. Cat(Cat(Cat(b, r), o), Cat(a, p)) = Cat(Cat(b, r), Cat(o, Cat(a, p)))
  BY <1>1, CatLaws
<1>7. Cat(Cat(b, r), Cat(o, Cat(a, p))) = Cat(b, Cat(r, Cat(o, Cat(a, p))))
  BY <1>2, CatLaws
<1>8. Cat(b, Cat(r, Cat(o, Cat(a, p)))) \in Messages
  BY <1>3, CatLaws
<1> QED  BY <1>1, <1>2, <1>3, <1>4, <1>5, <1>6, <1>7, <1>8

LEMMA LineEqual ==
    ASSUME NEW b \in Messages, NEW r \in Messages, NEW o \in Messages,
           NEW a \in Messages, NEW p \in Messages
    PROVE  Line(b, r, o, a, p) = Cat(b, Cat(r, Cat(o, Cat(a, p))))
  BY LineGrouped

LEMMA Queued ==
    ASSUME ContentOK
    PROVE  /\ pending.queue \in Messages /\ ring.queue \in Messages
           /\ AllQueued = Cat(batch, Cat(ring.queue, Cat(out, Cat(acc, pending.queue))))
           /\ AllQueued \in Messages
           /\ Cat(acc, pending.queue) \in Messages
           /\ Cat(out, Cat(acc, pending.queue)) \in Messages
           /\ Cat(ring.queue, Cat(out, Cat(acc, pending.queue))) \in Messages
<1> DEFINE p == pending.queue
           r == ring.queue
<1>1. /\ p \in Messages /\ r \in Messages /\ acc \in Messages
      /\ out \in Messages /\ batch \in Messages
  BY RingParts DEF ContentOK, RingsOK
<1>2. AllQueued = Line(batch, r, out, acc, p)
  BY DEF AllQueued, Line
<1> HIDE DEF p, r
<1>3. /\ Line(batch, r, out, acc, p) = Cat(batch, Cat(r, Cat(out, Cat(acc, p))))
      /\ Line(batch, r, out, acc, p) \in Messages
  BY <1>1, LineGrouped
<1>4. Cat(acc, p) \in Messages
  BY <1>1, CatLaws
<1>5. Cat(out, Cat(acc, p)) \in Messages
  BY <1>1, <1>4, CatLaws
<1>6. Cat(r, Cat(out, Cat(acc, p))) \in Messages
  BY <1>1, <1>5, CatLaws
<1> QED  BY <1>1, <1>2, <1>3, <1>4, <1>5, <1>6 DEF p, r

LEMMA QueuedNext ==
    ASSUME ContentOK'
    PROVE  AllQueued' =
             Cat(batch', Cat(ring'.queue, Cat(out', Cat(acc', pending'.queue))))
<1> DEFINE p == pending'.queue
           r == ring'.queue
<1>1. /\ p \in Messages /\ r \in Messages /\ acc' \in Messages
      /\ out' \in Messages /\ batch' \in Messages
  BY RingParts DEF ContentOK, RingsOK
<1>2. AllQueued' = Line(batch', r, out', acc', p)
  BY DEF AllQueued, Line
<1> HIDE DEF p, r
<1>3. Line(batch', r, out', acc', p) = Cat(batch', Cat(r, Cat(out', Cat(acc', p))))
  BY <1>1, LineEqual
<1> QED  BY <1>2, <1>3 DEF p, r

\* A step of the queues, seen from outside: nothing happens, or q loses the run
\* B of neighbours, which is counted.
Unseen ==
    UNCHANGED <<AllQueued, delivered, published, pending.drops_total,
                ring.drops_total>>

Loses(q, A, B, C) ==
    /\ A \in Messages /\ B \in Messages /\ C \in Messages
    /\ q = Cat(A, Cat(B, C)) /\ AllQueued' = Cat(A, C)
    /\ pending'.drops_total + ring'.drops_total =
         pending.drops_total + ring.drops_total + Len(B)

LEMMA FillUnseen ==
    ASSUME ContentOK, ContentOK', Fill, UNCHANGED published
    PROVE  Unseen
<1> DEFINE p == pending.queue
           m == Head(p)
           o == <<m>>
           t == Tail(p)
           r == ring.queue
<1>1. /\ p \in Messages /\ p # <<>> /\ Exact(pending) /\ batch \in Messages
      /\ r \in Messages /\ acc \in Messages /\ out = <<>> /\ out \in Messages
  BY RingParts DEF Fill, ContentOK, RingsOK
<1>2. /\ m \in Message /\ 1 \in 0..Len(p) /\ t \in Messages
      /\ p = Cat(o, t) /\ t = Without(p, 1)
  BY <1>1, Ends, CatEnds
<1>3. pending'.queue = t /\ pending'.drops_total = pending.drops_total
  BY <1>1, <1>2, PoppedRing DEF Fill
<1>4. o \in Messages /\ Append(acc, m) = Cat(acc, o)
  BY <1>1, <1>2, CatOne
<1>5. \/ out' = Cat(acc, o) /\ acc' = <<>>
      \/ out' = acc /\ acc' = o
      \/ out' = <<>> /\ acc' = Cat(acc, o)
  BY <1>1, <1>4 DEF Fill
<1>6. /\ AllQueued = Cat(batch, Cat(r, Cat(out, Cat(acc, p))))
      /\ AllQueued' = Cat(batch, Cat(r, Cat(out', Cat(acc', t))))
  BY <1>3, Queued, QueuedNext DEF Fill
<1> HIDE DEF p, m, t, r, o
<1>7. Cat(out, Cat(acc, p)) = Cat(out', Cat(acc', t))
  <2>1. Cat(acc, p) \in Messages /\ Cat(Cat(acc, o), t) = Cat(acc, p)
    BY <1>1, <1>2, <1>4, CatLaws
  <2>2. Cat(out, Cat(acc, p)) = Cat(acc, p)
    BY <1>1, <2>1, CatLaws
  <2>3. Cat(<<>>, t) = t
    BY <1>2, CatLaws
  <2> QED  BY <1>1, <1>2, <1>5, <2>1, <2>2, <2>3
<1>8. AllQueued' = AllQueued
  BY <1>6, <1>7
<1> QED  BY <1>3, <1>8 DEF Unseen, Fill

LEMMA TakeUnseen ==
    ASSUME ContentOK, ContentOK', TakeBatch, out = <<>>, UNCHANGED published
    PROVE  Unseen
<1> DEFINE p == pending.queue
           r == ring.queue
<1>1. /\ p \in Messages /\ batch \in Messages /\ r \in Messages
      /\ acc \in Messages /\ out' = acc /\ acc' = <<>> /\ <<>> \in Messages
      /\ ring' = ring /\ batch' = batch /\ pending' = pending
  BY RingParts, Nothing DEF TakeBatch, ContentOK, RingsOK
<1>2. /\ AllQueued = Cat(batch, Cat(r, Cat(out, Cat(acc, p))))
      /\ AllQueued' = Cat(batch, Cat(r, Cat(acc, Cat(<<>>, p))))
  BY <1>1, Queued, QueuedNext
<1> HIDE DEF p, r
<1>3. Cat(acc, p) \in Messages /\ Cat(<<>>, p) = p
  BY <1>1, CatLaws
<1>4. Cat(out, Cat(acc, p)) = Cat(acc, p)
  BY <1>1, <1>3, CatLaws
<1>5. AllQueued' = AllQueued
  BY <1>2, <1>3, <1>4
<1> QED  BY <1>5 DEF Unseen, TakeBatch

LEMMA DrainUnseen ==
    ASSUME ContentOK, ContentOK', LockOK, Drain
    PROVE  Unseen
<1> DEFINE p == pending.queue
           r == ring.queue
           n == DrainCount(r)
           x == Cat(out, Cat(acc, p))
<1>1. /\ p \in Messages /\ batch \in Messages /\ r \in Messages
      /\ acc \in Messages /\ out \in Messages /\ Exact(ring)
  BY RingParts DEF ContentOK, RingsOK
<1>2. batch = <<>> /\ pending' = pending /\ acc' = acc /\ out' = out
  BY DEF LockOK, Drain
<1>3. n \in 0..Len(r) /\ batch' = First(r, n) /\ ring' = popped(ring, n)
  BY <1>1, DrainCounts DEF Drain
<1> HIDE DEF n
<1>4. ring'.queue = Without(r, n) /\ ring'.drops_total = ring.drops_total
  BY <1>1, <1>3, PoppedRing
<1>5. /\ First(r, n) \in Messages /\ Without(r, n) \in Messages
      /\ r = Cat(First(r, n), Without(r, n))
  BY <1>1, <1>3, CatParts
<1>6. AllQueued = Cat(batch, Cat(r, x)) /\ x \in Messages /\ Cat(r, x) \in Messages
  BY Queued
<1>7. AllQueued' = Cat(First(r, n), Cat(Without(r, n), x))
  BY <1>2, <1>3, <1>4, QueuedNext
<1> HIDE DEF x, r, p
<1>8. Cat(r, x) = Cat(First(r, n), Cat(Without(r, n), x))
  BY <1>5, <1>6, CatLaws
<1>9. Cat(batch, Cat(r, x)) = Cat(r, x)
  BY <1>2, <1>6, CatLaws
<1>10. AllQueued' = AllQueued
  BY <1>6, <1>7, <1>8, <1>9
<1> QED  BY <1>4, <1>10 DEF Unseen, Drain, pubVars

\* Every message that waits has a payload: push stores no empty one.
Filled == \A i \in 1..Len(AllQueued) : AllQueued[i].size # 0

LEMMA PublishSeen ==
    ASSUME ContentOK, ContentOK', NEW size \in Sizes, Publish(size)
    PROVE  \/ Unseen
           \/ /\ size # 0 /\ published' = published + 1 /\ UNCHANGED delivered
              /\ \E A, B, C :
                   Loses(Append(AllQueued, [id |-> published + 1, size |-> size]),
                         A, B, C)
<1> DEFINE m == [id |-> published + 1, size |-> size]
           o == <<m>>
           p == pending.queue
           x == Cat(batch, Cat(ring.queue, Cat(out, acc)))
<1>1. /\ m \in Message /\ m.size = size /\ MaxBytes \in Nat
  BY QueueAssumption DEF ContentOK, Message
<1>2. pending' = push(pending, m, MaxBytes)
  BY DEF Publish
<1>3. /\ ring' = ring /\ batch' = batch /\ out' = out /\ acc' = acc
      /\ delivered' = delivered
  BY DEF Publish
<1> HIDE DEF m
<1>4. Pushed(pending, pending', m)
  BY <1>1, <1>2, PushRing DEF ContentOK, RingsOK
<1>5. /\ p \in Messages /\ ring.queue \in Messages /\ AllQueued \in Messages
      /\ batch \in Messages /\ out \in Messages /\ acc \in Messages
      /\ pending.drops_total \in Nat /\ ring.drops_total \in Nat
      /\ pending'.drops_total \in Nat
  BY Queued, RingParts DEF ContentOK, RingsOK
<1>6. o \in Messages /\ Len(o) = 1 /\ Append(AllQueued, m) = Cat(AllQueued, o)
  BY <1>1, <1>5, CatOne
<1> HIDE DEF o
<1>7. /\ x \in Messages /\ AllQueued = Cat(x, p)
      /\ AllQueued' = Cat(x, pending'.queue)
  <2> DEFINE r == ring.queue
             p2 == pending'.queue
  <2>1. p2 \in Messages
    BY RingParts DEF ContentOK, RingsOK
  <2>2. AllQueued = Cat(batch, Cat(r, Cat(out, Cat(acc, p))))
    BY Queued
  <2>3. AllQueued' = Cat(batch, Cat(r, Cat(out, Cat(acc, p2))))
    BY <1>3, QueuedNext
  <2> HIDE DEF r, p, p2
  <2>4. r \in Messages /\ p \in Messages
    BY <1>5 DEF r, p
  <2>5. ASSUME NEW s \in Messages
        PROVE  /\ Cat(batch, Cat(r, Cat(out, acc))) \in Messages
               /\ Cat(batch, Cat(r, Cat(out, Cat(acc, s)))) =
                    Cat(Cat(batch, Cat(r, Cat(out, acc))), s)
    <3>1. Cat(out, acc) \in Messages /\ Cat(out, Cat(acc, s)) = Cat(Cat(out, acc), s)
      BY <1>5, <2>5, CatLaws
    <3>2. /\ Cat(r, Cat(out, acc)) \in Messages
          /\ Cat(r, Cat(Cat(out, acc), s)) = Cat(Cat(r, Cat(out, acc)), s)
      BY <2>4, <2>5, <3>1, CatLaws
    <3>3. /\ Cat(batch, Cat(r, Cat(out, acc))) \in Messages
          /\ Cat(batch, Cat(Cat(r, Cat(out, acc)), s)) =
               Cat(Cat(batch, Cat(r, Cat(out, acc))), s)
      BY <1>5, <2>5, <3>2, CatLaws
    <3> QED  BY <3>1, <3>2, <3>3
  <2> QED  BY <2>1, <2>2, <2>3, <2>4, <2>5 DEF r, p2
<1> HIDE DEF x, p
<1>8. CASE m.size = 0 /\ pending' = pending
  <2>1. published' = published
    BY <1>1, <1>8 DEF Publish
  <2> QED  BY <1>3, <1>7, <1>8, <2>1 DEF Unseen, p
<1>9. m.size # 0 => published' = published + 1
  BY <1>1 DEF Publish
<1>10. CASE /\ m.size # 0 /\ pending'.queue = pending.queue
            /\ pending'.drops_total = pending.drops_total + 1
  <2>1. Cat(o, <<>>) = o /\ <<>> \in Messages /\ Cat(AllQueued, <<>>) = AllQueued
    BY <1>5, <1>6, CatLaws
  <2>2. AllQueued' = AllQueued
    BY <1>7, <1>10 DEF p
  <2>3. pending'.drops_total + ring'.drops_total =
          pending.drops_total + ring.drops_total + Len(o)
    BY <1>3, <1>5, <1>6, <1>10
  <2>4. Loses(Append(AllQueued, m), AllQueued, o, <<>>)
    BY <1>5, <1>6, <2>1, <2>2, <2>3 DEF Loses
  <2> QED  BY <1>1, <1>3, <1>9, <1>10, <2>4 DEF m
<1>11. CASE m.size # 0 /\ \E n \in 0..Len(pending.queue) :
              /\ pending'.queue = Without(pending.queue, n) \o <<m>>
              /\ pending'.drops_total = pending.drops_total + n
  <2>1. PICK n \in 0..Len(p) :
              /\ pending'.queue = Cat(Without(p, n), o)
              /\ pending'.drops_total = pending.drops_total + n
    BY <1>11 DEF p, o, Cat
  <2>2. /\ First(p, n) \in Messages /\ Len(First(p, n)) = n
        /\ Without(p, n) \in Messages /\ p = Cat(First(p, n), Without(p, n))
    BY <1>5, CatParts
  <2> DEFINE B == First(p, n)
             W == Without(p, n)
  <2> HIDE DEF B, W
  <2>3. /\ B \in Messages /\ Len(B) = n /\ W \in Messages /\ p = Cat(B, W)
        /\ pending'.queue = Cat(W, o)
    BY <2>1, <2>2 DEF B, W
  <2>4. Cat(W, o) \in Messages /\ Cat(p, o) = Cat(B, Cat(W, o))
    BY <1>6, <2>3, CatLaws
  <2>5. Cat(Cat(x, p), o) = Cat(x, Cat(p, o))
    BY <1>5, <1>6, <1>7, CatLaws
  <2>6. pending'.drops_total + ring'.drops_total =
          pending.drops_total + ring.drops_total + Len(B)
    BY <1>3, <1>5, <2>1, <2>3
  <2>7. Loses(Append(AllQueued, m), x, B, Cat(W, o))
    BY <1>6, <1>7, <2>3, <2>4, <2>5, <2>6 DEF Loses
  <2> QED  BY <1>1, <1>3, <1>9, <1>11, <2>7 DEF m
<1> QED  BY <1>4, <1>8, <1>10, <1>11 DEF Pushed

\* A message at a known place of all that wait.
LEMMA FilledAt ==
    ASSUME Filled, NEW A \in Messages, NEW m \in Message, NEW C \in Messages,
           AllQueued = Cat(A, Cat(<<m>>, C))
    PROVE  m.size # 0
<1> DEFINE o == <<m>>
           q == AllQueued
<1>1. o \in Messages /\ Len(o) = 1 /\ o[1] = m
  BY One
<1> HIDE DEF o
<1>2. /\ o \o C \in Messages /\ Len(o \o C) = 1 + Len(C) /\ Len(C) \in Nat
      /\ (o \o C)[1] = m
  <2>1. 1 \in 1..Len(o)
    BY <1>1
  <2>2. (o \o C)[1] = o[1]
    BY <1>1, <2>1, Joined
  <2>3. o \o C \in Messages /\ Len(o \o C) = Len(o) + Len(C) /\ Len(C) \in Nat
    BY <1>1, Joined
  <2> QED  BY <1>1, <2>2, <2>3
<1> DEFINE D == o \o C
<1> HIDE DEF D
<1>3. D \in Messages /\ Len(D) = 1 + Len(C) /\ D[1] = m
  BY <1>2 DEF D
<1>4. /\ Len(A) \in Nat /\ Len(A \o D) = Len(A) + Len(D)
      /\ \A i \in 1..Len(D) : (A \o D)[Len(A) + i] = D[i]
  BY <1>3, Joined
<1>5. q = A \o D
  BY DEF Cat, D, o
<1>6. 1 \in 1..Len(D) /\ Len(A) + 1 \in 1..Len(q)
  BY <1>2, <1>3, <1>4, <1>5
<1>7. q[Len(A) + 1] = m
  BY <1>3, <1>4, <1>5, <1>6
<1> QED  BY <1>6, <1>7 DEF Filled

LEMMA SpillSeen ==
    ASSUME ContentOK, ContentOK', Filled, Spill, UNCHANGED published
    PROVE  /\ UNCHANGED <<delivered, published>>
           /\ \E A, B, C : Loses(AllQueued, A, B, C)
<1> DEFINE r == ring.queue
           p == pending.queue
           h == Head(out)
           o == <<h>>
           t == Tail(out)
           y == Cat(acc, p)
           z == Cat(t, y)
<1>1. /\ pending' = pending /\ acc' = acc /\ batch' = batch /\ out' = t
      /\ delivered' = delivered /\ out # <<>>
  BY DEF Spill
<1>2. /\ r \in Messages /\ p \in Messages /\ out \in Messages
      /\ batch \in Messages /\ acc \in Messages /\ y \in Messages
      /\ pending.drops_total \in Nat /\ ring.drops_total \in Nat
  BY Queued, RingParts DEF ContentOK, RingsOK
<1>3. h \in Message /\ t \in Messages /\ out = Cat(o, t)
  BY <1>1, <1>2, CatEnds
<1>4. o \in Messages /\ Len(o) = 1
  BY <1>2, <1>3, CatOne
<1>5. AllQueued = Cat(batch, Cat(r, Cat(out, y)))
  BY Queued
<1>6. AllQueued' = Cat(batch, Cat(ring'.queue, z))
  BY <1>1, QueuedNext
<1>7. Pushed(ring, ring', h)
  <2>1. MaxBytes \in Nat /\ ring' = push(ring, h, MaxBytes)
    BY QueueAssumption DEF Spill
  <2> HIDE DEF h
  <2> QED  BY <1>3, <2>1, PushRing DEF ContentOK, RingsOK
<1> HIDE DEF r, p, h, t, y
<1>8. z \in Messages
  BY <1>2, <1>3, CatLaws
<1>9. Cat(out, y) = Cat(o, z)
  <2> HIDE DEF o
  <2> QED  BY <1>2, <1>3, <1>4, CatLaws
<1>10. Cat(batch, r) \in Messages /\ Cat(o, z) \in Messages
  <2> HIDE DEF o, z
  <2> QED  BY <1>2, <1>4, <1>8, CatLaws
<1>11. Cat(batch, Cat(r, Cat(o, z))) = Cat(Cat(batch, r), Cat(o, z))
  <2> HIDE DEF o, z
  <2> QED  BY <1>2, <1>10, CatLaws
<1>12. AllQueued = Cat(Cat(batch, r), Cat(o, z))
  BY <1>5, <1>9, <1>11
<1>13. h.size # 0
  <2> HIDE DEF z
  <2> QED  BY <1>3, <1>8, <1>10, <1>12, FilledAt
<1> HIDE DEF z
<1>14. CASE ring'.queue = r /\ ring'.drops_total = ring.drops_total + 1
  <2> HIDE DEF o
  <2>1. AllQueued' = Cat(Cat(batch, r), z)
    BY <1>2, <1>6, <1>8, <1>14, CatLaws
  <2>2. pending'.drops_total + ring'.drops_total =
          pending.drops_total + ring.drops_total + Len(o)
    BY <1>1, <1>2, <1>4, <1>14
  <2>3. Loses(AllQueued, Cat(batch, r), o, z)
    BY <1>4, <1>8, <1>10, <1>12, <2>1, <2>2 DEF Loses
  <2> QED  BY <1>1, <2>3
<1>15. CASE \E n \in 0..Len(r) : /\ ring'.queue = Without(r, n) \o <<h>>
                                 /\ ring'.drops_total = ring.drops_total + n
  <2>1. PICK n \in 0..Len(r) : /\ ring'.queue = Cat(Without(r, n), o)
                               /\ ring'.drops_total = ring.drops_total + n
    BY <1>15 DEF Cat
  <2> HIDE DEF o
  <2> DEFINE B == First(r, n)
             W == Without(r, n)
  <2>2. /\ B \in Messages /\ Len(B) = n /\ W \in Messages /\ r = Cat(B, W)
        /\ ring'.queue = Cat(W, o)
    BY <1>2, <2>1, CatParts
  <2> HIDE DEF B, W
  <2>3. Cat(W, Cat(o, z)) \in Messages /\ Cat(Cat(W, o), z) = Cat(W, Cat(o, z))
    BY <1>4, <1>8, <1>10, <2>2, CatLaws, SMTT(40)
  <2>4. Cat(r, Cat(o, z)) = Cat(B, Cat(W, Cat(o, z)))
    BY <1>10, <2>2, CatLaws
  <2>5. AllQueued = Cat(batch, Cat(B, Cat(W, Cat(o, z))))
    BY <1>5, <1>9, <2>4
  <2>6. AllQueued' = Cat(batch, Cat(W, Cat(o, z)))
    BY <1>6, <2>2, <2>3
  <2>7. pending'.drops_total + ring'.drops_total =
          pending.drops_total + ring.drops_total + Len(B)
    BY <1>1, <1>2, <2>1, <2>2
  <2>8. Loses(AllQueued, batch, B, Cat(W, Cat(o, z)))
    BY <1>2, <2>2, <2>3, <2>5, <2>6, <2>7 DEF Loses
  <2> QED  BY <1>1, <2>8
<1> QED  BY <1>7, <1>13, <1>14, <1>15 DEF Pushed, r

LEMMA DeliveredSeen ==
    ASSUME ContentOK, ContentOK', Delivered
    PROVE  /\ UNCHANGED <<published, pending, ring>>
           /\ delivered' = delivered \o batch
           /\ AllQueued = Cat(batch, AllQueued') /\ AllQueued' \in Messages
<1> DEFINE x == Cat(ring.queue, Cat(out, Cat(acc, pending.queue)))
<1>1. /\ published' = published /\ pending' = pending /\ ring' = ring
      /\ out' = out /\ acc' = acc /\ batch' = <<>>
      /\ delivered' = delivered \o batch
  BY DEF Delivered, pubVars
<1>2. AllQueued = Cat(batch, x) /\ x \in Messages
  BY Queued
<1>3. AllQueued' = Cat(<<>>, x)
  BY <1>1, QueuedNext
<1> HIDE DEF x
<1>4. Cat(<<>>, x) = x
  BY <1>2, CatLaws
<1> QED  BY <1>1, <1>2, <1>3, <1>4

LEMMA RequeueSeen ==
    ASSUME ContentOK, ContentOK', Requeue
    PROVE  /\ UNCHANGED <<delivered, published>>
           /\ \E A, B, C : Loses(AllQueued, A, B, C)
<1> DEFINE r == ring.queue
           x == Cat(out, Cat(acc, pending.queue))
           m == batch[Len(batch)]
           o == <<m>>
           b == First(batch, Len(batch) - 1)
           q == Cat(o, r)
<1>1. /\ pending' = pending /\ acc' = acc /\ out' = out /\ batch' = b
      /\ delivered' = delivered /\ published' = published /\ batch # <<>>
  BY DEF Requeue, pubVars
<1>2. /\ r \in Messages /\ batch \in Messages /\ x \in Messages
      /\ pending.drops_total \in Nat /\ ring.drops_total \in Nat
  BY Queued, RingParts DEF ContentOK, RingsOK
<1>3. m \in Message /\ b \in Messages /\ batch = Cat(b, o)
  BY <1>1, <1>2, CatEnds
<1>4. AllQueued = Cat(batch, Cat(r, x))
  BY Queued
<1>5. AllQueued' = Cat(b, Cat(ring'.queue, x))
  BY <1>1, QueuedNext
<1>6. o \in Messages
  BY <1>2, <1>3, CatOne
<1>7. q \in Messages /\ Len(q) \in Nat
  <2>1. q \in Messages
    <3> HIDE DEF o, r
    <3> QED  BY <1>2, <1>6, CatLaws
  <2> HIDE DEF q
  <2> QED  BY <2>1, Entries
<1>8. PICK n \in 0..Len(q) :
        /\ ring'.queue = First(q, Len(q) - n)
        /\ ring'.drops_total = ring.drops_total + n
  <2>1. MaxBytes \in Nat /\ ring' = push_front(ring, m, MaxBytes)
    BY QueueAssumption DEF Requeue
  <2>2. PushedFront(ring, ring', m)
    <3> HIDE DEF m
    <3> QED  BY <1>3, <2>1, PushFrontRing DEF ContentOK, RingsOK
  <2> QED  BY <2>2 DEF PushedFront, Cat
<1> DEFINE k == Len(q) - n
           F == First(q, k)
           B == Without(q, k)
<1>9. k \in 0..Len(q) /\ Len(q) - k = n
  BY <1>7
<1> HIDE DEF q
<1>10. F \in Messages /\ B \in Messages /\ Len(B) = n /\ q = Cat(F, B)
  <2> HIDE DEF k
  <2> QED  BY <1>7, <1>9, CatParts
<1>11. ring'.queue = F
  BY <1>8
<1> HIDE DEF r, x, m, o, b, k, F, B
<1>12. Cat(batch, Cat(r, x)) = Cat(b, Cat(q, x))
  <2>1. Cat(r, x) \in Messages /\ Cat(q, x) = Cat(o, Cat(r, x))
    BY <1>2, <1>6, CatLaws DEF q
  <2>2. Cat(Cat(b, o), Cat(r, x)) = Cat(b, Cat(o, Cat(r, x)))
    BY <1>3, <1>6, <2>1, CatLaws
  <2> QED  BY <1>3, <2>1, <2>2
<1>13. Cat(q, x) = Cat(F, Cat(B, x)) /\ Cat(B, x) \in Messages
  BY <1>2, <1>10, CatLaws
<1>14. /\ Cat(b, Cat(F, Cat(B, x))) = Cat(Cat(b, F), Cat(B, x))
       /\ Cat(b, F) \in Messages
  BY <1>3, <1>10, <1>13, CatLaws
<1>15. Cat(b, Cat(F, x)) = Cat(Cat(b, F), x)
  BY <1>2, <1>3, <1>10, CatLaws
<1>16. pending'.drops_total + ring'.drops_total =
         pending.drops_total + ring.drops_total + Len(B)
  BY <1>1, <1>2, <1>8, <1>10
<1>17. AllQueued = Cat(Cat(b, F), Cat(B, x)) /\ AllQueued' = Cat(Cat(b, F), x)
  BY <1>4, <1>5, <1>11, <1>12, <1>13, <1>14, <1>15
<1>18. Loses(AllQueued, Cat(b, F), B, x)
  BY <1>2, <1>10, <1>14, <1>16, <1>17 DEF Loses
<1> QED  BY <1>1, <1>18

\* What can be seen of a step.
SeenPublish ==
    \E size \in Sizes :
        /\ size # 0 /\ published' = published + 1 /\ UNCHANGED delivered
        /\ \E A, B, C :
             Loses(Append(AllQueued, [id |-> published + 1, size |-> size]), A, B, C)

SeenLoss ==
    UNCHANGED <<delivered, published>> /\ \E A, B, C : Loses(AllQueued, A, B, C)

SeenDelivery ==
    /\ UNCHANGED <<published, pending, ring>>
    /\ delivered' = delivered \o batch
    /\ AllQueued = Cat(batch, AllQueued') /\ AllQueued' \in Messages

LEMMA Seen ==
    ASSUME ContentOK, ContentOK', LockOK, Filled, [Next]_vars
    PROVE  Unseen \/ SeenPublish \/ SeenLoss \/ SeenDelivery
<1>1. CASE \E size \in Sizes : Publish(size)
  BY <1>1, PublishSeen DEF SeenPublish
<1>2. CASE Fill /\ UNCHANGED published
  BY <1>2, FillUnseen
<1>3. CASE Spill /\ UNCHANGED published
  BY <1>3, SpillSeen DEF SeenLoss
<1>4. CASE TakeBatch /\ out = <<>> /\ UNCHANGED published
  BY <1>4, TakeUnseen
<1>5. CASE Drain
  BY <1>5, DrainUnseen
<1>6. CASE Delivered
  BY <1>6, DeliveredSeen DEF SeenDelivery
<1>7. CASE Requeue
  BY <1>7, RequeueSeen DEF SeenLoss
<1>8. CASE UNCHANGED <<pending, acc, out, ring, batch, delivered, published>>
  BY <1>8 DEF Unseen, AllQueued
<1> QED  BY <1>1, <1>2, <1>3, <1>4, <1>5, <1>6, <1>7, <1>8, Moves DEF QueueMove

\* Losing a run of neighbours is KeepMost of Outbox.
LEMMA LossKeepsMost ==
    ASSUME ContentOK, ContentOK', NEW q, NEW A, NEW B, NEW C, Loses(q, A, B, C)
    PROVE  Out!KeepMost(q)
<1>0. Keeps(q, Cat(A, C), Len(B))
  BY LostMiddle DEF Loses
<1>1. PICK i \in 0..Len(q), j \in 0..Len(q) :
        /\ i <= j /\ j - i = Len(B)
        /\ Cat(A, C) = SubSeq(q, 1, i) \o SubSeq(q, j + 1, Len(q))
  BY <1>0 DEF Keeps
<1>2. /\ AllQueued' = SubSeq(q, 1, i) \o SubSeq(q, j + 1, Len(q))
      /\ (pending.drops_total + ring.drops_total)' =
           pending.drops_total + ring.drops_total + (j - i)
  <2> HIDE DEF AllQueued
  <2> QED  BY <1>1 DEF Loses
<1> HIDE DEF AllQueued
<1> QED  BY <1>1, <1>2 DEF Out!KeepMost

LEMMA OutboxStep ==
    ASSUME ContentOK, ContentOK', Unseen \/ SeenPublish \/ SeenLoss \/ SeenDelivery
    PROVE  [Out!Next]_(Out!vars)
<1> HIDE DEF AllQueued
<1>1. CASE Unseen
  BY <1>1 DEF Unseen, Out!vars
<1>2. CASE SeenPublish
  <2>1. PICK size \in Sizes :
          /\ size # 0 /\ published' = published + 1 /\ delivered' = delivered
          /\ \E A, B, C :
               Loses(Append(AllQueued, [id |-> published + 1, size |-> size]),
                     A, B, C)
    BY <1>2 DEF SeenPublish
  <2> DEFINE m == [id |-> published + 1, size |-> size]
  <2>2. Out!KeepMost(Append(AllQueued, m))
    BY <2>1, LossKeepsMost
  <2>3. Out!Publish(m)
    BY <2>1, <2>2 DEF Out!Publish
  <2>4. size \in Sizes \ {0}
    BY <2>1
  <2> QED  BY <2>3, <2>4 DEF Out!Next
<1>3. CASE SeenLoss
  <2>1. Out!Drop
    BY <1>3, LossKeepsMost DEF SeenLoss, Out!Drop
  <2> QED  BY <2>1 DEF Out!Next
<1>4. CASE SeenDelivery
  <2> DEFINE n == Len(batch)
             q == AllQueued
  <2>1. batch \in Messages /\ n \in Nat
    BY Entries DEF ContentOK
  <2>2. First(q, n) = batch /\ Without(q, n) = q' /\ Len(q) = n + Len(q')
    BY <1>4, <2>1, CatLaws DEF SeenDelivery
  <2>3. Len(q') \in Nat
    BY <1>4, Entries DEF SeenDelivery
  <2>4. /\ delivered' = delivered \o SubSeq(q, 1, n)
        /\ q' = SubSeq(q, n + 1, Len(q))
    BY <1>4, <2>2 DEF SeenDelivery, First, Without
  <2>5. CASE n = 0
    <3>1. batch = <<>>
      BY <2>1, <2>5, Nothing
    <3>2. delivered' = delivered
      BY <1>4, <3>1, Nothing DEF SeenDelivery, ContentOK
    <3>3. q' = q
      BY <1>4, <3>1, CatLaws DEF SeenDelivery
    <3> QED  BY <1>4, <3>2, <3>3 DEF SeenDelivery, Out!vars
  <2>6. CASE n # 0
    <3>1. n \in 1..Len(q)
      BY <2>1, <2>2, <2>3, <2>6
    <3>2. Out!Deliver(n)
      BY <1>4, <2>4 DEF SeenDelivery, Out!Deliver
    <3> QED  BY <3>1, <3>2 DEF Out!Next
  <2> QED  BY <2>5, <2>6
<1> QED  BY <1>1, <1>2, <1>3, <1>4

-----------------------------------------------------------------------------
(* Order and drop counts follow from what can be seen of a step.           *)

\* The numbers of s rise, up to n at most, and no message is empty.
Rising(s, n) ==
    /\ s \in Messages
    /\ \A i \in 1..Len(s) : s[i].id <= n /\ s[i].size # 0
    /\ \A i, j \in 1..Len(s) : i < j => s[i].id < s[j].id

LEMMA CatAt ==
    ASSUME NEW s \in Messages, NEW t \in Messages
    PROVE  /\ \A i \in 1..Len(s) : Cat(s, t)[i] = s[i]
           /\ \A i \in 1..Len(t) : Cat(s, t)[Len(s) + i] = t[i]
  BY Joined DEF Cat

\* A message with the next number makes a longer rising sequence.
LEMMA RisingLonger ==
    ASSUME NEW n \in Nat, NEW s, Rising(s, n),
           NEW m \in Message, m.id = n + 1, m.size # 0
    PROVE  Rising(Cat(s, <<m>>), n + 1)
<1> DEFINE o == <<m>>
           t == Cat(s, o)
<1>1. s \in Messages /\ o \in Messages /\ Len(o) = 1 /\ o[1] = m
  BY One DEF Rising
<1> HIDE DEF o
<1>2. t \in Messages /\ Len(t) = Len(s) + 1 /\ Len(s) \in Nat
  BY <1>1, CatLaws, Entries
<1>3. /\ \A i \in 1..Len(s) : t[i] = s[i]
      /\ \A i \in 1..Len(o) : t[Len(s) + i] = o[i]
  BY <1>1, CatAt
<1>4. t[Len(s) + 1] = m
  BY <1>1, <1>3
<1>5. \A i \in 1..Len(t) : i \in 1..Len(s) \/ i = Len(s) + 1
  BY <1>2
<1>6. \A i \in 1..Len(s) : s[i].id \in Nat /\ s[i].id <= n /\ s[i].size # 0
  BY <1>1, Entries DEF Rising
<1> HIDE DEF t
<1>7. ASSUME NEW i \in 1..Len(t) PROVE t[i].id <= n + 1 /\ t[i].size # 0
  BY <1>3, <1>4, <1>5, <1>6
<1>8. ASSUME NEW i \in 1..Len(t), NEW j \in 1..Len(t), i < j
      PROVE  t[i].id < t[j].id
  <2>1. i \in 1..Len(s)
    BY <1>2, <1>8
  <2>2. CASE j \in 1..Len(s)
    BY <1>3, <1>8, <2>1, <2>2 DEF Rising
  <2>3. CASE j = Len(s) + 1
    BY <1>3, <1>4, <1>6, <2>1, <2>3
  <2> QED  BY <1>5, <2>2, <2>3
<1>9. Rising(t, n + 1)
  BY <1>2, <1>7, <1>8 DEF Rising
<1> QED  BY <1>9 DEF t, o

\* What is left of a rising sequence rises.
LEMMA RisingShorter ==
    ASSUME NEW n, NEW A \in Messages, NEW B \in Messages, NEW C \in Messages,
           Rising(Cat(A, Cat(B, C)), n)
    PROVE  Rising(Cat(A, C), n)
<1> DEFINE D == Cat(B, C)
           q == Cat(A, D)
           s == Cat(A, C)
           place == [i \in 1..Len(s) |-> IF i <= Len(A) THEN i ELSE i + Len(B)]
<1>1. Len(A) \in Nat /\ Len(B) \in Nat /\ Len(C) \in Nat
  BY Entries
<1>2. /\ D \in Messages /\ Len(D) = Len(B) + Len(C)
      /\ s \in Messages /\ Len(s) = Len(A) + Len(C)
  BY CatLaws
<1>3. q \in Messages /\ Len(q) = Len(A) + Len(D)
  <2> HIDE DEF D
  <2> QED  BY <1>2, CatLaws
<1>4. /\ \A i \in 1..Len(A) : q[i] = A[i] /\ s[i] = A[i]
      /\ \A i \in 1..Len(C) : s[Len(A) + i] = C[i]
      /\ \A i \in 1..Len(C) : D[Len(B) + i] = C[i]
      /\ \A i \in 1..Len(D) : q[Len(A) + i] = D[i]
  <2>1. /\ \A i \in 1..Len(A) : s[i] = A[i]
        /\ \A i \in 1..Len(C) : s[Len(A) + i] = C[i]
        /\ \A i \in 1..Len(C) : D[Len(B) + i] = C[i]
    BY CatAt
  <2>2. /\ \A i \in 1..Len(A) : q[i] = A[i]
        /\ \A i \in 1..Len(D) : q[Len(A) + i] = D[i]
    <3> HIDE DEF D
    <3> QED  BY <1>2, CatAt
  <2> QED  BY <2>1, <2>2
<1> HIDE DEF q, s, D
<1>5. ASSUME NEW i \in 1..Len(s)
      PROVE  place[i] \in 1..Len(q) /\ s[i] = q[place[i]]
  <2>1. CASE i <= Len(A)
    BY <1>1, <1>2, <1>3, <1>4, <2>1
  <2>2. CASE ~(i <= Len(A))
    <3> DEFINE k == i - Len(A)
    <3>1. /\ k \in 1..Len(C) /\ Len(A) + k = i /\ Len(B) + k \in 1..Len(D)
          /\ Len(A) + (Len(B) + k) = i + Len(B)
      BY <1>1, <1>2, <2>2
    <3>2. place[i] = i + Len(B) /\ i + Len(B) \in 1..Len(q)
      BY <1>1, <1>2, <1>3, <2>2
    <3> HIDE DEF k
    <3>3. s[Len(A) + k] = C[k] /\ D[Len(B) + k] = C[k]
      BY <1>4, <3>1
    <3>4. q[Len(A) + (Len(B) + k)] = D[Len(B) + k]
      BY <1>4, <3>1
    <3> QED  BY <3>1, <3>2, <3>3, <3>4
  <2> QED  BY <2>1, <2>2
<1>6. \A i, j \in 1..Len(s) : i < j => place[i] < place[j]
  BY <1>1, <1>2
<1> HIDE DEF place
<1>7. Rising(q, n)
  BY DEF q, D
<1>8. \A i \in 1..Len(s) : s[i].id <= n /\ s[i].size # 0
  BY <1>5, <1>7 DEF Rising
<1>9. \A i, j \in 1..Len(s) : i < j => s[i].id < s[j].id
  BY <1>5, <1>6, <1>7 DEF Rising
<1>10. Rising(s, n)
  BY <1>2, <1>8, <1>9 DEF Rising
<1> QED  BY <1>10 DEF s

\* All messages that are left, the delivered ones first, and the counts.
All == Cat(delivered, AllQueued)

OrderInv ==
    /\ Rising(All, published)
    /\ published = Len(All) + (pending.drops_total + ring.drops_total)

LEMMA OrderFilled == ContentOK /\ OrderInv => Filled
<1> SUFFICES ASSUME ContentOK, OrderInv, NEW i \in 1..Len(AllQueued)
             PROVE  AllQueued[i].size # 0
  BY DEF Filled
<1> DEFINE q == AllQueued
<1>1. q \in Messages /\ delivered \in Messages
  BY Queued DEF ContentOK
<1> HIDE DEF q
<1>2. Cat(delivered, q)[Len(delivered) + i] = q[i]
  BY <1>1, CatAt DEF q
<1>3. /\ Len(Cat(delivered, q)) = Len(delivered) + Len(q)
      /\ Len(delivered) \in Nat /\ Len(q) \in Nat
  BY <1>1, CatLaws, Entries
<1>4. Len(delivered) + i \in 1..Len(Cat(delivered, q))
  BY <1>3 DEF q
<1>5. Rising(Cat(delivered, q), published)
  BY DEF OrderInv, All, q
<1>6. Cat(delivered, q)[Len(delivered) + i].size # 0
  BY <1>4, <1>5 DEF Rising
<1> QED  BY <1>2, <1>6 DEF q

\* A loss, after the delivered messages.
LEMMA LossOrder ==
    ASSUME ContentOK, ContentOK', NEW q \in Messages, NEW A, NEW B, NEW C,
           Loses(q, A, B, C), UNCHANGED delivered,
           NEW n, Rising(Cat(delivered, q), n)
    PROVE  /\ Rising(All', n)
           /\ Len(All') + (pending'.drops_total + ring'.drops_total) =
                Len(Cat(delivered, q)) + (pending.drops_total + ring.drops_total)
<1> DEFINE q2 == AllQueued'
           d == delivered
           D == Cat(d, A)
           E == Cat(B, C)
<1>1. /\ A \in Messages /\ B \in Messages /\ C \in Messages /\ d \in Messages
      /\ q = Cat(A, Cat(B, C)) /\ q2 = Cat(A, C)
      /\ pending'.drops_total + ring'.drops_total =
           pending.drops_total + ring.drops_total + Len(B)
  BY DEF Loses, ContentOK
<1>2. All' = Cat(d, q2)
  BY DEF All
<1> HIDE DEF q2, d
<1>3. /\ D \in Messages /\ E \in Messages /\ Len(D) = Len(d) + Len(A)
      /\ Len(E) = Len(B) + Len(C)
  BY <1>1, CatLaws
<1>4. Cat(d, q2) = Cat(D, C)
  BY <1>1, CatLaws
<1> HIDE DEF E
<1>5. q = Cat(A, E) /\ Cat(d, q) = Cat(D, E)
  <2>1. q = Cat(A, E)
    BY <1>1 DEF E
  <2> QED  BY <1>1, <1>3, <2>1, CatLaws
<1> HIDE DEF D
<1>6. Rising(Cat(D, E), n)
  BY <1>5 DEF d
<1>7. Rising(Cat(D, C), n)
  BY <1>1, <1>3, <1>6, RisingShorter DEF E
<1>8. Len(Cat(D, C)) = Len(D) + Len(C) /\ Len(Cat(D, E)) = Len(D) + Len(E)
  BY <1>1, <1>3, CatLaws
<1>9. /\ Len(D) \in Nat /\ Len(B) \in Nat /\ Len(C) \in Nat
      /\ pending.drops_total \in Nat /\ ring.drops_total \in Nat
  BY <1>1, <1>3, Entries, RingParts DEF ContentOK, RingsOK
<1>10. Len(Cat(D, C)) + (pending'.drops_total + ring'.drops_total) =
         Len(Cat(D, E)) + (pending.drops_total + ring.drops_total)
  BY <1>1, <1>3, <1>8, <1>9
<1> QED  BY <1>2, <1>4, <1>5, <1>7, <1>10 DEF d

LEMMA OrderNext ==
    ASSUME ContentOK, ContentOK', OrderInv,
           Unseen \/ SeenPublish \/ SeenLoss \/ SeenDelivery
    PROVE  OrderInv'
<1> DEFINE q == AllQueued
           q2 == AllQueued'
<1>1. q \in Messages /\ delivered \in Messages /\ batch \in Messages
  BY Queued DEF ContentOK
<1>2. Rising(Cat(delivered, q), published) /\ published \in Nat
  BY DEF OrderInv, All, ContentOK
<1>3. published = Len(Cat(delivered, q)) + (pending.drops_total + ring.drops_total)
  BY DEF OrderInv, All
<1>4. CASE Unseen
  BY <1>4 DEF Unseen, OrderInv, All
<1>5. CASE SeenPublish
  <2>1. PICK size \in Sizes :
          /\ size # 0 /\ published' = published + 1 /\ delivered' = delivered
          /\ \E A, B, C :
               Loses(Append(AllQueued, [id |-> published + 1, size |-> size]),
                     A, B, C)
    BY <1>5 DEF SeenPublish
  <2> DEFINE m == [id |-> published + 1, size |-> size]
             o == <<m>>
             s == Cat(q, o)
             n == published + 1
  <2>2. PICK A, B, C : Loses(Append(q, m), A, B, C)
    BY <2>1
  <2>3. m \in Message /\ m.id = n /\ m.size # 0
    BY <1>2, <2>1, QueueAssumption DEF Message
  <2> HIDE DEF m, q
  <2>4. o \in Messages /\ Len(o) = 1 /\ Append(q, m) = s
    BY <1>1, <2>3, CatOne
  <2>5. Rising(Cat(Cat(delivered, q), o), n)
    BY <1>2, <2>3, RisingLonger
  <2> HIDE DEF o
  <2>6. /\ s \in Messages /\ Cat(Cat(delivered, q), o) = Cat(delivered, s)
        /\ Cat(delivered, q) \in Messages
    BY <1>1, <2>4, CatLaws
  <2>7. Len(Cat(delivered, s)) = Len(Cat(delivered, q)) + 1
    <3> DEFINE T == Cat(delivered, q)
    <3>1. T \in Messages /\ Cat(T, o) = Cat(delivered, s)
      BY <2>6
    <3> HIDE DEF T
    <3>2. Len(Cat(T, o)) = Len(T) + 1
      BY <2>4, <3>1, CatLaws
    <3> QED  BY <3>1, <3>2 DEF T
  <2> HIDE DEF s, n
  <2>8. Rising(Cat(delivered, s), n) /\ Loses(s, A, B, C)
    BY <2>2, <2>4, <2>5, <2>6
  <2>9. /\ Rising(All', n)
        /\ Len(All') + (pending'.drops_total + ring'.drops_total) =
             Len(Cat(delivered, s)) + (pending.drops_total + ring.drops_total)
    BY <2>1, <2>6, <2>8, LossOrder
  <2>10. /\ Len(Cat(delivered, q)) \in Nat
         /\ pending.drops_total \in Nat /\ ring.drops_total \in Nat
    BY <2>6, Entries, RingParts DEF ContentOK, RingsOK
  <2>11. n = Len(All') + (pending'.drops_total + ring'.drops_total)
    BY <1>3, <2>7, <2>9, <2>10 DEF n
  <2>12. published' = n
    BY <2>1 DEF n
  <2> QED  BY <2>9, <2>11, <2>12 DEF OrderInv
<1>6. CASE SeenLoss
  <2>1. PICK A, B, C : Loses(q, A, B, C)
    BY <1>6 DEF SeenLoss
  <2>2. delivered' = delivered /\ published' = published
    BY <1>6 DEF SeenLoss
  <2> HIDE DEF q
  <2>3. /\ Rising(All', published)
        /\ Len(All') + (pending'.drops_total + ring'.drops_total) =
             Len(Cat(delivered, q)) + (pending.drops_total + ring.drops_total)
    BY <1>1, <1>2, <2>1, <2>2, LossOrder
  <2> QED  BY <1>3, <2>2, <2>3 DEF OrderInv
<1>7. CASE SeenDelivery
  <2>1. /\ q = Cat(batch, q2) /\ q2 \in Messages
        /\ delivered' = Cat(delivered, batch) /\ published' = published
        /\ pending' = pending /\ ring' = ring
    BY <1>7 DEF SeenDelivery, Cat
  <2>2. All' = Cat(delivered', q2) /\ All = Cat(delivered, q)
    BY DEF All
  <2> HIDE DEF q, q2
  <2>3. Cat(Cat(delivered, batch), q2) = Cat(delivered, q)
    BY <1>1, <2>1, CatLaws
  <2>4. All' = All
    BY <2>1, <2>2, <2>3
  <2> QED  BY <2>1, <2>4 DEF OrderInv
<1> QED  BY <1>4, <1>5, <1>6, <1>7

\* s rises, and lies before t.
Climbs(s) == \A i, j \in 1..Len(s) : i < j => s[i].id < s[j].id
Before(s, t) == \A i \in 1..Len(s), j \in 1..Len(t) : s[i].id < t[j].id

LEMMA RisingParts ==
    ASSUME NEW s \in Messages, NEW t \in Messages, Climbs(Cat(s, t))
    PROVE  Climbs(s) /\ Climbs(t) /\ Before(s, t)
<1> DEFINE u == Cat(s, t)
<1>1. Len(u) = Len(s) + Len(t) /\ Len(s) \in Nat /\ Len(t) \in Nat
  BY CatLaws, Entries
<1>2. /\ \A i \in 1..Len(s) : u[i] = s[i]
      /\ \A i \in 1..Len(t) : u[Len(s) + i] = t[i]
  BY CatAt
<1> HIDE DEF u
<1>3. \A i, j \in 1..Len(u) : i < j => u[i].id < u[j].id
  BY DEF Climbs, u
<1>4. \A i \in 1..Len(s) : i \in 1..Len(u)
  BY <1>1
<1>5. \A j \in 1..Len(t) : Len(s) + j \in 1..Len(u)
  BY <1>1
<1>6. ASSUME NEW i \in 1..Len(s), NEW j \in 1..Len(s), i < j
      PROVE  s[i].id < s[j].id
  BY <1>2, <1>3, <1>4, <1>6
<1>7. ASSUME NEW i \in 1..Len(t), NEW j \in 1..Len(t), i < j
      PROVE  t[i].id < t[j].id
  <2>1. Len(s) + i < Len(s) + j
    BY <1>1, <1>7
  <2> QED  BY <1>2, <1>3, <1>5, <2>1
<1>8. ASSUME NEW i \in 1..Len(s), NEW j \in 1..Len(t)
      PROVE  s[i].id < t[j].id
  <2>1. i < Len(s) + j
    BY <1>1
  <2> QED  BY <1>2, <1>3, <1>4, <1>5, <2>1
<1> QED  BY <1>6, <1>7, <1>8 DEF Climbs, Before

LEMMA BeforeParts ==
    ASSUME NEW s, NEW t \in Messages, NEW u \in Messages, Before(s, Cat(t, u))
    PROVE  Before(s, t) /\ Before(s, u)
<1> DEFINE v == Cat(t, u)
<1>1. Len(v) = Len(t) + Len(u) /\ Len(t) \in Nat /\ Len(u) \in Nat
  BY CatLaws, Entries
<1>2. /\ \A i \in 1..Len(t) : v[i] = t[i]
      /\ \A i \in 1..Len(u) : v[Len(t) + i] = u[i]
  BY CatAt
<1> HIDE DEF v
<1>3. \A i \in 1..Len(s), j \in 1..Len(v) : s[i].id < v[j].id
  BY DEF Before, v
<1>4. \A j \in 1..Len(t) : j \in 1..Len(v)
  BY <1>1
<1>5. \A j \in 1..Len(u) : Len(t) + j \in 1..Len(v)
  BY <1>1
<1>6. Before(s, t)
  BY <1>2, <1>3, <1>4 DEF Before
<1>7. ASSUME NEW i \in 1..Len(s), NEW j \in 1..Len(u) PROVE s[i].id < u[j].id
  BY <1>2, <1>3, <1>5
<1> QED  BY <1>6, <1>7 DEF Before

LEMMA OrderStages ==
    ASSUME ContentOK, OrderInv
    PROVE  InOrder
<1> DEFINE d == delivered
           r == ring.queue
           p == pending.queue
           x4 == Cat(acc, p)
           x3 == Cat(out, x4)
           x2 == Cat(r, x3)
           x1 == Cat(batch, x2)
<1>1. /\ d \in Messages /\ batch \in Messages /\ r \in Messages
      /\ out \in Messages /\ acc \in Messages /\ p \in Messages
      /\ x4 \in Messages /\ x3 \in Messages /\ x2 \in Messages
      /\ x1 \in Messages /\ AllQueued = x1
  BY Queued DEF ContentOK
<1>2. Climbs(Cat(d, x1))
  BY <1>1 DEF OrderInv, All, Rising, Climbs
<1> HIDE DEF x1
<1>3. Climbs(d) /\ Climbs(x1) /\ Before(d, x1)
  BY <1>1, <1>2, RisingParts
<1> HIDE DEF x2
<1>4. Climbs(batch) /\ Climbs(x2) /\ Before(batch, x2)
  BY <1>1, <1>3, RisingParts DEF x1
<1> HIDE DEF x3
<1>5. Climbs(r) /\ Climbs(x3) /\ Before(r, x3)
  BY <1>1, <1>4, RisingParts DEF x2
<1> HIDE DEF x4
<1>6. Climbs(out) /\ Climbs(x4) /\ Before(out, x4)
  BY <1>1, <1>5, RisingParts DEF x3
<1>7. Climbs(acc) /\ Climbs(p) /\ Before(acc, p)
  BY <1>1, <1>6, RisingParts DEF x4
<1>8. ASSUME NEW s, Before(s, x4) PROVE Before(s, acc) /\ Before(s, p)
  BY <1>1, <1>8, BeforeParts DEF x4
<1>9. ASSUME NEW s, Before(s, x3) PROVE Before(s, out) /\ Before(s, x4)
  BY <1>1, <1>9, BeforeParts DEF x3
<1>10. ASSUME NEW s, Before(s, x2) PROVE Before(s, r) /\ Before(s, x3)
  BY <1>1, <1>10, BeforeParts DEF x2
<1>11. Before(d, batch) /\ Before(d, x2)
  BY <1>1, <1>3, BeforeParts DEF x1
<1>12. /\ Before(d, r) /\ Before(d, x3) /\ Before(batch, r) /\ Before(batch, x3)
  BY <1>4, <1>10, <1>11
<1>13. /\ Before(d, out) /\ Before(d, x4) /\ Before(batch, out)
       /\ Before(batch, x4) /\ Before(r, out) /\ Before(r, x4)
  BY <1>5, <1>9, <1>12
<1>14. /\ Before(d, acc) /\ Before(d, p) /\ Before(batch, acc) /\ Before(batch, p)
       /\ Before(r, acc) /\ Before(r, p) /\ Before(out, acc) /\ Before(out, p)
  BY <1>6, <1>8, <1>13
<1>15. /\ DOMAIN Stages = 1..6
       /\ Stages[1] = d /\ Stages[2] = batch /\ Stages[3] = r
       /\ Stages[4] = out /\ Stages[5] = acc /\ Stages[6] = p
  BY DEF Stages
<1> HIDE DEF d, r, p
<1>16. \A a \in 1..6 : a = 1 \/ a = 2 \/ a = 3 \/ a = 4 \/ a = 5 \/ a = 6
  OBVIOUS
<1>17. ASSUME NEW a \in 1..6
       PROVE  Climbs(Stages[a]) /\ DOMAIN Stages[a] = 1..Len(Stages[a])
  <2>1. Climbs(Stages[a]) /\ Stages[a] \in Messages
    BY <1>1, <1>3, <1>4, <1>5, <1>6, <1>7, <1>15, <1>16
  <2> QED  BY <2>1, LenProperties DEF Messages
<1>18. ASSUME NEW a \in 1..6, NEW b \in 1..6, a < b
       PROVE  Before(Stages[a], Stages[b])
  <2>1. CASE a = 1
    BY <1>11, <1>12, <1>13, <1>14, <1>15, <1>16, <1>18, <2>1
  <2>2. CASE a = 2
    BY <1>12, <1>13, <1>14, <1>15, <1>16, <1>18, <2>2
  <2>3. CASE a = 3
    BY <1>13, <1>14, <1>15, <1>16, <1>18, <2>3
  <2>4. CASE a = 4
    BY <1>14, <1>15, <1>16, <1>18, <2>4
  <2>5. CASE a = 5
    BY <1>7, <1>15, <1>16, <1>18, <2>5
  <2>6. CASE a = 6
    BY <1>18, <2>6
  <2> QED  BY <1>16, <2>1, <2>2, <2>3, <2>4, <2>5, <2>6
<1> HIDE DEF Stages
<1> SUFFICES ASSUME NEW a \in 1..6, NEW b \in 1..6,
                    NEW i \in 1..Len(Stages[a]), NEW j \in 1..Len(Stages[b]),
                    a < b \/ (a = b /\ i < j)
             PROVE  Stages[a][i].id < Stages[b][j].id
  BY <1>15, <1>17 DEF InOrder
<1> QED  BY <1>17, <1>18 DEF Climbs, Before

LEMMA OrderAccounted ==
    ASSUME ContentOK, OrderInv
    PROVE  Accounted
<1> DEFINE d == delivered
           r == ring.queue
           p == pending.queue
           x4 == Cat(acc, p)
           x3 == Cat(out, x4)
           x2 == Cat(r, x3)
           x1 == Cat(batch, x2)
<1>1. /\ d \in Messages /\ batch \in Messages /\ r \in Messages
      /\ out \in Messages /\ acc \in Messages /\ p \in Messages
      /\ x4 \in Messages /\ x3 \in Messages /\ x2 \in Messages
      /\ x1 \in Messages /\ AllQueued = x1
  BY Queued DEF ContentOK
<1>2. All = Cat(d, x1)
  BY <1>1 DEF All
<1> HIDE DEF d, r, p
<1>3. Len(x4) = Len(acc) + Len(p)
  BY <1>1, CatLaws
<1> HIDE DEF x4
<1>4. Len(x3) = Len(out) + Len(x4)
  BY <1>1, CatLaws
<1> HIDE DEF x3
<1>5. Len(x2) = Len(r) + Len(x3)
  BY <1>1, CatLaws
<1> HIDE DEF x2
<1>6. Len(x1) = Len(batch) + Len(x2)
  BY <1>1, CatLaws
<1> HIDE DEF x1
<1>7. Len(All) = Len(d) + Len(x1)
  BY <1>1, <1>2, CatLaws
<1>8. /\ Len(d) \in Nat /\ Len(batch) \in Nat /\ Len(r) \in Nat
      /\ Len(out) \in Nat /\ Len(acc) \in Nat /\ Len(p) \in Nat
      /\ pending.drops_total \in Nat /\ ring.drops_total \in Nat
  BY <1>1, Entries, RingParts DEF ContentOK, RingsOK
<1>9. published = Len(All) + (pending.drops_total + ring.drops_total)
  BY DEF OrderInv
<1>10. published = Len(d) + Len(batch) + Len(r) + Len(out) + Len(acc) + Len(p)
                   + pending.drops_total + ring.drops_total
  BY <1>3, <1>4, <1>5, <1>6, <1>7, <1>8, <1>9
<1> QED  BY <1>10 DEF Accounted, d, r, p

\* The inductive invariant.
QueueInv == ContentOK /\ PcsOK /\ LockOK /\ OrderInv

LEMMA QueueInvInit == Init => QueueInv /\ Out!Init
<1> SUFFICES ASSUME Init PROVE QueueInv /\ Out!Init
  OBVIOUS
<1>1. ContentOK
  BY ContentInit
<1>2. PcsOK /\ LockOK
  BY DEF Init, PcsOK, LockOK
<1>3. AllQueued = <<>> /\ All = <<>>
  <2>1. /\ batch = <<>> /\ ring.queue = <<>> /\ out = <<>> /\ acc = <<>>
        /\ pending.queue = <<>> /\ delivered = <<>>
    BY EmptyExact DEF Init
  <2>2. <<>> \in Messages /\ Cat(<<>>, <<>>) = <<>>
    BY Nothing DEF Cat
  <2>3. AllQueued = Cat(batch, Cat(ring.queue, Cat(out, Cat(acc, pending.queue))))
    BY <1>1, Queued
  <2>4. AllQueued = <<>>
    BY <2>1, <2>2, <2>3
  <2> QED  BY <2>1, <2>2, <2>4 DEF All
<1>4. pending.drops_total = 0 /\ ring.drops_total = 0 /\ published = 0
  BY EmptyExact DEF Init
<1>5. OrderInv
  <2>1. Len(All) = 0 /\ All \in Messages
    BY <1>3, Nothing
  <2>2. Rising(All, published)
    BY <2>1 DEF Rising
  <2> QED  BY <1>4, <2>1, <2>2 DEF OrderInv
<1>6. Out!Init
  BY <1>3, <1>4 DEF Init, Out!Init
<1> QED  BY <1>1, <1>2, <1>5, <1>6 DEF QueueInv

LEMMA QueueInvNext ==
    QueueInv /\ [Next]_vars => QueueInv' /\ [Out!Next]_(Out!vars)
<1> SUFFICES ASSUME QueueInv, [Next]_vars
             PROVE  QueueInv' /\ [Out!Next]_(Out!vars)
  OBVIOUS
<1>1. ContentOK /\ PcsOK /\ LockOK /\ OrderInv
  BY DEF QueueInv
<1>2. ContentOK'
  BY <1>1, ContentNext
<1>3. PcsOK' /\ LockOK'
  BY <1>1, LockNext
<1>4. Filled
  BY <1>1, OrderFilled
<1>5. Unseen \/ SeenPublish \/ SeenLoss \/ SeenDelivery
  BY <1>1, <1>2, <1>4, Seen
<1>6. OrderInv'
  BY <1>1, <1>2, <1>5, OrderNext
<1>7. [Out!Next]_(Out!vars)
  BY <1>1, <1>2, <1>5, OutboxStep
<1> QED  BY <1>2, <1>3, <1>6, <1>7 DEF QueueInv

\* The producer is an Outbox: whatever publishers, accumulator and control task
\* do, with every cap, a step adds one message at the end of what waits, takes
\* the delivered ones from its front or gives up a run of neighbours and counts
\* it (publish_batch, run_accumulator, deliver_assign and requeue_items).
THEOREM ProducerIsOutbox == Spec => OutboxSpec
<1>1. Spec => Out!Init /\ [][Out!Next]_(Out!vars)
  BY QueueInvInit, QueueInvNext, PTL DEF Spec
<1> QED  BY <1>1 DEF OutboxSpec, Out!Spec

\* Messages leave in the order of publishing and none twice: requeue_items puts
\* back what a failed delivery took, behind nothing that was published later.
THEOREM MessagesInOrder == Spec => []InOrder
<1>1. QueueInv => InOrder
  BY OrderStages DEF QueueInv
<1> QED  BY <1>1, QueueInvInit, QueueInvNext, PTL DEF Spec

\* No message vanishes: what was published is delivered, waits, or is in the
\* drops_total of one of the two rings.
THEOREM MessagesAccounted == Spec => []Accounted
<1>1. QueueInv => Accounted
  BY OrderAccounted DEF QueueInv
<1> QED  BY <1>1, QueueInvInit, QueueInvNext, PTL DEF Spec
==============================================================================
