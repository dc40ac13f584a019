---------------------------- MODULE WireProofs ----------------------------
(***************************************************************************)
(* What encode_batch_payload writes, parse_batch_payload_items reads back: *)
(* for batches of every length.  Both are recursive functions; the facts   *)
(* about them are proved by induction over a set of numbers (Induction).   *)
(***************************************************************************)
EXTENDS Wire, SequencesExt, Induction, SequenceTheorems

-----------------------------------------------------------------------------
(* Parts of sequences.                                                     *)

LEMMA CellsLength == \A s \in Cells : Len(s) \in Nat
  BY DEF Cells

LEMMA RangeFrom ==
    ASSUME NEW n \in Nat, NEW k \in 1..n
    PROVE  k..n = {k} \cup ((k + 1)..n)
  OBVIOUS

LEMMA Window ==
    ASSUME NEW s \in Cells, NEW b \in Nat, NEW e \in Nat, NEW n \in Nat,
           1 <= b, e <= Len(s), e - b + 1 = n
    PROVE  /\ SubSeq(s, b, e) \in Cells /\ Len(SubSeq(s, b, e)) = n
           /\ \A i \in 1..n : SubSeq(s, b, e)[i] = s[b + i - 1]
  BY SMTT(30) DEF Cells

LEMMA FromOn ==
    ASSUME NEW S, NEW s \in Seq(S), NEW k \in 1..Len(s)
    PROVE  <<s[k]>> \o SubSeq(s, k + 1, Len(s)) = SubSeq(s, k, Len(s))
<1> DEFINE l == <<s[k]>> \o SubSeq(s, k + 1, Len(s))
           r == SubSeq(s, k, Len(s))
<1>1. l \in Seq(S) /\ r \in Seq(S) /\ Len(l) = Len(r)
  OBVIOUS
<1>2. \A i \in 1..Len(l) : l[i] = r[i]
  OBVIOUS
<1> HIDE DEF l, r
<1>3. l = r
  BY <1>1, <1>2, SeqEqual
<1> QED BY <1>3 DEF l, r

-----------------------------------------------------------------------------
(* What encode_batch_payload writes.                                       *)

\* f[k] is the first k sequences of s, one behind the other.
Chain(f, s) == f[0] = <<>> /\ \A k \in 1..Len(s) : f[k] = f[k - 1] \o s[k]

\* Cells behind cells.
LEMMA Joined ==
    ASSUME NEW s \in Cells, NEW t \in Cells
    PROVE  /\ s \o t \in Cells /\ Len(s \o t) = Len(s) + Len(t)
           /\ Len(s) \in Nat /\ Len(t) \in Nat
           /\ \A i \in 1..Len(s) : (s \o t)[i] = s[i]
           /\ \A i \in 1..Len(t) : (s \o t)[Len(s) + i] = t[i]
  BY DEF Cells

\* A number below Word is written as it is.
LEMMA WordSmall ==
    ASSUME NEW n \in Nat, n < Word
    PROVE  word(n) = n
  BY WireAssumption DEF word

\* A text or payload behind its length.
LEMMA CountedCells ==
    ASSUME NEW s \in Cells
    PROVE  /\ counted(s) \in Cells /\ Len(counted(s)) = Len(s) + 1
           /\ counted(s)[1] = word(Len(s))
           /\ \A i \in 1..Len(s) : counted(s)[i + 1] = s[i]
  BY WireAssumption DEF counted, word, Cells, Cell

LEMMA ChainExists ==
    ASSUME NEW s \in Seq(Cells)
    PROVE  \E f : f \in [0..Len(s) -> Cells] /\ Chain(f, s)
<1> DEFINE n == Len(s)
           step == [k \in Nat |-> [q \in Cells |->
                        IF k + 1 \in 1..n THEN q \o s[k + 1] ELSE q]]
<1>1. n \in Nat /\ \A i \in 1..n : s[i] \in Cells
  OBVIOUS
<1>2. step \in [Nat -> [Cells -> Cells]]
  BY <1>1 DEF Cells
<1>3. <<>> \in Cells
  BY DEF Cells
<1>4. PICK h : Recursive(h, Cells, <<>>, step)
  <2> HIDE DEF step
  <2> QED BY <1>2, <1>3, Recursion
<1> DEFINE g == [k \in 0..n |-> h[k]]
<1>5. ASSUME NEW k \in 1..n PROVE g[k] = g[k - 1] \o s[k]
  <2>1. k - 1 \in Nat /\ (k - 1) + 1 = k /\ k - 1 \in 0..n /\ k \in 0..n
    BY <1>1
  <2>2. h[k] = step[k - 1][h[k - 1]]
    BY <1>4, <2>1 DEF Recursive
  <2>3. step[k - 1][h[k - 1]] = h[k - 1] \o s[k]
    BY <1>4, <2>1 DEF Recursive
  <2> QED BY <2>1, <2>2, <2>3
<1>6. g[0] = <<>> /\ g \in [0..n -> Cells]
  BY <1>1, <1>4 DEF Recursive
<1> QED BY <1>5, <1>6 DEF Chain

LEMMA ChainUnique ==
    ASSUME NEW s, Len(s) \in Nat, NEW f, Chain(f, s), NEW g, Chain(g, s)
    PROVE  \A k \in 0..Len(s) : f[k] = g[k]
<1> DEFINE n == Len(s)
           S == {k \in Nat : k <= n => f[k] = g[k]}
<1>1. 0 \in S
  BY DEF Chain
<1>2. ASSUME NEW k \in S PROVE k + 1 \in S
  <2>1. CASE k + 1 <= n
    <3>1. f[k] = g[k] /\ k \in Nat
      BY <1>2, <2>1
    <3>2. k + 1 \in 1..n /\ (k + 1) - 1 = k
      BY <3>1, <2>1
    <3>3. f[k + 1] = f[k] \o s[k + 1] /\ g[k + 1] = g[k] \o s[k + 1]
      BY <3>2 DEF Chain
    <3>4. f[k + 1] = g[k + 1]
      BY <3>1, <3>3
    <3> QED BY <3>1, <3>4
  <2>2. CASE ~(k + 1 <= n)
    BY <1>2, <2>2
  <2> QED BY <2>1, <2>2
<1>3. S \in SUBSET Nat
  OBVIOUS
<1>4. \A k \in Nat : k \in S
  <2> HIDE DEF S
  <2> QED BY <1>1, <1>2, <1>3, SetInduction
<1> QED BY <1>4

\* FlattenSeq puts sequences one behind the other.
LEMMA FlattenChain ==
    ASSUME NEW s \in Seq(Cells)
    PROVE  \E f : /\ f \in [0..Len(s) -> Cells] /\ Chain(f, s)
                  /\ FlattenSeq(s) = f[Len(s)]
<1>1. PICK g : g \in [0..Len(s) -> Cells] /\ Chain(g, s)
  BY ChainExists
<1>2. CASE Len(s) = 0
  BY <1>1, <1>2 DEF FlattenSeq, Chain
<1>3. CASE Len(s) # 0
  <2> DEFINE n == Len(s)
             f[i \in 1..n] == IF i = 1 THEN s[i] ELSE f[i - 1] \o s[i]
             h == [i \in 1..n |-> g[i]]
  <2>1. n \in Nat /\ n # 0 /\ \A i \in 1..n : s[i] \in Cells /\ <<>> \o s[i] = s[i]
    BY <1>3 DEF Cells
  <2>2. h = [i \in 1..n |-> IF i = 1 THEN s[i] ELSE h[i - 1] \o s[i]]
    <3>1. ASSUME NEW i \in 1..n PROVE h[i] = IF i = 1 THEN s[i] ELSE h[i - 1] \o s[i]
      <4>1. g[i] = g[i - 1] \o s[i] /\ g[0] = <<>>
        BY <1>1 DEF Chain
      <4>2. CASE i = 1
        <5>1. i - 1 = 0
          BY <4>2
        <5>2. g[i] = s[i]
          BY <2>1, <4>1, <5>1
        <5> QED BY <4>2, <5>2
      <4>3. CASE i # 1
        <5>1. i - 1 \in 1..n
          BY <2>1, <4>3
        <5> QED BY <4>1, <4>3, <5>1
      <4> QED BY <4>2, <4>3
    <3>2. h = [i \in 1..n |-> h[i]]
      OBVIOUS
    <3> HIDE DEF h
    <3> QED BY <3>1, <3>2
  <2>3. f = [i \in 1..n |-> IF i = 1 THEN s[i] ELSE f[i - 1] \o s[i]]
    BY <2>2
  <2>4. FlattenSeq(s) = f[n]
    BY <1>3 DEF FlattenSeq
  <2> HIDE DEF f
  <2> DEFINE e == [i \in 0..n |-> IF i = 0 THEN <<>> ELSE f[i]]
  <2>5. e[0] = <<>> /\ \A i \in 1..n : e[i] = f[i]
    BY <2>1
  <2>6. ASSUME NEW i \in 1..n PROVE e[i] = e[i - 1] \o s[i]
    <3>1. i - 1 = 0 \/ i - 1 \in 1..n
      BY <2>1
    <3>2. f[i] = IF i = 1 THEN s[i] ELSE f[i - 1] \o s[i]
      BY <2>3
    <3>3. CASE i = 1
      <4>1. i - 1 = 0
        BY <3>3
      <4> HIDE DEF e
      <4> QED BY <2>1, <2>5, <3>2, <3>3, <4>1
    <3>4. CASE i # 1
      <4>1. i - 1 \in 1..n
        BY <3>1, <3>4
      <4> HIDE DEF e
      <4> QED BY <2>5, <3>2, <3>4, <4>1
    <3> QED BY <3>3, <3>4
  <2> HIDE DEF e
  <2>7. Chain(e, s)
    BY <2>5, <2>6 DEF Chain
  <2>8. e[n] = g[n]
    BY <1>1, <2>1, <2>7, ChainUnique
  <2>9. FlattenSeq(s) = g[n]
    BY <2>1, <2>4, <2>5, <2>8
  <2> QED BY <1>1, <2>9
<1> QED BY <1>2, <1>3

\* A frame more at the end.
LEMMA FlattenAppend ==
    ASSUME NEW s \in Seq(Cells), NEW x \in Cells
    PROVE  FlattenSeq(Append(s, x)) = FlattenSeq(s) \o x
<1>1. PICK t, n : t = Append(s, x) /\ n = Len(s)
  OBVIOUS
<1>2. t \in Seq(Cells) /\ n \in Nat /\ Len(t) = n + 1 /\ t[n + 1] = x /\ \A i \in 1..n : t[i] = s[i]
  BY <1>1
<1>3. PICK f : Chain(f, t) /\ FlattenSeq(t) = f[n + 1]
  BY <1>2, FlattenChain
<1>4. PICK g : Chain(g, s) /\ FlattenSeq(s) = g[n]
  BY <1>1, FlattenChain
<1>5. Chain(f, s)
  <2>1. ASSUME NEW k \in 1..n PROVE f[k] = f[k - 1] \o s[k]
    <3>1. k \in 1..Len(t) /\ t[k] = s[k]
      BY <1>2
    <3> QED BY <1>3, <3>1 DEF Chain
  <2> QED BY <1>1, <1>3, <2>1 DEF Chain
<1>6. f[n] = g[n]
  BY <1>1, <1>2, <1>4, <1>5, ChainUnique
<1>7. f[n + 1] = f[n] \o x
  <2>1. n + 1 \in 1..Len(t) /\ (n + 1) - 1 = n
    BY <1>2
  <2> QED BY <1>2, <1>3, <2>1 DEF Chain
<1> QED BY <1>1, <1>3, <1>4, <1>6, <1>7

\* A frame more at the front.
LEMMA FlattenCons ==
    ASSUME NEW s \in Seq(Cells), NEW x \in Cells
    PROVE  FlattenSeq(<<x>> \o s) = x \o FlattenSeq(s)
<1>1. PICK t, n : t = <<x>> \o s /\ n = Len(s)
  OBVIOUS
<1>2. /\ t \in Seq(Cells) /\ n \in Nat /\ Len(t) = n + 1 /\ t[1] = x
      /\ \A i \in 1..n : t[i + 1] = s[i] /\ s[i] \in Cells
  BY <1>1
<1>3. PICK f : f \in [0..n + 1 -> Cells] /\ Chain(f, t) /\ FlattenSeq(t) = f[n + 1]
  BY <1>2, FlattenChain
<1>4. PICK g : g \in [0..n -> Cells] /\ Chain(g, s) /\ FlattenSeq(s) = g[n]
  BY <1>1, FlattenChain
<1> DEFINE S == {k \in Nat : k <= n => f[k + 1] = x \o g[k]}
<1>5. 0 \in S
  <2>1. 1 \in 1..Len(t) /\ 1 - 1 = 0
    BY <1>2
  <2>2. f[1] = f[0] \o t[1] /\ f[0] = <<>> /\ g[0] = <<>>
    BY <1>3, <1>4, <2>1 DEF Chain
  <2>3. <<>> \o x = x /\ x \o <<>> = x
    BY DEF Cells
  <2>4. f[1] = x \o g[0] /\ 0 + 1 = 1
    BY <1>2, <2>2, <2>3
  <2> QED BY <2>4
<1>6. ASSUME NEW k \in S PROVE k + 1 \in S
  <2> SUFFICES ASSUME k + 1 <= n PROVE f[(k + 1) + 1] = x \o g[k + 1]
    BY <1>6
  <2>1. k \in Nat /\ k <= n /\ f[k + 1] = x \o g[k]
    BY <1>2, <1>6
  <2>2. /\ k + 1 \in 1..n /\ (k + 1) - 1 = k /\ k \in 0..n
        /\ (k + 1) + 1 \in 1..Len(t) /\ ((k + 1) + 1) - 1 = k + 1
    BY <1>2, <2>1
  <2>3. g[k + 1] = g[k] \o s[k + 1]
    BY <1>1, <1>4, <2>2 DEF Chain
  <2>4. f[(k + 1) + 1] = f[k + 1] \o t[(k + 1) + 1]
    BY <1>3, <2>2 DEF Chain
  <2>5. t[(k + 1) + 1] = s[k + 1] /\ s[k + 1] \in Cells /\ g[k] \in Cells
    BY <1>2, <1>4, <2>2
  <2>6. (x \o g[k]) \o s[k + 1] = x \o (g[k] \o s[k + 1])
    <3>1. PICK a, b : a = g[k] /\ b = s[k + 1] /\ a \in Cells /\ b \in Cells
      BY <2>5
    <3>2. x \in Seq(Cell) /\ a \in Seq(Cell) /\ b \in Seq(Cell)
      BY <3>1 DEF Cells
    <3>3. (x \o a) \o b = x \o (a \o b)
      BY <3>2, ConcatAssociative
    <3> QED BY <3>1, <3>3
  <2> QED BY <2>1, <2>3, <2>4, <2>5, <2>6
<1>7. n \in S
  <2>1. S \in SUBSET Nat
    OBVIOUS
  <2> HIDE DEF S
  <2> QED BY <1>2, <1>5, <1>6, <2>1, SetInduction
<1>8. f[n + 1] = x \o g[n]
  BY <1>2, <1>7
<1> QED BY <1>1, <1>3, <1>4, <1>8

\* f[k] is what the first k items are written as.
Written(f, items) ==
    /\ f \in [0..Len(items) -> Cells] /\ f[0] = <<>>
    /\ \A k \in 1..Len(items) : f[k] = f[k - 1] \o counted(items[k])

\* The recursive function of `encoded` exists and is what it is written as.
LEMMA EncodedWritten ==
    ASSUME NEW items \in Seq(Cells)
    PROVE  \E f : Written(f, items) /\ encoded(items) = f[Len(items)]
<1> DEFINE n == Len(items)
           s == [k \in 1..n |-> counted(items[k])]
           f[k \in 0..n] == IF k = 0 THEN <<>> ELSE f[k - 1] \o counted(items[k])
<1>1. n \in Nat /\ \A i \in 1..n : counted(items[i]) \in Cells
  BY CountedCells
<1>2. s \in Seq(Cells) /\ Len(s) = n
  BY <1>1
<1>3. PICK g : g \in [0..n -> Cells] /\ Chain(g, s)
  <2>1. \E g : g \in [0..Len(s) -> Cells] /\ Chain(g, s)
    <3> HIDE DEF s
    <3> QED BY <1>2, ChainExists
  <2> QED BY <1>2, <2>1
<1>4. g[0] = <<>> /\ \A k \in 1..n : g[k] = g[k - 1] \o counted(items[k])
  BY <1>2, <1>3 DEF Chain
<1>5. g = [k \in 0..n |-> IF k = 0 THEN <<>> ELSE g[k - 1] \o counted(items[k])]
  <2>1. ASSUME NEW k \in 0..n
        PROVE  g[k] = IF k = 0 THEN <<>> ELSE g[k - 1] \o counted(items[k])
    <3>1. k = 0 \/ k \in 1..n
      BY <1>1
    <3> QED BY <3>1, <1>4
  <2> QED BY <2>1, <1>3
<1>6. f = [k \in 0..n |-> IF k = 0 THEN <<>> ELSE f[k - 1] \o counted(items[k])]
  BY <1>5
<1>7. encoded(items) = f[n]
  BY DEF encoded
<1> HIDE DEF f
<1>8. f[0] = <<>>
  BY <1>1, <1>6
<1>9. ASSUME NEW k \in 1..n PROVE f[k] = f[k - 1] \o counted(items[k])
  <2>1. k \in 0..n /\ k # 0
    BY <1>1
  <2> QED BY <1>6, <2>1
<1>10. Chain(f, s)
  BY <1>2, <1>8, <1>9 DEF Chain
<1>11. f[n] = g[n]
  <2> HIDE DEF s
  <2>1. \A k \in 0..Len(s) : f[k] = g[k]
    BY <1>1, <1>2, <1>3, <1>10, ChainUnique
  <2> QED BY <1>1, <1>2, <2>1
<1>12. Written(g, items)
  BY <1>3, <1>4 DEF Written
<1> QED BY <1>7, <1>11, <1>12

\* What the first k items are written as begins what more of them are.
LEMMA WrittenPrefix ==
    ASSUME NEW items \in Seq(Cells), NEW f, Written(f, items),
           NEW k \in 0..Len(items), NEW m \in k..Len(items)
    PROVE  /\ Len(f[k]) <= Len(f[m])
           /\ \A i \in 1..Len(f[k]) : f[m][i] = f[k][i]
<1> DEFINE n == Len(items)
           Begins(j) == /\ Len(f[k]) <= Len(f[j])
                        /\ \A i \in 1..Len(f[k]) : f[j][i] = f[k][i]
           S == {j \in Nat : k + j <= n => Begins(k + j)}
<1>1. n \in Nat /\ k \in Nat /\ m \in Nat /\ \A j \in 0..n : f[j] \in Cells
  BY DEF Written
<1>2. 0 \in S
  <2>1. Begins(k)
    BY <1>1 DEF Cells
  <2>2. k + 0 = k
    BY <1>1
  <2> QED BY <2>1, <2>2
<1>3. ASSUME NEW j \in S PROVE j + 1 \in S
  <2> SUFFICES ASSUME k + (j + 1) <= n PROVE Begins(k + (j + 1))
    BY <1>3
  <2>1. PICK x \in Nat : x = k + j
    BY <1>1, <1>3
  <2>2. Begins(x) /\ x + 1 = k + (j + 1) /\ x + 1 \in 1..n /\ x \in 0..n /\ (x + 1) - 1 = x
    BY <1>1, <1>3, <2>1
  <2>3. f[x + 1] = f[x] \o counted(items[x + 1])
    BY <2>2 DEF Written
  <2>4. f[x] \in Cells /\ f[k] \in Cells /\ counted(items[x + 1]) \in Cells
    <3>1. items[x + 1] \in Cells
      BY <2>2
    <3>2. counted(items[x + 1]) \in Cells
      BY <3>1, CountedCells
    <3> QED BY <1>1, <2>2, <3>2
  <2>5. Len(f[x]) <= Len(f[x + 1]) /\ \A i \in 1..Len(f[x]) : f[x + 1][i] = f[x][i]
    <3>1. PICK s, t : s = f[x] /\ t = counted(items[x + 1])
      OBVIOUS
    <3>2. s \in Cells /\ t \in Cells /\ f[x + 1] = s \o t
      BY <2>3, <2>4, <3>1
    <3>3. Len(s) <= Len(s \o t)
      BY <3>2, Joined
    <3>4. \A i \in 1..Len(s) : (s \o t)[i] = s[i]
      BY <3>2, Joined
    <3> QED BY <3>1, <3>2, <3>3, <3>4
  <2>6. Begins(x + 1)
    <3>1. f[x + 1] \in Cells
      BY <1>1, <2>2
    <3>2. Len(f[k]) \in Nat /\ Len(f[x]) \in Nat /\ Len(f[x + 1]) \in Nat
      BY <2>4, <3>1, CellsLength
    <3>3. Len(f[k]) <= Len(f[x + 1])
      BY <2>2, <2>5, <3>2
    <3>4. ASSUME NEW i \in 1..Len(f[k]) PROVE f[x + 1][i] = f[k][i]
      <4>1. i \in 1..Len(f[x])
        BY <2>2, <3>2
      <4> QED BY <2>2, <2>5, <4>1
    <3> QED BY <3>3, <3>4
  <2> QED BY <2>2, <2>6
<1>4. m - k \in S
  <2>1. S \in SUBSET Nat /\ m - k \in Nat
    BY <1>1
  <2> HIDE DEF S
  <2> QED BY <1>2, <1>3, <2>1, SetInduction
<1>5. k + (m - k) = m /\ m <= n
  BY <1>1
<1>6. Begins(m)
  BY <1>4, <1>5
<1> QED BY <1>6

\* Where the k-th item stands in what all of them are written as.
LEMMA ItemWritten ==
    ASSUME NEW items \in Seq(Cells), NEW f, Written(f, items),
           NEW k \in 1..Len(items)
    PROVE  LET p == Len(f[k - 1])
               all == f[Len(items)]
           IN  /\ p \in Nat /\ Len(f[k]) = p + 1 + Len(items[k])
               /\ Len(items[k]) \in Nat /\ p + 1 + Len(items[k]) <= Len(all)
               /\ all \in Cells /\ all[p + 1] = word(Len(items[k]))
               /\ \A i \in 1..Len(items[k]) : all[p + 1 + i] = items[k][i]
<1>1. PICK n : n = Len(items)
  OBVIOUS
<1>2. n \in Nat /\ k \in Nat /\ k \in 1..n /\ k \in 0..n /\ k - 1 \in 0..n /\ n \in k..n
  BY <1>1
<1>3. items[k] \in Cells /\ f[k - 1] \in Cells /\ f[k] \in Cells /\ f[n] \in Cells
  BY <1>1, <1>2 DEF Written
<1>4. PICK s, t, all : s = f[k - 1] /\ t = counted(items[k]) /\ all = f[n]
  OBVIOUS
<1>5. f[k] = s \o t
  BY <1>1, <1>2, <1>4 DEF Written
<1>6. s \in Cells /\ t \in Cells /\ all \in Cells
  BY <1>3, <1>4, CountedCells
<1>7. /\ Len(t) = Len(items[k]) + 1 /\ t[1] = word(Len(items[k]))
      /\ \A i \in 1..Len(items[k]) : t[i + 1] = items[k][i]
  BY <1>3, <1>4, CountedCells
<1>8. Len(f[k]) <= Len(all) /\ \A i \in 1..Len(f[k]) : all[i] = f[k][i]
  BY <1>1, <1>2, <1>4, WrittenPrefix
<1>9. /\ Len(s \o t) = Len(s) + Len(t) /\ Len(s) \in Nat /\ Len(t) \in Nat
      /\ \A i \in 1..Len(t) : (s \o t)[Len(s) + i] = t[i]
  BY <1>6, Joined
<1>10. Len(items[k]) \in Nat /\ Len(all) \in Nat
  BY <1>3, <1>6 DEF Cells
<1>11. ASSUME NEW i \in 1..Len(t) PROVE all[Len(s) + i] = t[i]
  <2>1. Len(s) + i \in 1..Len(f[k])
    BY <1>5, <1>9
  <2> QED BY <1>5, <1>8, <1>9, <2>1
<1>12. all[Len(s) + 1] = word(Len(items[k]))
  BY <1>7, <1>10, <1>11
<1>13. ASSUME NEW i \in 1..Len(items[k]) PROVE all[Len(s) + 1 + i] = items[k][i]
  <2>1. i + 1 \in 1..Len(t) /\ Len(s) + (i + 1) = Len(s) + 1 + i
    BY <1>7, <1>9, <1>10
  <2> QED BY <1>7, <1>11, <2>1
<1>14. Len(f[k]) = Len(s) + 1 + Len(items[k]) /\ Len(s) + 1 + Len(items[k]) <= Len(all)
  <2>1. Len(f[k]) = Len(s) + Len(t)
    BY <1>5, <1>9
  <2>2. Len(f[k]) = Len(s) + 1 + Len(items[k])
    <3>1. PICK a, b \in Nat : a = Len(s) /\ b = Len(items[k])
      BY <1>9, <1>10
    <3>2. Len(t) = b + 1
      BY <1>7, <3>1
    <3>3. Len(f[k]) = a + (b + 1)
      BY <2>1, <3>1, <3>2
    <3>4. a + (b + 1) = a + 1 + b
      OBVIOUS
    <3> QED BY <3>1, <3>3, <3>4
  <2>3. Len(f[k]) <= Len(all)
    BY <1>8
  <2> QED BY <2>2, <2>3
<1> QED BY <1>1, <1>4, <1>6, <1>9, <1>10, <1>12, <1>13, <1>14

-----------------------------------------------------------------------------
(* What parse_batch_payload_items reads.                                   *)

\* An item begins behind the first `at` cells, and this is the item.
Fits(payload, at) ==
    /\ at < Len(payload)
    /\ payload[at + 1] \in 1..MaxItem
    /\ at + 1 + payload[at + 1] <= Len(payload)

ItemAt(payload, at) == SubSeq(payload, at + 2, at + 1 + payload[at + 1])

Result == [ok : BOOLEAN, items : Seq(Cells)]

\* What is read behind the first `at` cells, given what is read further on.
ReadAt(payload, at, h) ==
    IF ~Fits(payload, at) THEN Refused
    ELSE [h[at + 1 + payload[at + 1]] EXCEPT !.items = <<ItemAt(payload, at)>> \o @]

\* g[left][at] is what is read when `left` items are still to come.
Reads(g, payload) ==
    /\ g \in [Nat -> [Nat -> Result]]
    /\ \A at \in Nat : g[0][at] = [ok |-> TRUE, items |-> <<>>]
    /\ \A left, at \in Nat : g[left + 1][at] = ReadAt(payload, at, g[left])

LEMMA ReadAtResult ==
    ASSUME NEW payload \in Cells, NEW at \in Nat, NEW h \in [Nat -> Result]
    PROVE  ReadAt(payload, at, h) \in Result
<1>1. CASE ~Fits(payload, at)
  BY <1>1 DEF ReadAt, Refused, Result
<1>2. CASE Fits(payload, at)
  <2>1. PICK n \in Nat : n = payload[at + 1]
    BY <1>2 DEF Fits, Cells, Cell
  <2>2. PICK r \in Result : r = h[at + 1 + n]
    OBVIOUS
  <2>3. ItemAt(payload, at) \in Cells
    BY <1>2, <2>1, Window DEF Fits, ItemAt
  <2>4. <<ItemAt(payload, at)>> \o r.items \in Seq(Cells)
    BY <2>2, <2>3 DEF Result
  <2>5. [r EXCEPT !.items = <<ItemAt(payload, at)>> \o @] \in Result
    BY <2>2, <2>4 DEF Result
  <2> QED BY <1>2, <2>1, <2>2, <2>5 DEF ReadAt
<1> QED BY <1>1, <1>2

LEMMA ReadsExist ==
    ASSUME NEW payload \in Cells
    PROVE  \E g : Reads(g, payload)
<1> DEFINE R == [Nat -> Result]
           base == [at \in Nat |-> [ok |-> TRUE, items |-> <<>>]]
           step == [left \in Nat |-> [h \in R |-> [at \in Nat |-> ReadAt(payload, at, h)]]]
<1>1. base \in R
  BY DEF Result
<1>2. step \in [Nat -> [R -> R]]
  BY ReadAtResult
<1>3. PICK g : Recursive(g, R, base, step)
  <2> HIDE DEF R, base, step
  <2> QED BY <1>1, <1>2, Recursion
<1>4. g \in [Nat -> R] /\ g[0] = base /\ \A n \in Nat : g[n + 1] = step[n][g[n]]
  BY <1>3 DEF Recursive
<1>5. ASSUME NEW left \in Nat, NEW at \in Nat
      PROVE  g[left + 1][at] = ReadAt(payload, at, g[left])
  <2>1. PICK h \in R : h = g[left]
    BY <1>4
  <2>2. g[left + 1] = step[left][h]
    BY <1>4, <2>1
  <2>3. step[left][h] = [a \in Nat |-> ReadAt(payload, a, h)]
    BY <2>1
  <2> HIDE DEF step
  <2> QED BY <2>1, <2>2, <2>3
<1>6. \A at \in Nat : g[0][at] = [ok |-> TRUE, items |-> <<>>]
  BY <1>4
<1> QED BY <1>4, <1>5, <1>6 DEF Reads

\* The recursive function of parse_batch_payload_items is what is read.
LEMMA ParseReads ==
    ASSUME NEW payload \in Cells
    PROVE  \E g : /\ Reads(g, payload)
                  /\ parse_batch_payload_items(payload) =
                        IF payload = <<>> THEN Refused ELSE g[payload[1]][1]
<1> DEFINE F(f) == [left \in Nat |-> [at \in Nat |->
                        IF left = 0 THEN [ok |-> TRUE, items |-> <<>>]
                        ELSE ReadAt(payload, at, f[left - 1])]]
           f == CHOOSE f : f = F(f)
<1>1. PICK g : Reads(g, payload)
  BY ReadsExist
<1>2. g = F(g)
  <2>1. ASSUME NEW left \in Nat, NEW at \in Nat
        PROVE  g[left][at] = F(g)[left][at]
    <3>1. CASE left = 0
      BY <1>1, <3>1 DEF Reads
    <3>2. CASE left # 0
      <4>1. left - 1 \in Nat /\ (left - 1) + 1 = left
        BY <3>2
      <4>2. g[left][at] = ReadAt(payload, at, g[left - 1])
        BY <1>1, <4>1 DEF Reads
      <4> QED BY <3>2, <4>2
    <3> QED BY <3>1, <3>2
  <2>2. ASSUME NEW left \in Nat PROVE g[left] = F(g)[left]
    <3>1. g[left] \in [Nat -> Result]
      BY <1>1 DEF Reads
    <3>2. PICK u, v : u = g[left] /\ v = F(g)[left]
      OBVIOUS
    <3>3. u = [at \in Nat |-> u[at]] /\ v = [at \in Nat |-> v[at]]
      BY <3>1, <3>2
    <3>4. \A at \in Nat : u[at] = v[at]
      BY <2>1, <3>2
    <3> QED BY <3>2, <3>3, <3>4
  <2>3. g = [left \in Nat |-> g[left]] /\ F(g) = [left \in Nat |-> F(g)[left]]
    BY <1>1 DEF Reads
  <2> HIDE DEF F
  <2> QED BY <2>2, <2>3
<1>3. f = F(f)
  <2> HIDE DEF F
  <2> QED BY <1>2
<1> HIDE DEF f
<1>4. parse_batch_payload_items(payload) = IF payload = <<>> THEN Refused ELSE f[payload[1]][1]
  BY DEF parse_batch_payload_items, ReadAt, Fits, ItemAt, f
<1>5. \A left \in Nat : f[left] = g[left]
  <2> DEFINE S == {left \in Nat : f[left] = g[left]}
             now(h, left) == [at \in Nat |->
                                IF left = 0 THEN [ok |-> TRUE, items |-> <<>>]
                                ELSE ReadAt(payload, at, h[left - 1])]
  <2>1. \A left \in Nat : f[left] = now(f, left) /\ g[left] = now(g, left)
    BY <1>2, <1>3
  <2>2. 0 \in S
    BY <2>1
  <2>3. ASSUME NEW left \in S PROVE left + 1 \in S
    <3>1. left \in Nat /\ left + 1 \in Nat /\ left + 1 # 0 /\ (left + 1) - 1 = left
      BY <2>3
    <3>2. now(f, left + 1) = now(g, left + 1)
      BY <3>1, <2>3
    <3> HIDE DEF now
    <3> QED BY <2>1, <3>1, <3>2
  <2>4. S \in SUBSET Nat
    OBVIOUS
  <2>5. \A left \in Nat : left \in S
    <3> HIDE DEF S
    <3> QED BY <2>2, <2>3, <2>4, SetInduction
  <2> QED BY <2>5
<1>6. payload # <<>> => payload[1] \in Nat
  BY DEF Cells, Cell
<1> QED BY <1>1, <1>4, <1>5, <1>6

\* What is read is a result, whatever the cells are.
LEMMA ParseResult ==
    ASSUME NEW payload \in Cells
    PROVE  parse_batch_payload_items(payload) \in Result
<1>1. PICK g : /\ Reads(g, payload)
               /\ parse_batch_payload_items(payload) =
                        IF payload = <<>> THEN Refused ELSE g[payload[1]][1]
  BY ParseReads
<1>2. payload # <<>> => payload[1] \in Nat
  BY DEF Cells, Cell
<1>3. Refused \in Result
  BY DEF Refused, Result
<1> QED BY <1>1, <1>2, <1>3 DEF Reads

\* A payload: the count and what the items are written as.
LEMMA PayloadCells ==
    ASSUME NEW items \in Seq(Cells), NEW f, Written(f, items),
           encoded(items) = f[Len(items)]
    PROVE  LET payload == encode_batch_payload(items)
           IN  /\ payload \in Cells /\ Len(payload) = 1 + Len(encoded(items))
               /\ Len(encoded(items)) \in Nat
               /\ payload[1] = word(Len(items))
               /\ \A i \in 1..Len(encoded(items)) : payload[1 + i] = encoded(items)[i]
<1>1. PICK s, t : s = <<word(Len(items))>> /\ t = encoded(items)
  OBVIOUS
<1>2. Len(items) \in Nat /\ word(Len(items)) \in Nat
  BY WireAssumption DEF word
<1>3. s \in Cells /\ Len(s) = 1 /\ s[1] = word(Len(items))
  BY <1>1, <1>2 DEF Cells, Cell
<1>4. t \in Cells
  BY <1>1, <1>2 DEF Written
<1>5. encode_batch_payload(items) = s \o t
  BY <1>1 DEF encode_batch_payload
<1>6. /\ s \o t \in Cells /\ Len(s \o t) = 1 + Len(t) /\ Len(t) \in Nat
      /\ \A i \in 1..Len(s) : (s \o t)[i] = s[i]
      /\ \A i \in 1..Len(t) : (s \o t)[1 + i] = t[i]
  <2>1. /\ s \o t \in Cells /\ Len(s \o t) = Len(s) + Len(t) /\ Len(t) \in Nat
        /\ \A i \in 1..Len(s) : (s \o t)[i] = s[i]
        /\ \A i \in 1..Len(t) : (s \o t)[Len(s) + i] = t[i]
    BY <1>3, <1>4, Joined
  <2> QED BY <1>3, <2>1
<1> QED BY <1>1, <1>3, <1>5, <1>6

\* What write_framed_batch_vectored hands on is a sequence of cells.
LEMMA FrameCells ==
    ASSUME NEW items \in Seq(Cells)
    PROVE  /\ encode_batch_payload(items) \in Cells
           /\ encode_framed_batch(items) \in Cells
<1>1. PICK f : Written(f, items) /\ encoded(items) = f[Len(items)]
  BY EncodedWritten
<1>2. encode_batch_payload(items) \in Cells
  BY <1>1, PayloadCells
<1>3. magic("BATC") \in Nat
  BY WireAssumption DEF magic, Types
<1>4. word(Len(items)) \in Nat /\ word(Len(encode_batch_payload(items))) \in Nat
  BY <1>2, WireAssumption DEF word, Cells
<1>5. <<magic("BATC"), word(Len(items)), word(Len(encode_batch_payload(items)))>> \in Cells
  BY <1>3, <1>4 DEF Cells, Cell
<1> QED BY <1>2, <1>5, Joined DEF encode_framed_batch

\* One item: where the k-th one is written it fits if it is within the limit,
\* and it is what is read there.
LEMMA ItemRead ==
    ASSUME NEW items \in Seq(Cells), NEW f, Written(f, items),
           encoded(items) = f[Len(items)],
           Len(encode_batch_payload(items)) < Word,
           NEW k \in 1..Len(items), items[k] # <<>>
    PROVE  LET payload == encode_batch_payload(items)
               at == 1 + Len(f[k - 1])
           IN  /\ at \in Nat
               /\ Fits(payload, at) <=> Len(items[k]) <= MaxItem
               /\ at + 1 + payload[at + 1] = 1 + Len(f[k])
               /\ ItemAt(payload, at) = items[k]
<1>1. PICK payload, p, L, all :
         /\ payload = encode_batch_payload(items) /\ p = Len(f[k - 1])
         /\ L = Len(items[k]) /\ all = encoded(items)
  OBVIOUS
<1>2. /\ p \in Nat /\ Len(f[k]) = p + 1 + L
      /\ L \in Nat /\ p + 1 + L <= Len(all)
      /\ all[p + 1] = word(L)
      /\ \A i \in 1..L : all[p + 1 + i] = items[k][i]
  <2>1. /\ Len(f[k - 1]) \in Nat /\ Len(f[k]) = Len(f[k - 1]) + 1 + Len(items[k])
        /\ Len(items[k]) \in Nat
        /\ Len(f[k - 1]) + 1 + Len(items[k]) <= Len(f[Len(items)])
        /\ f[Len(items)][Len(f[k - 1]) + 1] = word(Len(items[k]))
        /\ \A i \in 1..Len(items[k]) :
                f[Len(items)][Len(f[k - 1]) + 1 + i] = items[k][i]
    BY ItemWritten, ZenonT(60)
  <2> QED BY <1>1, <2>1
<1>3. /\ payload \in Cells /\ Len(payload) = 1 + Len(all) /\ Len(all) \in Nat
      /\ \A i \in 1..Len(all) : payload[1 + i] = all[i]
  BY <1>1, PayloadCells
<1>4. items[k] \in Cells /\ L # 0
  BY <1>1 DEF Cells
<1>5. Word \in Nat /\ MaxItem \in Nat /\ Len(payload) < Word
  BY <1>1, WireAssumption
<1>6. L < Word
  BY <1>2, <1>3, <1>5
<1>7. payload[(1 + p) + 1] = L
  <2>1. p + 1 \in 1..Len(all) /\ 1 + (p + 1) = (1 + p) + 1
    BY <1>2, <1>3
  <2>2. word(L) = L
    BY <1>2, <1>6, WordSmall
  <2> QED BY <2>1, <2>2, <1>2, <1>3
<1>8. Fits(payload, 1 + p) <=> L <= MaxItem
  <2>1. 1 + p < Len(payload) /\ (1 + p) + 1 + L <= Len(payload)
    BY <1>2, <1>3
  <2>2. L \in 1..MaxItem <=> L <= MaxItem
    BY <1>2, <1>4, <1>5
  <2> QED BY <1>7, <2>1, <2>2 DEF Fits
<1>9. ItemAt(payload, 1 + p) = items[k]
  <2>1. PICK s, b, e : s = SubSeq(payload, b, e) /\ b = (1 + p) + 2 /\ e = (1 + p) + 1 + L
    OBVIOUS
  <2>2. b \in Nat /\ e \in Nat /\ 1 <= b /\ e <= Len(payload) /\ e - b + 1 = L
    BY <1>2, <1>3, <2>1
  <2>3. s \in Cells /\ Len(s) = L /\ \A i \in 1..L : s[i] = payload[b + i - 1]
    BY <1>2, <1>3, <2>1, <2>2, Window, SMTT(30)
  <2>4. ASSUME NEW i \in 1..L PROVE s[i] = items[k][i]
    <3>1. b + i - 1 = 1 + (p + 1 + i) /\ p + 1 + i \in 1..Len(all)
      BY <1>2, <1>3, <2>1
    <3> QED BY <3>1, <2>3, <1>2, <1>3
  <2>5. s = items[k]
    BY <1>1, <1>4, <2>3, <2>4, SeqEqual DEF Cells
  <2> QED BY <1>7, <2>1, <2>5 DEF ItemAt
<1>10. (1 + p) + 1 + payload[(1 + p) + 1] = 1 + Len(f[k])
  BY <1>2, <1>7
<1>11. 1 + p \in Nat
  BY <1>2
<1> QED BY <1>1, <1>8, <1>9, <1>10, <1>11

\* What encode_batch_payload writes, parse_batch_payload_items reads back
\* unchanged, for batches of any number of items of any length, as long as the
\* casts to the width of count and length lose nothing; it is refused only for
\* an item above the limit.
THEOREM ParseEncoded ==
    ASSUME NEW items \in Seq(Cells), \A i \in 1..Len(items) : items[i] # <<>>,
           Len(items) < Word, Len(encode_batch_payload(items)) < Word
    PROVE  LET r == parse_batch_payload_items(encode_batch_payload(items))
           IN  /\ r.ok <=> \A i \in 1..Len(items) : Len(items[i]) <= MaxItem
               /\ r.ok => r.items = items
<1>1. PICK f : Written(f, items) /\ encoded(items) = f[Len(items)]
  BY EncodedWritten
<1>2. PICK payload, n : payload = encode_batch_payload(items) /\ n = Len(items)
  OBVIOUS
<1>3. /\ payload \in Cells /\ payload[1] = word(n) /\ Len(payload) \in Nat /\ Len(payload) # 0
      /\ n \in Nat /\ word(n) = n
  <2>1. /\ payload \in Cells /\ Len(payload) = 1 + Len(encoded(items))
        /\ Len(encoded(items)) \in Nat /\ payload[1] = word(n)
    BY <1>1, <1>2, PayloadCells
  <2>2. n \in Nat /\ n < Word
    BY <1>2
  <2> QED BY <2>1, <2>2, WordSmall
<1>4. PICK g : /\ Reads(g, payload)
               /\ parse_batch_payload_items(payload) =
                        IF payload = <<>> THEN Refused ELSE g[payload[1]][1]
  BY <1>3, ParseReads
<1>5. parse_batch_payload_items(payload) = g[n][1]
  BY <1>3, <1>4
<1> DEFINE At(k) == 1 + Len(f[k])
           Small(k) == \A i \in k..n : Len(items[i]) <= MaxItem
           Good(k, r) == /\ r.ok <=> Small(k + 1)
                         /\ r.ok => r.items = SubSeq(items, k + 1, n)
           S == {j \in Nat : j <= n => Good(n - j, g[j][At(n - j)])}
<1>6. 0 \in S
  <2>1. f[n] \in Cells
    BY <1>1, <1>2, <1>3 DEF Written
  <2>2. At(n) \in Nat
    BY <2>1 DEF Cells
  <2>3. g[0][At(n)] = [ok |-> TRUE, items |-> <<>>]
    BY <1>4, <2>2 DEF Reads
  <2>4. SubSeq(items, n + 1, n) = <<>> /\ Small(n + 1) /\ n - 0 = n
    BY <1>2, <1>3
  <2> HIDE DEF At, Small
  <2>5. Good(n, g[0][At(n)])
    <3>1. PICK r : r = g[0][At(n)]
      OBVIOUS
    <3>2. r.ok /\ r.items = <<>>
      BY <2>3, <3>1
    <3> QED BY <2>4, <3>1, <3>2
  <2> QED BY <2>4, <2>5
<1>7. ASSUME NEW j \in S PROVE j + 1 \in S
  <2> SUFFICES ASSUME j + 1 <= n PROVE Good(n - (j + 1), g[j + 1][At(n - (j + 1))])
    BY <1>7
  <2>1. PICK k \in 1..n : k = n - j
    BY <1>3, <1>7
  <2>2. /\ n - (j + 1) = k - 1 /\ (k - 1) + 1 = k /\ j \in Nat /\ k \in Nat
        /\ k \in 1..Len(items)
    BY <1>2, <1>3, <1>7, <2>1
  <2>3. PICK at, L, x : at = At(k - 1) /\ L = Len(items[k]) /\ x = items[k]
    OBVIOUS
  <2>4. /\ at \in Nat /\ (Fits(payload, at) <=> L <= MaxItem)
        /\ at + 1 + payload[at + 1] = At(k) /\ ItemAt(payload, at) = x
    BY <1>1, <1>2, <2>2, <2>3, ItemRead
  <2>5. PICK r : r = g[j][At(k)]
    OBVIOUS
  <2>6. Good(k, r)
    <3>1. j <= n
      BY <1>3, <2>2
    <3>2. j <= n => Good(n - j, g[j][At(n - j)])
      BY <1>7
    <3> HIDE DEF Good, At
    <3> QED BY <2>1, <2>5, <3>1, <3>2
  <2>7. g[j + 1][at] = ReadAt(payload, at, g[j])
    BY <1>4, <2>2, <2>4 DEF Reads
  <2>8. Small(k) <=> L <= MaxItem /\ Small(k + 1)
    <3>1. k..n = {k} \cup ((k + 1)..n)
      BY <1>3, RangeFrom
    <3> QED BY <2>3, <3>1, Zenon
  <2>9. r \in Result
    <3>1. f[k] \in Cells
      BY <1>1, <1>2, <2>2 DEF Written
    <3>2. At(k) \in Nat
      BY <3>1 DEF Cells
    <3> QED BY <1>4, <2>2, <2>5, <3>2 DEF Reads
  <2>10. Good(k - 1, g[j + 1][at])
    <3>1. CASE ~(L <= MaxItem)
      BY <2>2, <2>4, <2>7, <2>8, <3>1 DEF ReadAt, Refused
    <3>2. CASE L <= MaxItem
      <4>1. g[j + 1][at] = [r EXCEPT !.items = <<x>> \o @]
        BY <2>4, <2>5, <2>7, <3>2 DEF ReadAt
      <4>2. /\ g[j + 1][at].ok = r.ok
            /\ g[j + 1][at].items = <<x>> \o r.items
        BY <4>1, <2>9 DEF Result
      <4>3. <<x>> \o SubSeq(items, k + 1, n) = SubSeq(items, k, n)
        BY <1>2, <2>2, <2>3, FromOn
      <4> HIDE DEF Small
      <4> QED BY <2>2, <2>6, <2>8, <3>2, <4>2, <4>3
    <3> QED BY <3>1, <3>2
  <2> HIDE DEF Good, At
  <2> QED BY <2>2, <2>3, <2>10
<1>8. n \in S
  <2>1. S \in SUBSET Nat
    OBVIOUS
  <2> HIDE DEF S
  <2> QED BY <1>3, <1>6, <1>7, <2>1, SetInduction
<1>9. n - n = 0 /\ n <= n /\ f[0] = <<>> /\ At(0) = 1
  BY <1>1, <1>3 DEF Written
<1>10. Good(0, g[n][1])
  <2> HIDE DEF Good, At
  <2> QED BY <1>8, <1>9
<1>11. SubSeq(items, 0 + 1, n) = items /\ 0 + 1 = 1
  BY <1>2
<1> QED BY <1>2, <1>5, <1>10, <1>11
=============================================================================
