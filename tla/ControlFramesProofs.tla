------------------------- MODULE ControlFramesProofs -------------------------
(***************************************************************************)
(* Proofs about ControlFrames: its types, that readers hand on what was    *)
(* written, and that a connection is given up only for a cause, for texts  *)
(* and streams of every length.                                            *)
(***************************************************************************)
EXTENDS ControlFrames, WireProofs, FiniteSetTheorems

-----------------------------------------------------------------------------
(* Magics and kinds of frames.                                             *)

Kinds == {"REG!", "CRDY", "PRDY", "HBRP", "DELV", "FAIL", "ASGN"}

\* What a stream carries behind n frames.
KindsAt(s, n) ==
    CASE s = "consumer" /\ n = 0 -> {"REG!"}
      [] s = "consumer" /\ n # 0 -> {"CRDY"}
      [] s = "producer" -> {"PRDY", "HBRP", "DELV", "FAIL"}
      [] s = "assign" -> {"ASGN"}

LEMMA Constants ==
    /\ Word \in Nat /\ Word > 1 /\ MaxField \in Nat /\ MaxText \in Nat
    /\ Prefix \in Nat /\ MaxField < Word /\ MaxText < Word
    /\ Prefix + MaxField < Word
  BY WireAssumption, FramesAssumption

\* Magics are told from each other, and from a number or a byte.
LEMMA Magics ==
    ASSUME NEW t \in Kinds
    PROVE  /\ magic(t) \in Nat /\ magic(t) > Word
           /\ \A u \in Kinds : magic(u) = magic(t) => u = t
<1> DEFINE At(u) == CHOOSE i \in DOMAIN Types : Types[i] = u
<1>1. DOMAIN Types = 1..8
  BY DEF Types
<1>2. ASSUME NEW u \in Kinds PROVE At(u) \in 1..8 /\ Types[At(u)] = u
  <2>1. \E i \in 1..8 : Types[i] = u
    BY DEF Types, Kinds
  <2> QED BY <1>1, <2>1
<1>3. ASSUME NEW u \in Kinds PROVE magic(u) = Word + At(u)
  BY DEF magic
<1> HIDE DEF At
<1>4. ASSUME NEW u \in Kinds, magic(u) = magic(t) PROVE u = t
  <2>1. At(u) = At(t)
    BY <1>2, <1>3, <1>4, Constants
  <2> QED BY <1>2, <2>1
<1> QED BY <1>2, <1>3, <1>4, Constants

LEMMA KindsDomain == DOMAIN Numbers = Kinds /\ DOMAIN Texts = Kinds
  BY DEF Numbers, Texts, Kinds

LEMMA Shapes ==
    ASSUME NEW t \in Kinds
    PROVE  Numbers[t] \in Nat /\ Texts[t] \in 0..2
<1>1. Numbers[t] \in {0, 1, 2, 3, 5}
  BY DEF Numbers, Kinds
<1>2. Texts[t] \in {0, 1, 2}
  BY KindsDomain DEF Texts, Kinds
<1> QED BY <1>1, <1>2

LEMMA StreamKinds ==
    ASSUME NEW s \in Streams, NEW n \in Nat
    PROVE  KindsAt(s, n) \subseteq Kinds
  BY DEF Streams, KindsAt, Kinds

-----------------------------------------------------------------------------
(* What encode writes.                                                     *)

Byte == 0..Word - 1

\* A frame that a writer of this protocol builds.
Valid(f) ==
    /\ f.type \in Kinds /\ f = Frame(f.type, f.texts)
    /\ f.texts \in Seq(Seq(Byte)) /\ Len(f.texts) = Texts[f.type]
    /\ \A k \in 1..Len(f.texts) :
          Len(f.texts[k]) < Word /\ (IsAddr(f.type, k) => f.texts[k] # <<>>)

\* The cells in front of the k-th text, or of the end.
Pos(f, k) ==
    LET first == 1 + Numbers[f.type]
        second == first + 1 + Len(f.texts[1])
    IN  CASE k = 1 -> first [] k = 2 -> second
          [] k = 3 -> second + 1 + Len(f.texts[2])

\* c is the frame f in cells.
Layout(f, c) ==
    /\ c \in Cells /\ Len(c) = Pos(f, Len(f.texts) + 1)
    /\ c[1] = magic(f.type)
    /\ \A i \in 1..Numbers[f.type] : c[1 + i] = 1
    /\ \A k \in 1..Len(f.texts) :
          /\ c[Pos(f, k) + 1] = Len(f.texts[k])
          /\ \A i \in 1..Len(f.texts[k]) : c[Pos(f, k) + 1 + i] = f.texts[k][i]
    /\ \A i \in 2..Len(c) : c[i] < Word

LEMMA ValidTexts ==
    ASSUME NEW f, Valid(f)
    PROVE  /\ f.texts \in Seq(Cells) /\ Len(f.texts) \in 0..2
           /\ \A k \in 1..Len(f.texts) :
                 /\ f.texts[k] \in Cells /\ f.texts[k] \in Seq(Byte)
                 /\ Len(f.texts[k]) \in Nat /\ Len(f.texts[k]) < Word
<1>1. Byte \subseteq Cell
  BY Constants DEF Byte, Cell
<1>2. Seq(Byte) \subseteq Cells
  BY <1>1 DEF Cells
<1>3. f.texts \in Seq(Seq(Byte))
  BY DEF Valid
<1>4. f.texts \in Seq(Cells)
  BY <1>2, <1>3
<1>5. Len(f.texts) \in 0..2
  BY Shapes DEF Valid
<1>6. ASSUME NEW k \in 1..Len(f.texts)
      PROVE  /\ f.texts[k] \in Cells /\ f.texts[k] \in Seq(Byte)
             /\ Len(f.texts[k]) \in Nat /\ Len(f.texts[k]) < Word
  <2>1. f.texts[k] \in Seq(Byte)
    BY <1>3
  <2> QED BY <1>2, <2>1 DEF Valid
<1> QED BY <1>4, <1>5, <1>6

\* Where texts begin and end.
LEMMA Positions ==
    ASSUME NEW f, Valid(f)
    PROVE  /\ Pos(f, 1) = 1 + Numbers[f.type] /\ Numbers[f.type] \in Nat
           /\ \A k \in 1..Len(f.texts) + 1 : Pos(f, k) \in Nat /\ Pos(f, k) >= Pos(f, 1)
           /\ \A k \in 1..Len(f.texts) :
                 Pos(f, k + 1) = Pos(f, k) + 1 + Len(f.texts[k])
<1>1. PICK n, x, a, b :
        /\ n = Len(f.texts) /\ x = Numbers[f.type]
        /\ a = Len(f.texts[1]) /\ b = Len(f.texts[2])
  OBVIOUS
<1>2. f.type \in Kinds /\ x \in Nat
  BY <1>1, Shapes DEF Valid
<1>3. n \in {0, 1, 2} /\ (n # 0 => a \in Nat) /\ (n = 2 => b \in Nat)
  BY <1>1, ValidTexts
<1>4. Pos(f, 1) = 1 + x
  BY <1>1 DEF Pos
<1>5. Pos(f, 2) = 1 + x + 1 + a
  BY <1>1 DEF Pos
<1>6. Pos(f, 3) = 1 + x + 1 + a + 1 + b
  BY <1>1 DEF Pos
<1>7. ASSUME NEW k \in 1..n + 1 PROVE Pos(f, k) \in Nat /\ Pos(f, k) >= Pos(f, 1)
  <2>1. k = 1 \/ (k = 2 /\ n # 0) \/ (k = 3 /\ n = 2)
    BY <1>3
  <2> QED BY <1>2, <1>3, <1>4, <1>5, <1>6, <2>1
<1>8. ASSUME NEW k \in 1..n PROVE Pos(f, k + 1) = Pos(f, k) + 1 + Len(f.texts[k])
  <2>1. (k = 1 /\ n # 0 /\ k + 1 = 2) \/ (k = 2 /\ n = 2 /\ k + 1 = 3)
    BY <1>3
  <2> QED BY <1>1, <1>2, <1>3, <1>4, <1>5, <1>6, <2>1
<1> QED BY <1>1, <1>2, <1>4, <1>7, <1>8

\* The texts of a frame, written one behind the other.
LEMMA TextsWritten ==
    ASSUME NEW f, Valid(f)
    PROVE  LET e == encoded(f.texts)
           IN  /\ e \in Cells /\ Len(e) = Pos(f, Len(f.texts) + 1) - Pos(f, 1)
               /\ \A k \in 1..Len(f.texts) :
                     LET p == Pos(f, k) - Pos(f, 1)
                     IN  /\ e[p + 1] = Len(f.texts[k])
                         /\ \A i \in 1..Len(f.texts[k]) :
                               e[p + 1 + i] = f.texts[k][i]
<1>1. PICK ts, n : ts = f.texts /\ n = Len(ts)
  OBVIOUS
<1>2. /\ ts \in Seq(Cells) /\ n \in 0..2
      /\ \A k \in 1..n : Len(ts[k]) \in Nat /\ Len(ts[k]) < Word
  BY <1>1, ValidTexts
<1>3. PICK g : Written(g, ts) /\ encoded(ts) = g[n]
  BY <1>1, <1>2, EncodedWritten
<1>4. /\ \A k \in 0..n : g[k] \in Cells /\ Len(g[k]) \in Nat
      /\ Len(g[0]) = 0
  BY <1>1, <1>2, <1>3 DEF Written, Cells
<1>5. ASSUME NEW k \in 1..n
      PROVE  /\ Len(g[k]) = Len(g[k - 1]) + 1 + Len(ts[k])
             /\ g[n][Len(g[k - 1]) + 1] = Len(ts[k])
             /\ \A i \in 1..Len(ts[k]) : g[n][Len(g[k - 1]) + 1 + i] = ts[k][i]
  <2>1. k \in 1..Len(ts)
    BY <1>1
  <2>2. /\ Len(g[k]) = Len(g[k - 1]) + 1 + Len(ts[k])
        /\ g[Len(ts)][Len(g[k - 1]) + 1] = word(Len(ts[k]))
        /\ \A i \in 1..Len(ts[k]) : g[Len(ts)][Len(g[k - 1]) + 1 + i] = ts[k][i]
    BY <1>2, <1>3, <2>1, ItemWritten, ZenonT(60)
  <2>3. word(Len(ts[k])) = Len(ts[k])
    BY <1>2, WordSmall
  <2> QED BY <1>1, <2>2, <2>3
<1>6. /\ \A k \in 1..n + 1 : Pos(f, k) \in Nat
      /\ \A k \in 1..n : Pos(f, k + 1) = Pos(f, k) + 1 + Len(ts[k])
  BY <1>1, Positions
<1>7. ASSUME NEW k \in 0..n PROVE Len(g[k]) = Pos(f, k + 1) - Pos(f, 1)
  <2>1. k = 0 \/ (k = 1 /\ n # 0) \/ (k = 2 /\ n = 2)
    BY <1>2
  <2>2. Pos(f, 1) \in Nat
    BY <1>2, <1>6
  <2>3. n # 0 => Len(g[1]) = Len(g[0]) + 1 + Len(ts[1]) /\ Len(ts[1]) \in Nat
    <3>1. n # 0 => 1 \in 1..n /\ 1 - 1 = 0
      BY <1>2
    <3> QED BY <1>2, <1>5, <3>1
  <2>4. n = 2 => Len(g[2]) = Len(g[1]) + 1 + Len(ts[2]) /\ Len(ts[2]) \in Nat
    <3>1. n = 2 => 2 \in 1..n /\ 2 - 1 = 1
      BY <1>2
    <3> QED BY <1>2, <1>5, <3>1
  <2>5. n # 0 => Pos(f, 2) = Pos(f, 1) + 1 + Len(ts[1])
    <3>1. n # 0 => 1 \in 1..n /\ 1 + 1 = 2
      BY <1>2
    <3> QED BY <1>6, <3>1
  <2>6. n = 2 => Pos(f, 3) = Pos(f, 2) + 1 + Len(ts[2])
    <3>1. n = 2 => 2 \in 1..n /\ 2 + 1 = 3
      BY <1>2
    <3> QED BY <1>6, <3>1
  <2>7. CASE k = 0
    BY <1>4, <2>2, <2>7
  <2>8. CASE k = 1 /\ n # 0
    <3>1. k + 1 = 2 /\ Len(g[k]) = 1 + Len(ts[1])
      BY <1>4, <2>3, <2>8
    <3> QED BY <2>2, <2>3, <2>5, <2>8, <3>1
  <2>9. CASE k = 2 /\ n = 2
    <3>1. PICK a, b, p \in Nat : a = Len(ts[1]) /\ b = Len(ts[2]) /\ p = Pos(f, 1)
      BY <2>2, <2>3, <2>4, <2>9
    <3>2. Len(g[1]) = Len(g[0]) + 1 + a /\ Len(g[2]) = Len(g[1]) + 1 + b /\ Len(g[0]) = 0
      <4>1. n # 0 /\ n = 2
        BY <2>9
      <4>2. Len(g[0]) = 0
        BY <1>4
      <4> QED BY <2>3, <2>4, <3>1, <4>1, <4>2, Zenon
    <3>3. Pos(f, 2) = p + 1 + a /\ Pos(f, 3) = Pos(f, 2) + 1 + b
      BY <2>5, <2>6, <2>9, <3>1
    <3>4. Len(g[2]) = Pos(f, 3) - p
      BY <3>2, <3>3
    <3>5. k + 1 = 3
      BY <2>9
    <3> QED BY <2>9, <3>1, <3>4, <3>5
  <2> QED BY <2>1, <2>7, <2>8, <2>9
<1>8. n \in 0..n /\ \A k \in 1..n : k - 1 \in 0..n /\ (k - 1) + 1 = k
  BY <1>2
<1>9. g[n] \in Cells /\ Len(g[n]) = Pos(f, n + 1) - Pos(f, 1)
  BY <1>4, <1>7, <1>8
<1>10. ASSUME NEW k \in 1..n
       PROVE  /\ g[n][(Pos(f, k) - Pos(f, 1)) + 1] = Len(ts[k])
              /\ \A i \in 1..Len(ts[k]) :
                    g[n][(Pos(f, k) - Pos(f, 1)) + 1 + i] = ts[k][i]
  <2>1. Len(g[k - 1]) = Pos(f, k) - Pos(f, 1)
    <3>1. k - 1 \in 0..n /\ (k - 1) + 1 = k
      BY <1>8
    <3> QED BY <1>7, <3>1
  <2> QED BY <1>5, <2>1
<1> QED BY <1>1, <1>3, <1>9, <1>10

\* The numbers of a frame, in cells.
LEMMA NumbersWritten ==
    ASSUME NEW f, Valid(f)
    PROVE  LET c == [i \in DOMAIN f.nums |-> word(f.nums[i])]
           IN  /\ c \in Cells /\ Len(c) = Numbers[f.type]
               /\ f.nums \in Seq(Cell) /\ Len(f.nums) = Numbers[f.type]
               /\ \A i \in 1..Numbers[f.type] : c[i] = 1 /\ f.nums[i] = 1
<1>1. PICK n : n = Numbers[f.type]
  OBVIOUS
<1>2. n \in Nat
  BY <1>1, Shapes DEF Valid
<1>3. f.nums = [i \in 1..n |-> 1]
  <2>1. f = Frame(f.type, f.texts)
    BY DEF Valid
  <2>2. Frame(f.type, f.texts).nums = [i \in 1..n |-> 1]
    BY <1>1 DEF Frame
  <2> QED BY <2>1, <2>2
<1>4. word(1) = 1
  BY Constants, WordSmall
<1>5. [i \in DOMAIN f.nums |-> word(f.nums[i])] = [i \in 1..n |-> 1]
  BY <1>3, <1>4
<1>6. /\ [i \in 1..n |-> 1] \in Seq(Cell) /\ Len([i \in 1..n |-> 1]) = n
      /\ \A i \in 1..n : [j \in 1..n |-> 1][i] = 1
  BY <1>2 DEF Cell
<1> QED BY <1>1, <1>3, <1>5, <1>6 DEF Cells

\* What encode writes of a frame.
LEMMA EncodeLayout ==
    ASSUME NEW f, Valid(f)
    PROVE  Layout(f, encode(f))
<1>1. PICK m, c, e, x, n :
        /\ m = <<magic(f.type)>> /\ c = [i \in DOMAIN f.nums |-> word(f.nums[i])]
        /\ e = encoded(f.texts) /\ x = Numbers[f.type] /\ n = Len(f.texts)
  OBVIOUS
<1>2. m \in Cells /\ Len(m) = 1 /\ m[1] = magic(f.type)
  BY <1>1, Magics DEF Valid, Cells, Cell
<1>3. c \in Cells /\ Len(c) = x /\ \A i \in 1..x : c[i] = 1
  BY <1>1, NumbersWritten
<1>4. /\ e \in Cells /\ Len(e) = Pos(f, n + 1) - Pos(f, 1)
      /\ \A k \in 1..n :
            /\ e[(Pos(f, k) - Pos(f, 1)) + 1] = Len(f.texts[k])
            /\ \A i \in 1..Len(f.texts[k]) :
                  e[(Pos(f, k) - Pos(f, 1)) + 1 + i] = f.texts[k][i]
  BY <1>1, TextsWritten
<1>5. /\ n \in 0..2 /\ x \in Nat /\ Pos(f, 1) = 1 + x
      /\ \A k \in 1..n + 1 : Pos(f, k) \in Nat /\ Pos(f, k) >= Pos(f, 1)
      /\ \A k \in 1..n : Pos(f, k + 1) = Pos(f, k) + 1 + Len(f.texts[k])
  BY <1>1, Positions, ValidTexts
<1>6. /\ m \o c \in Cells /\ Len(m \o c) = 1 + x /\ (m \o c)[1] = magic(f.type)
      /\ \A i \in 1..x : (m \o c)[1 + i] = 1
  <2>1. /\ m \o c \in Cells /\ Len(m \o c) = Len(m) + Len(c)
        /\ \A i \in 1..Len(m) : (m \o c)[i] = m[i]
        /\ \A i \in 1..Len(c) : (m \o c)[Len(m) + i] = c[i]
    BY <1>2, <1>3, Joined
  <2> QED BY <1>2, <1>3, <1>5, <2>1
<1>7. PICK mc : mc = m \o c
  OBVIOUS
<1>8. /\ mc \in Cells /\ Len(mc) = 1 + x /\ mc[1] = magic(f.type)
      /\ \A i \in 1..x : mc[1 + i] = 1
  BY <1>6, <1>7
<1>9. PICK F : F = mc \o e
  OBVIOUS
<1>10. encode(f) = F
  BY <1>1, <1>7, <1>9 DEF encode
<1>11. /\ F \in Cells /\ Len(F) = Len(mc) + Len(e) /\ Len(e) \in Nat
       /\ \A i \in 1..Len(mc) : F[i] = mc[i]
       /\ \A i \in 1..Len(e) : F[Len(mc) + i] = e[i]
  BY <1>4, <1>8, <1>9, Joined
<1>12. Len(F) = Pos(f, n + 1)
  <2>1. n + 1 \in 1..n + 1
    BY <1>5
  <2> QED BY <1>4, <1>5, <1>8, <1>11, <2>1
<1>13. F[1] = magic(f.type) /\ \A i \in 1..x : F[1 + i] = 1
  BY <1>5, <1>8, <1>11
<1>14. ASSUME NEW k \in 1..n
       PROVE  /\ F[Pos(f, k) + 1] = Len(f.texts[k])
              /\ \A i \in 1..Len(f.texts[k]) : F[Pos(f, k) + 1 + i] = f.texts[k][i]
              /\ Pos(f, k + 1) <= Len(F)
  <2>1. PICK p, q, L, z : /\ p = Pos(f, k) /\ q = Pos(f, k + 1) /\ L = Len(f.texts[k])
                          /\ z = Pos(f, n + 1)
    OBVIOUS
  <2>3. L \in Nat
    BY <1>1, <2>1, ValidTexts
  <2>4. p \in Nat /\ q \in Nat /\ z \in Nat /\ q = p + 1 + L /\ p >= 1 + x
    <3>1. k \in 1..n + 1 /\ k + 1 \in 1..n + 1 /\ n + 1 \in 1..n + 1
      BY <1>5
    <3> QED BY <1>5, <2>1, <3>1
  <2>5. q <= z
    <3>1. k + 1 = n + 1 \/ (k + 1 = n /\ n \in 1..n)
      BY <1>5
    <3>2. CASE k + 1 = n + 1
      BY <2>1, <2>4, <3>2
    <3>3. CASE k + 1 = n /\ n \in 1..n
      <4>1. z = Pos(f, n) + 1 + Len(f.texts[n]) /\ Len(f.texts[n]) \in Nat
        BY <1>1, <1>5, <2>1, <3>3, ValidTexts
      <4>2. q = Pos(f, n)
        BY <2>1, <3>3
      <4>3. PICK last \in Nat : last = Len(f.texts[n])
        BY <4>1
      <4>4. z = q + 1 + last
        BY <4>1, <4>2, <4>3
      <4> QED BY <2>4, <4>3, <4>4
    <3> QED BY <3>1, <3>2, <3>3
  <2>6. PICK d \in Nat : p = 1 + x + d
    <3>1. p - (1 + x) \in Nat /\ p = 1 + x + (p - (1 + x))
      BY <1>5, <2>4
    <3> QED BY <3>1
  <2>7. p - Pos(f, 1) = d
    BY <1>5, <2>4, <2>6
  <2>8. e[d + 1] = L /\ \A i \in 1..L : e[d + 1 + i] = f.texts[k][i]
    BY <1>4, <2>1, <2>7
  <2>9. Len(F) = z /\ Len(F) = 1 + x + Len(e)
    BY <1>8, <1>11, <1>12, <2>1
  <2>10. ASSUME NEW i \in 0..L PROVE F[p + 1 + i] = e[d + 1 + i]
    <3>1. d + 1 + i \in 1..Len(e) /\ (1 + x) + (d + 1 + i) = p + 1 + i
      BY <1>5, <1>11, <2>3, <2>4, <2>5, <2>6, <2>9
    <3> QED BY <1>8, <1>11, <3>1
  <2>11. F[p + 1] = L
    <3>1. 0 \in 0..L /\ p + 1 + 0 = p + 1 /\ d + 1 + 0 = d + 1
      BY <2>3, <2>4, <2>6
    <3> QED BY <2>8, <2>10, <3>1
  <2>12. ASSUME NEW i \in 1..L PROVE F[p + 1 + i] = f.texts[k][i]
    <3>1. i \in 0..L
      BY <2>3
    <3> QED BY <2>8, <2>10, <3>1
  <2> QED BY <2>1, <2>5, <2>9, <2>11, <2>12
<1>15. ASSUME NEW i \in 2..Len(F) PROVE F[i] < Word
  <2>1. CASE i <= 1 + x
    <3>1. PICK j \in 1..x : i = 1 + j
      <4>1. i - 1 \in 1..x /\ i = 1 + (i - 1)
        BY <1>5, <2>1
      <4> QED BY <4>1
    <3> QED BY <1>13, <3>1, Constants
  <2>2. ASSUME NEW k \in 1..n, Pos(f, k) < i, i <= Pos(f, k + 1) PROVE F[i] < Word
    <3>1. PICK p, L : p = Pos(f, k) /\ L = Len(f.texts[k])
      OBVIOUS
    <3>2. p \in Nat /\ L \in Nat /\ L < Word /\ Pos(f, k + 1) = p + 1 + L
      <4>1. k \in 1..n + 1
        BY <1>5
      <4> QED BY <1>1, <1>5, <3>1, <4>1, ValidTexts
    <3>3. CASE i = p + 1
      BY <1>14, <3>1, <3>2, <3>3
    <3>4. CASE i # p + 1
      <4>1. PICK j \in 1..L : i = p + 1 + j
        <5>1. i - (p + 1) \in 1..L /\ i = p + 1 + (i - (p + 1))
          BY <2>2, <3>1, <3>2, <3>4
        <5> QED BY <5>1
      <4>2. F[i] = f.texts[k][j]
        BY <1>14, <3>1, <4>1
      <4>3. f.texts[k] \in Seq(Byte)
        BY <1>1, ValidTexts
      <4>4. f.texts[k][j] \in Byte
        BY <3>1, <4>1, <4>3
      <4> QED BY <4>2, <4>4, Constants DEF Byte
    <3> QED BY <3>3, <3>4
  <2>3. i <= 1 + x \/ \E k \in 1..n : Pos(f, k) < i /\ i <= Pos(f, k + 1)
    <3>1. CASE n = 0
      BY <1>5, <1>12, <3>1
    <3>2. CASE n = 1
      <4>1. 1 \in 1..n /\ Pos(f, 1 + 1) = Len(F) /\ Pos(f, 1) = 1 + x
        BY <1>5, <1>12, <3>2
      <4> QED BY <1>5, <4>1
    <3>3. CASE n = 2
      <4>1. /\ 1 \in 1..n /\ 2 \in 1..n /\ Pos(f, 2 + 1) = Len(F) /\ Pos(f, 1) = 1 + x
            /\ 1 + 1 = 2 /\ Pos(f, 2) \in Nat
        BY <1>5, <1>12, <3>3
      <4> QED BY <1>5, <4>1
    <3> QED BY <1>5, <3>1, <3>2, <3>3
  <2> QED BY <2>1, <2>2, <2>3
<1>16. /\ F \in Cells /\ Len(F) = Pos(f, Len(f.texts) + 1)
       /\ \A i \in 1..Numbers[f.type] : F[1 + i] = 1
       /\ \A k \in 1..Len(f.texts) :
             /\ F[Pos(f, k) + 1] = Len(f.texts[k])
             /\ \A i \in 1..Len(f.texts[k]) : F[Pos(f, k) + 1 + i] = f.texts[k][i]
  BY <1>1, <1>11, <1>12, <1>13, <1>14
<1> QED BY <1>10, <1>13, <1>15, <1>16 DEF Layout

-----------------------------------------------------------------------------
(* What a reader makes of the first cells of a frame.                      *)

\* The reader has the first cells of c.
Begins(cells, c) ==
    /\ cells \in Cells /\ Len(cells) \in 1..Len(c)
    /\ \A i \in 1..Len(cells) : cells[i] = c[i]

\* A text whose beginning the reader knows is read as it was written.
LEMMA TextRead ==
    ASSUME NEW f, Valid(f), NEW c, Layout(f, c), NEW cells, Begins(cells, c),
           NEW k \in 1..Len(f.texts), before(f.type, cells, k) = Pos(f, k)
    PROVE  /\ begun(f.type, cells, k) <=> Len(cells) > Pos(f, k)
           /\ begun(f.type, cells, k) =>
                 text_len(f.type, cells, k) = Len(f.texts[k])
           /\ whole(f.type, cells, k) <=> Len(cells) >= Pos(f, k + 1)
           /\ whole(f.type, cells, k) => text(f.type, cells, k) = f.texts[k]
<1>1. PICK n, p, q, L, t : /\ n = Len(cells) /\ p = Pos(f, k) /\ q = Pos(f, k + 1)
                           /\ L = Len(f.texts[k]) /\ t = f.texts[k]
  OBVIOUS
<1>2. n \in Nat /\ p \in Nat /\ L \in Nat /\ q = p + 1 + L /\ t \in Cells /\ Len(t) = L
  <2>1. Len(f.texts) \in 0..2
    BY ValidTexts
  <2>2. k \in 1..Len(f.texts) + 1
    BY <2>1
  <2>3. n \in Nat
    BY <1>1 DEF Begins, Cells
  <2>4. p \in Nat /\ q = p + 1 + L
    BY <1>1, <2>2, Positions
  <2>5. L \in Nat /\ t \in Cells
    BY <1>1, ValidTexts
  <2> QED BY <1>1, <2>3, <2>4, <2>5
<1>3. /\ c[p + 1] = L /\ \A i \in 1..L : c[p + 1 + i] = t[i]
      /\ cells \in Cells /\ \A i \in 1..n : cells[i] = c[i]
  BY <1>1 DEF Layout, Begins
<1>4. begun(f.type, cells, k) <=> n > p
  BY <1>1 DEF begun
<1>5. n > p => text_len(f.type, cells, k) = L
  <2>1. n > p => p + 1 \in 1..n
    BY <1>2
  <2> QED BY <1>1, <1>3, <2>1 DEF text_len
<1>6. whole(f.type, cells, k) <=> n >= q
  <2>1. CASE n > p
    BY <1>1, <1>2, <1>4, <1>5, <2>1 DEF whole
  <2>2. CASE ~(n > p)
    BY <1>2, <1>4, <2>2 DEF whole
  <2> QED BY <2>1, <2>2
<1>7. ASSUME n >= q PROVE text(f.type, cells, k) = t
  <2>1. n > p /\ p + 1 + L <= n
    BY <1>2, <1>7
  <2>2. PICK b, e, w : b = p + 2 /\ e = p + 1 + L /\ w = SubSeq(cells, b, e)
    OBVIOUS
  <2>3. text(f.type, cells, k) = w
    BY <1>1, <1>5, <2>1, <2>2 DEF text
  <2>4. b \in Nat /\ e \in Nat /\ 1 <= b /\ e <= Len(cells) /\ e - b + 1 = L
    <3>1. p \in Nat /\ L \in Nat /\ n \in Nat /\ p + 1 + L <= n
      BY <1>2, <2>1
    <3>2. b \in Nat /\ e \in Nat /\ 1 <= b /\ e <= n /\ e - b + 1 = L
      BY <2>2, <3>1
    <3> QED BY <1>1, <3>2
  <2>5. w \in Cells /\ Len(w) = L /\ \A i \in 1..L : w[i] = cells[b + i - 1]
    BY <1>2, <1>3, <2>2, <2>4, Window, SMTT(30)
  <2>6. ASSUME NEW i \in 1..L PROVE w[i] = t[i]
    <3>1. b + i - 1 = p + 1 + i /\ p + 1 + i \in 1..n
      BY <1>2, <2>1, <2>2
    <3> QED BY <1>3, <2>5, <3>1
  <2>7. w = t
    <3>1. w \in Seq(Cell) /\ t \in Seq(Cell) /\ Len(w) = Len(t)
      BY <1>2, <2>5 DEF Cells
    <3>2. \A i \in 1..Len(w) : w[i] = t[i]
      BY <2>5, <2>6
    <3> QED BY <3>1, <3>2, SeqEqual
  <2> QED BY <2>3, <2>7
<1> QED BY <1>1, <1>4, <1>5, <1>6, <1>7

\* The numbers are read as they were written.
LEMMA NumbersRead ==
    ASSUME NEW f, Valid(f), NEW c, Layout(f, c), NEW cells, Begins(cells, c),
           Len(cells) >= 1 + Numbers[f.type]
    PROVE  SubSeq(cells, 2, 1 + Numbers[f.type]) = f.nums
<1>1. PICK x, w : x = Numbers[f.type] /\ w = SubSeq(cells, 2, 1 + x)
  OBVIOUS
<1>2. x \in Nat
  BY <1>1, Positions
<1>3. /\ f.nums \in Cells /\ Len(f.nums) = x
      /\ \A i \in 1..x : f.nums[i] = 1
  BY <1>1, NumbersWritten DEF Cells
<1>4. /\ cells \in Cells /\ Len(cells) \in Nat /\ \A i \in 1..Len(cells) : cells[i] = c[i]
      /\ \A i \in 1..x : c[1 + i] = 1
  BY <1>1 DEF Layout, Begins, Cells
<1>5. PICK b, e \in Nat :
        b = 2 /\ e = 1 + x /\ 1 <= b /\ e <= Len(cells) /\ e - b + 1 = x
  <2>1. 2 \in Nat /\ 1 + x \in Nat /\ 1 <= 2 /\ (1 + x) - 2 + 1 = x
    BY <1>2
  <2> QED BY <1>1, <2>1
<1>6. w \in Cells /\ Len(w) = x /\ \A i \in 1..x : w[i] = cells[2 + i - 1]
  <2>1. w = SubSeq(cells, b, e)
    BY <1>1, <1>5
  <2>2. w \in Cells /\ Len(w) = x /\ \A i \in 1..x : w[i] = cells[b + i - 1]
    BY <1>2, <1>4, <1>5, <2>1, Window, SMTT(30)
  <2> QED BY <1>5, <2>2
<1>7. ASSUME NEW i \in 1..x PROVE w[i] = f.nums[i]
  <2>1. 2 + i - 1 = 1 + i /\ 1 + i \in 1..Len(cells)
    BY <1>2, <1>4, <1>5
  <2> QED BY <1>3, <1>4, <1>6, <2>1
<1>8. w = f.nums
  <2>1. w \in Seq(Cell) /\ f.nums \in Seq(Cell) /\ Len(w) = Len(f.nums)
    BY <1>3, <1>6 DEF Cells
  <2>2. \A i \in 1..Len(w) : w[i] = f.nums[i]
    BY <1>6, <1>7
  <2> QED BY <2>1, <2>2, SeqEqual
<1> QED BY <1>1, <1>8

\* The kinds of frames are told apart by the first cell.
LEMMA KindRead ==
    ASSUME NEW f, Valid(f), NEW c, Layout(f, c), NEW cells, Begins(cells, c),
           NEW types \in SUBSET Kinds, f.type \in types
    PROVE  /\ ~\A t \in types : magic(t) # cells[1]
           /\ (CHOOSE t \in types : magic(t) = cells[1]) = f.type
<1>1. cells[1] = magic(f.type)
  BY DEF Layout, Begins, Cells
<1>2. ASSUME NEW t \in types, magic(t) = cells[1] PROVE t = f.type
  BY <1>1, <1>2, Magics
<1> QED BY <1>1, <1>2

\* The first cells of a frame are a frame if they are all of it, and refused
\* only for a text above the limit.
LEMMA PrefixRead ==
    ASSUME NEW f, Valid(f), NEW c, Layout(f, c), NEW cells, Begins(cells, c),
           NEW types \in SUBSET Kinds, f.type \in types
    PROVE  LET r == read_frame(types, cells)
           IN  /\ r.kind \in {"more", "bail", "frame"}
               /\ r.kind = "bail" => Overlong(f)
               /\ r.kind = "frame" =>
                     r.frame = f /\ Len(cells) = Len(c) /\ ~Overlong(f)
               /\ r.kind = "more" => Len(cells) < Len(c)
<1>1. PICK type, n, K, last :
        /\ type = f.type /\ n = Len(cells) /\ K = Len(f.texts)
        /\ last = 1 + Numbers[f.type]
  OBVIOUS
<1>2. type \in Kinds /\ Texts[type] = K /\ K \in 0..2 /\ DOMAIN f.texts = 1..K
  <2>1. f.texts \in Seq(Cells) /\ K \in 0..2
    BY <1>1, ValidTexts
  <2>2. DOMAIN f.texts = 1..K
    BY <1>1, <2>1
  <2>3. type \in Kinds /\ Texts[type] = K
    BY <1>1 DEF Valid
  <2> QED BY <2>1, <2>2, <2>3
<1>3. n \in Nat /\ n <= Len(c) /\ Len(c) = Pos(f, K + 1) /\ Len(c) \in Nat
  BY <1>1 DEF Begins, Layout, Cells
<1>4. /\ Pos(f, 1) = last
      /\ \A k \in 1..K + 1 : Pos(f, k) \in Nat
      /\ \A k \in 1..K : Pos(f, k + 1) = Pos(f, k) + 1 + Len(f.texts[k])
      /\ \A k \in 1..K : Len(f.texts[k]) \in Nat
  BY <1>1, Positions, ValidTexts
<1> DEFINE Known(k) ==
             /\ begun(type, cells, k) <=> n > Pos(f, k)
             /\ begun(type, cells, k) => text_len(type, cells, k) = Len(f.texts[k])
             /\ whole(type, cells, k) <=> n >= Pos(f, k + 1)
             /\ whole(type, cells, k) => text(type, cells, k) = f.texts[k]
<1>5. K # 0 => Known(1)
  <2>1. before(type, cells, 1) = Pos(f, 1)
    BY <1>1, <1>4 DEF before
  <2>2. K # 0 => 1 \in 1..Len(f.texts)
    BY <1>1, <1>2
  <2> QED BY <1>1, <2>1, <2>2, TextRead
<1>6. K = 2 /\ whole(type, cells, 1) => Known(2)
  <2> SUFFICES ASSUME K = 2, whole(type, cells, 1) PROVE Known(2)
    OBVIOUS
  <2>1. text_len(type, cells, 1) = Len(f.texts[1])
    BY <1>5 DEF whole
  <2>2. text_len(type, cells, 1) = cells[last + 1]
    BY <1>1 DEF text_len, before
  <2>3. before(type, cells, 2) = last + 1 + cells[last + 1]
    BY <1>1 DEF before
  <2>4. Pos(f, 2) = last + 1 + Len(f.texts[1])
    <3>1. 1 \in 1..K /\ 1 + 1 = 2
      BY <1>2
    <3> QED BY <1>4, <3>1
  <2>5. before(type, cells, 2) = Pos(f, 2) /\ 2 \in 1..Len(f.texts)
    <3>1. cells[last + 1] = Len(f.texts[1])
      BY <2>1, <2>2
    <3>2. before(type, cells, 2) = Pos(f, 2)
      BY <2>3, <2>4, <3>1
    <3>3. Len(f.texts) = 2
      BY <1>1
    <3>4. 2 \in 1..Len(f.texts)
      BY <3>3
    <3> QED BY <3>2, <3>4
  <2> QED BY <1>1, <2>5, TextRead
<1>7. ASSUME NEW k \in 1..K, \A j \in 1..k - 1 : whole(type, cells, j) PROVE Known(k)
  <2>1. k = 1 \/ (k = 2 /\ K = 2 /\ 1 \in 1..k - 1)
    BY <1>2
  <2> HIDE DEF Known
  <2> QED BY <1>2, <1>5, <1>6, <1>7, <2>1
<1>8. refused(type, cells) => Overlong(f)
  <2> SUFFICES ASSUME NEW k \in 1..K, \A j \in 1..k - 1 : whole(type, cells, j),
                      begun(type, cells, k),
                      too_long(type, k, text_len(type, cells, k))
               PROVE  Overlong(f)
    BY <1>2 DEF refused
  <2>1. too_long(type, k, Len(f.texts[k]))
    BY <1>7
  <2>2. IsAddr(type, k) => Len(f.texts[k]) # 0
    <3>1. IsAddr(type, k) => f.texts[k] # <<>>
      BY <1>1 DEF Valid
    <3>2. f.texts[k] \in Cells
      BY <1>1, ValidTexts
    <3> QED BY <3>1, <3>2 DEF Cells
  <2>3. Len(f.texts[k]) > MaxField
    BY <2>1, <2>2 DEF too_long
  <2> QED BY <1>2, <2>3 DEF Overlong
<1>9. ASSUME \A k \in 1..K : whole(type, cells, k), n >= last
      PROVE  /\ n = Len(c) /\ \A k \in 1..K : Known(k)
  <2>1. \A k \in 1..K : \A j \in 1..k - 1 : whole(type, cells, j)
    <3>1. \A k \in 1..K : \A j \in 1..k - 1 : j \in 1..K
      BY <1>2
    <3> QED BY <1>9, <3>1
  <2>2. \A k \in 1..K : Known(k)
    <3> HIDE DEF Known
    <3> QED BY <1>7, <2>1
  <2>3. n >= Pos(f, K + 1)
    <3>1. CASE K = 0
      BY <1>4, <1>9, <3>1
    <3>2. CASE K # 0
      <4>1. K \in 1..K
        BY <1>2, <3>2
      <4> QED BY <1>9, <2>2, <4>1
    <3> QED BY <3>1, <3>2
  <2> QED BY <1>3, <2>2, <2>3
<1>10. n = Len(c) => n >= last /\ \A k \in 1..K : whole(type, cells, k)
  <2> SUFFICES ASSUME n = Len(c)
               PROVE  n >= last /\ \A k \in 1..K : whole(type, cells, k)
    OBVIOUS
  <2>1. CASE K = 0
    BY <1>3, <1>4, <2>1
  <2>2. CASE K = 1
    <3>1. 1 \in 1..K /\ 1 + 1 = 2 /\ 1 \in 1..K + 1
      BY <2>2
    <3>2. n = Pos(f, 2) /\ Pos(f, 2) = last + 1 + Len(f.texts[1]) /\ Len(f.texts[1]) \in Nat
      BY <1>3, <1>4, <2>2, <3>1
    <3>3. n >= last /\ n >= Pos(f, 2)
      BY <1>3, <1>4, <3>1, <3>2
    <3>4. whole(type, cells, 1)
      BY <1>5, <2>2, <3>3
    <3> QED BY <2>2, <3>3, <3>4
  <2>3. CASE K = 2
    <3>1. 1 \in 1..K /\ 2 \in 1..K /\ 1 + 1 = 2 /\ 2 + 1 = 3 /\ 1 \in 1..K + 1
      BY <2>3
    <3>2. /\ n = Pos(f, 3) /\ Pos(f, 3) = Pos(f, 2) + 1 + Len(f.texts[2])
          /\ Pos(f, 2) = last + 1 + Len(f.texts[1])
          /\ Len(f.texts[1]) \in Nat /\ Len(f.texts[2]) \in Nat /\ last \in Nat
      BY <1>3, <1>4, <2>3, <3>1
    <3>3. n >= last /\ n >= Pos(f, 2) /\ n >= Pos(f, 3)
      <4>1. PICK a, b, m \in Nat : a = Len(f.texts[1]) /\ b = Len(f.texts[2]) /\ m = last
        BY <3>2
      <4>2. Pos(f, 2) = m + 1 + a /\ Pos(f, 3) = m + 1 + a + 1 + b
        BY <3>2, <4>1
      <4>3. m + 1 + a + 1 + b >= m /\ m + 1 + a + 1 + b >= m + 1 + a
        OBVIOUS
      <4>4. n = m + 1 + a + 1 + b
        BY <3>2, <4>2
      <4>5. n >= m /\ n >= m + 1 + a /\ n >= m + 1 + a + 1 + b
        BY <4>3, <4>4
      <4> QED BY <4>1, <4>2, <4>5
    <3>4. whole(type, cells, 1)
      BY <1>5, <2>3, <3>3
    <3>5. whole(type, cells, 2)
      BY <1>6, <2>3, <3>3, <3>4
    <3> QED BY <2>3, <3>3, <3>4, <3>5
  <2> QED BY <1>2, <2>1, <2>2, <2>3
<1>11. ASSUME n >= last, \A k \in 1..K : whole(type, cells, k)
       PROVE  /\ SubSeq(cells, 2, last) = f.nums
              /\ [k \in 1..K |-> text(type, cells, k)] = f.texts
  <2>1. SubSeq(cells, 2, last) = f.nums
    BY <1>1, <1>11, NumbersRead
  <2>2. \A k \in 1..K : text(type, cells, k) = f.texts[k]
    BY <1>9, <1>11
  <2>3. f.texts = [k \in 1..K |-> f.texts[k]]
    BY <1>1, ValidTexts
  <2> QED BY <2>1, <2>2, <2>3
<1>12. ASSUME n >= last, \A k \in 1..K : whole(type, cells, k), ~refused(type, cells)
       PROVE  ~Overlong(f)
  <2>1. ASSUME NEW k \in 1..K PROVE ~(Len(f.texts[k]) > MaxField)
    <3>1. begun(type, cells, k) /\ \A j \in 1..k - 1 : whole(type, cells, j)
      <4>1. \A j \in 1..k - 1 : j \in 1..K
        BY <1>2
      <4> QED BY <1>12, <4>1 DEF whole
    <3>2. ~too_long(type, k, text_len(type, cells, k))
      BY <1>2, <1>12, <3>1 DEF refused
    <3>3. text_len(type, cells, k) = Len(f.texts[k])
      BY <1>7, <3>1
    <3> QED BY <3>2, <3>3 DEF too_long
  <2> QED BY <1>2, <2>1 DEF Overlong
<1> HIDE DEF Known
<1>13. f = [type |-> type, nums |-> f.nums, texts |-> f.texts]
  <2>1. f = Frame(f.type, f.texts)
    BY DEF Valid
  <2>2. Frame(f.type, f.texts).nums = f.nums
    BY <2>1
  <2> QED BY <1>1, <2>1, <2>2 DEF Frame
<1>14. read_frame(types, cells) =
         IF refused(type, cells) THEN [kind |-> "bail"]
         ELSE IF n >= last /\ \A k \in 1..K : whole(type, cells, k)
              THEN [kind |-> "frame",
                    frame |-> [type |-> type, nums |-> SubSeq(cells, 2, last),
                               texts |-> [k \in 1..K |-> text(type, cells, k)]]]
         ELSE [kind |-> "more"]
  <2>1. /\ ~\A t \in types : magic(t) # cells[1]
        /\ (CHOOSE t \in types : magic(t) = cells[1]) = type
    BY <1>1, KindRead
  <2>2. last = 1 + Numbers[type]
    BY <1>1
  <2> QED BY <1>1, <1>2, <2>1, <2>2, Zenon DEF read_frame
<1>15. PICK r : r = read_frame(types, cells)
  OBVIOUS
<1>16. CASE refused(type, cells)
  BY <1>8, <1>14, <1>16
<1>17. CASE /\ ~refused(type, cells)
            /\ n >= last /\ \A k \in 1..K : whole(type, cells, k)
  <2>1. read_frame(types, cells) = [kind |-> "frame", frame |-> f]
    BY <1>11, <1>13, <1>14, <1>17
  <2> QED BY <1>1, <1>9, <1>12, <1>17, <2>1
<1>18. CASE /\ ~refused(type, cells)
            /\ ~(n >= last /\ \A k \in 1..K : whole(type, cells, k))
  <2>1. read_frame(types, cells) = [kind |-> "more"]
    BY <1>14, <1>18
  <2>2. n < Len(c)
    BY <1>3, <1>10, <1>18
  <2> QED BY <1>1, <2>1, <2>2
<1> QED BY <1>16, <1>17, <1>18

-----------------------------------------------------------------------------
(* Frames one behind the other.                                            *)

\* A sequence of frames that writers of this protocol built.
Sent(w) == w \in Seq(Frames) /\ \A i \in 1..Len(w) : Valid(w[i])

\* The frames of w but for the first h, in cells.
Coded(w, h) == [i \in 1..Len(w) - h |-> encode(w[h + i])]

Behind(w, h) == FlattenSeq(Coded(w, h))

LEMMA EncodeCells ==
    ASSUME NEW f, Valid(f)
    PROVE  encode(f) \in Cells /\ Len(encode(f)) \in Nat /\ Len(encode(f)) # 0
<1>1. Layout(f, encode(f))
  BY EncodeLayout
<1>2. encode(f) \in Cells /\ Len(encode(f)) = Pos(f, Len(f.texts) + 1)
  BY <1>1 DEF Layout
<1>3. Len(f.texts) + 1 \in 1..Len(f.texts) + 1
  BY ValidTexts
<1>4. /\ Pos(f, Len(f.texts) + 1) \in Nat /\ Pos(f, Len(f.texts) + 1) >= Pos(f, 1)
      /\ Pos(f, 1) = 1 + Numbers[f.type] /\ Numbers[f.type] \in Nat
  BY <1>3, Positions
<1> QED BY <1>2, <1>4

LEMMA CodedCells ==
    ASSUME NEW w, Sent(w), NEW h \in 0..Len(w)
    PROVE  Coded(w, h) \in Seq(Cells) /\ Len(Coded(w, h)) = Len(w) - h
<1>1. Len(w) \in Nat
  BY DEF Sent
<1>2. ASSUME NEW i \in 1..Len(w) - h PROVE encode(w[h + i]) \in Cells
  <2>1. h + i \in 1..Len(w)
    BY <1>1
  <2> QED BY <2>1, EncodeCells DEF Sent
<1> QED BY <1>1, <1>2 DEF Coded

LEMMA BehindCells ==
    ASSUME NEW w, Sent(w), NEW h \in 0..Len(w)
    PROVE  Behind(w, h) \in Cells
<1>1. PICK fs : fs = Coded(w, h)
  OBVIOUS
<1>2. fs \in Seq(Cells)
  BY <1>1, CodedCells
<1>3. PICK f : f \in [0..Len(fs) -> Cells] /\ FlattenSeq(fs) = f[Len(fs)]
  BY <1>2, FlattenChain
<1>4. Len(fs) \in 0..Len(fs)
  BY <1>2
<1> QED BY <1>1, <1>3, <1>4 DEF Behind

\* A frame more is written.
LEMMA BehindAppend ==
    ASSUME NEW w, Sent(w), NEW h \in 0..Len(w), NEW f, Valid(f), f \in Frames
    PROVE  /\ Sent(Append(w, f)) /\ h \in 0..Len(Append(w, f))
           /\ Behind(Append(w, f), h) = Behind(w, h) \o encode(f)
<1>1. PICK n, m \in Nat : n = Len(w) /\ m = n - h
  BY DEF Sent
<1>2. PICK x, fs, t : x = encode(f) /\ fs = Coded(w, h) /\ t = Append(w, f)
  OBVIOUS
<1>3. x \in Cells /\ fs \in Seq(Cells) /\ Len(fs) = m
  BY <1>1, <1>2, EncodeCells, CodedCells
<1>4. /\ t \in Seq(Frames) /\ Len(t) = n + 1 /\ t[n + 1] = f
      /\ \A i \in 1..n : t[i] = w[i]
  <2>1. w \in Seq(Frames)
    BY DEF Sent
  <2> QED BY <1>1, <1>2, <2>1
<1>5. Sent(t)
  <2>1. ASSUME NEW i \in 1..n + 1 PROVE Valid(t[i])
    <3>1. i = n + 1 \/ i \in 1..n
      BY <1>1
    <3>2. CASE i = n + 1
      BY <1>4, <3>2
    <3>3. CASE i \in 1..n
      BY <1>1, <1>4, <3>3 DEF Sent
    <3> QED BY <3>1, <3>2, <3>3
  <2> QED BY <1>4, <2>1 DEF Sent
<1>6. Len(t) - h = m + 1 /\ h \in 0..Len(t)
  BY <1>1, <1>4
<1>7. Coded(t, h) = [i \in 1..m + 1 |-> encode(t[h + i])]
  BY <1>6 DEF Coded
<1>8. Append(fs, x) = [i \in 1..m + 1 |-> IF i = m + 1 THEN x ELSE fs[i]]
  <2>1. PICK u : u = Append(fs, x)
    OBVIOUS
  <2>2. u \in Seq(Cells) /\ Len(u) = m + 1 /\ u[m + 1] = x /\ \A i \in 1..m : u[i] = fs[i]
    BY <1>3, <2>1
  <2>3. u = [i \in 1..m + 1 |-> u[i]]
    BY <2>2
  <2>4. \A i \in 1..m + 1 : u[i] = IF i = m + 1 THEN x ELSE fs[i]
    BY <2>2
  <2> QED BY <2>1, <2>3, <2>4
<1>9. ASSUME NEW i \in 1..m + 1
      PROVE  encode(t[h + i]) = IF i = m + 1 THEN x ELSE fs[i]
  <2>1. CASE i = m + 1
    <3>1. h + i = n + 1
      BY <1>1, <2>1
    <3> QED BY <1>2, <1>4, <2>1, <3>1
  <2>2. CASE i # m + 1
    <3>1. i \in 1..Len(w) - h /\ h + i \in 1..n
      BY <1>1, <2>2
    <3>2. fs[i] = encode(w[h + i])
      BY <1>2, <3>1 DEF Coded
    <3> QED BY <1>4, <2>2, <3>1, <3>2
  <2> QED BY <2>1, <2>2
<1>10. Coded(t, h) = Append(fs, x)
  BY <1>7, <1>8, <1>9
<1>11. FlattenSeq(Append(fs, x)) = FlattenSeq(fs) \o x
  BY <1>3, FlattenAppend
<1> QED BY <1>2, <1>5, <1>6, <1>10, <1>11 DEF Behind

\* The first frame that has not been read, and the others.
LEMMA BehindRead ==
    ASSUME NEW w, Sent(w), NEW h \in 0..Len(w), h # Len(w)
    PROVE  /\ h + 1 \in 0..Len(w) /\ Valid(w[h + 1])
           /\ Behind(w, h) = encode(w[h + 1]) \o Behind(w, h + 1)
<1>1. PICK n, m \in Nat : n = Len(w) /\ m = n - (h + 1)
  <2>1. PICK n \in Nat : n = Len(w)
    BY DEF Sent
  <2>2. h \in 0..n /\ h # n
    BY <2>1
  <2>3. n - (h + 1) \in Nat
    BY <2>2
  <2> QED BY <2>1, <2>3
<1>2. h + 1 \in 0..Len(w) /\ h + 1 \in 1..Len(w) /\ Len(w) - h = m + 1
  BY <1>1
<1>3. Valid(w[h + 1])
  BY <1>2 DEF Sent
<1>4. PICK x, fs : x = encode(w[h + 1]) /\ fs = Coded(w, h + 1)
  OBVIOUS
<1>5. x \in Cells /\ fs \in Seq(Cells) /\ Len(fs) = m
  BY <1>1, <1>2, <1>3, <1>4, EncodeCells, CodedCells
<1>6. Coded(w, h) = [i \in 1..m + 1 |-> encode(w[h + i])]
  BY <1>2 DEF Coded
<1>7. <<x>> \o fs = [i \in 1..m + 1 |-> IF i = 1 THEN x ELSE fs[i - 1]]
  BY <1>5
<1>8. ASSUME NEW i \in 1..m + 1
      PROVE  encode(w[h + i]) = IF i = 1 THEN x ELSE fs[i - 1]
  <2>1. CASE i = 1
    BY <1>4, <2>1
  <2>2. CASE i # 1
    <3>1. i - 1 \in 1..Len(w) - (h + 1) /\ (h + 1) + (i - 1) = h + i
      BY <1>1, <2>2
    <3>2. fs[i - 1] = encode(w[h + i])
      BY <1>4, <3>1 DEF Coded
    <3> QED BY <2>2, <3>2
  <2> QED BY <2>1, <2>2
<1>9. Coded(w, h) = <<x>> \o fs
  BY <1>6, <1>7, <1>8
<1>10. FlattenSeq(<<x>> \o fs) = x \o FlattenSeq(fs)
  BY <1>5, FlattenCons
<1> QED BY <1>2, <1>3, <1>4, <1>9, <1>10 DEF Behind

\* Everything has been read.
LEMMA BehindEmpty ==
    ASSUME NEW w, Sent(w)
    PROVE  Len(w) \in 0..Len(w) /\ Behind(w, Len(w)) = <<>>
<1>1. Len(w) \in Nat /\ Len(w) \in 0..Len(w) /\ Len(w) - Len(w) = 0
  BY DEF Sent
<1>2. PICK fs : fs = Coded(w, Len(w))
  OBVIOUS
<1>3. fs \in Seq(Cells) /\ Len(fs) = 0
  BY <1>1, <1>2, CodedCells
<1>4. fs = <<>>
  BY <1>3
<1>5. FlattenSeq(fs) = <<>>
  BY <1>3, <1>4 DEF FlattenSeq
<1> QED BY <1>1, <1>2, <1>5 DEF Behind

\* The reader has g, v is to come, and together they are the frame F and R.
InFrame(g, v, F, R) ==
    /\ g \in Cells /\ v \in Cells /\ F \in Cells /\ R \in Cells
    /\ g \o v = F \o R /\ Len(g) < Len(F) /\ v # <<>>

Took(g, v, F, R, cells) ==
    /\ Begins(cells, F) /\ Tail(v) \in Cells
    /\ cells \o Tail(v) = F \o R /\ Head(v) = F[Len(g) + 1]
    /\ Len(cells) = Len(F) => Tail(v) = R

\* One cell more is taken: the reader has got the first of the frame F.
LEMMA CellTaken ==
    ASSUME NEW g, NEW v, NEW F, NEW R, InFrame(g, v, F, R)
    PROVE  Took(g, v, F, R, Append(g, Head(v)))
<1>0. /\ g \in Cells /\ v \in Cells /\ F \in Cells /\ R \in Cells
      /\ g \o v = F \o R /\ Len(g) < Len(F) /\ v # <<>>
  BY DEF InFrame
<1>1. PICK cells, t, x : cells = Append(g, Head(v)) /\ t = Tail(v) /\ x = Head(v)
  OBVIOUS
<1>2. x \in Cell /\ t \in Cells /\ v = <<x>> \o t
  BY <1>0, <1>1 DEF Cells
<1>3. cells \in Cells /\ Len(cells) = Len(g) + 1 /\ cells = g \o <<x>> /\ cells[Len(g) + 1] = x
  BY <1>0, <1>1, <1>2 DEF Cells
<1>4. (g \o <<x>>) \o t = g \o (<<x>> \o t)
  <2>1. <<x>> \in Seq(Cell) /\ g \in Seq(Cell) /\ t \in Seq(Cell)
    BY <1>0, <1>2 DEF Cells
  <2> QED BY <2>1, ConcatAssociative
<1>5. cells \o t = F \o R
  BY <1>0, <1>2, <1>3, <1>4
<1>6. PICK a, z : a = cells \o t /\ z = F \o R
  OBVIOUS
<1>7. /\ Len(a) = Len(cells) + Len(t) /\ Len(cells) \in Nat /\ Len(t) \in Nat
      /\ \A i \in 1..Len(cells) : a[i] = cells[i]
      /\ \A i \in 1..Len(t) : a[Len(cells) + i] = t[i]
  BY <1>2, <1>3, <1>6, Joined
<1>8. /\ Len(z) = Len(F) + Len(R) /\ Len(F) \in Nat /\ Len(R) \in Nat
      /\ \A i \in 1..Len(F) : z[i] = F[i]
      /\ \A i \in 1..Len(R) : z[Len(F) + i] = R[i]
  BY <1>0, <1>6, Joined
<1>9. a = z /\ Len(g) \in Nat /\ Len(cells) \in 1..Len(F) /\ Len(g) + 1 \in 1..Len(cells)
  BY <1>0, <1>3, <1>5, <1>6, <1>7, <1>8 DEF Cells
<1>10. ASSUME NEW i \in 1..Len(cells) PROVE cells[i] = F[i]
  <2>1. i \in 1..Len(F)
    BY <1>8, <1>9
  <2> QED BY <1>7, <1>8, <1>9, <2>1
<1>11. Begins(cells, F)
  BY <1>3, <1>9, <1>10 DEF Begins
<1>12. x = F[Len(g) + 1]
  BY <1>3, <1>9, <1>10
<1>13. ASSUME Len(cells) = Len(F) PROVE t = R
  <2>1. Len(t) = Len(R)
    BY <1>7, <1>8, <1>9, <1>13
  <2>2. ASSUME NEW i \in 1..Len(t) PROVE t[i] = R[i]
    BY <1>7, <1>8, <1>9, <1>13, <2>1
  <2>3. t \in Seq(Cell) /\ R \in Seq(Cell)
    BY <1>0, <1>2 DEF Cells
  <2> QED BY <2>1, <2>2, <2>3, SeqEqual
<1>14. Took(g, v, F, R, cells)
  BY <1>1, <1>2, <1>5, <1>11, <1>12, <1>13 DEF Took
<1> QED BY <1>1, <1>14

-----------------------------------------------------------------------------
(* The invariant.                                                          *)

Basic ==
    /\ wire \in [Streams -> Cells] /\ got \in [Streams -> Cells]
    /\ written \in [Streams -> Seq(Frames)] /\ read \in [Streams -> Seq(Frames)]
    /\ closed \subseteq {"consumer", "producer"} /\ torn \in BOOLEAN

\* What is written on the stream s is valid and of the kinds that are expected
\* there, and no ASGN is above the limit; what was read is the beginning of
\* it, and within the limit; a read under way has not got a whole frame.
StreamOK(s, w, r, g) ==
    /\ Sent(w) /\ \A i \in 1..Len(w) : w[i].type \in KindsAt(s, i - 1)
    /\ s = "assign" => \A i \in 1..Len(w) : ~Overlong(w[i])
    /\ r \in Seq(Frames) /\ Len(r) \in 0..Len(w)
    /\ \A i \in 1..Len(r) : r[i] = w[i] /\ ~Overlong(r[i])
    /\ g # <<>> => read_frame(KindsAt(s, Len(r)), g).kind = "more"

\* What the reader has taken and what is on the wire are the frames that have
\* not been read, and the reader is in the first of them.
FlowOK(w, r, g, v) ==
    /\ g \o v = Behind(w, Len(r))
    /\ Len(r) # Len(w) => Len(g) < Len(encode(w[Len(r) + 1]))

Intact(s) == Conn(s) \notin closed /\ ~(s = "assign" /\ torn)

\* Behind a torn ASGN is no magic: the next read fails.
TornOK ==
    torn /\ "producer" \notin closed =>
        got["assign"] = <<>> /\ wire["assign"] # <<>> /\ Head(wire["assign"]) < Word

FramesInv ==
    /\ Basic
    /\ \A s \in Streams : StreamOK(s, written[s], read[s], got[s])
    /\ \A s \in Streams :
          Intact(s) => FlowOK(written[s], read[s], got[s], wire[s])
    /\ TornOK /\ ClosedForCause

-----------------------------------------------------------------------------
(* What a write does to a stream.                                          *)

LEMMA StreamWritten ==
    ASSUME NEW s \in Streams, NEW w, NEW r, NEW g, StreamOK(s, w, r, g),
           NEW f \in Frames, Valid(f), f.type \in KindsAt(s, Len(w)),
           s = "assign" => ~Overlong(f)
    PROVE  StreamOK(s, Append(w, f), r, g)
<1>1. PICK n, t : n = Len(w) /\ t = Append(w, f)
  OBVIOUS
<1>2. n \in Nat /\ w \in Seq(Frames)
  BY <1>1 DEF StreamOK, Sent
<1>3. Len(t) = n + 1 /\ t[n + 1] = f /\ \A i \in 1..n : t[i] = w[i]
  BY <1>1, <1>2
<1>4. Sent(t)
  <2>1. 0 \in 0..Len(w)
    BY <1>1, <1>2
  <2> QED BY <1>1, <2>1, BehindAppend DEF StreamOK
<1>5. ASSUME NEW i \in 1..n + 1
      PROVE  t[i].type \in KindsAt(s, i - 1) /\ (s = "assign" => ~Overlong(t[i]))
  <2>1. i \in 1..n \/ (i = n + 1 /\ i - 1 = n)
    BY <1>2
  <2>2. CASE i \in 1..n
    BY <1>1, <1>3, <2>2 DEF StreamOK
  <2>3. CASE i = n + 1 /\ i - 1 = n
    BY <1>1, <1>3, <2>3
  <2> QED BY <2>1, <2>2, <2>3
<1>6. /\ r \in Seq(Frames) /\ Len(r) \in 0..n
      /\ \A i \in 1..Len(r) : r[i] = w[i] /\ ~Overlong(r[i])
      /\ g # <<>> => read_frame(KindsAt(s, Len(r)), g).kind = "more"
  BY <1>1 DEF StreamOK
<1>7. Len(r) \in 0..n + 1 /\ \A i \in 1..Len(r) : i \in 1..n
  BY <1>2, <1>6
<1>8. \A i \in 1..Len(r) : r[i] = t[i]
  BY <1>3, <1>6, <1>7
<1> QED BY <1>1, <1>3, <1>4, <1>5, <1>6, <1>7, <1>8 DEF StreamOK

LEMMA FlowWritten ==
    ASSUME NEW s \in Streams, NEW w, NEW r, NEW g \in Cells, NEW v \in Cells,
           StreamOK(s, w, r, g), FlowOK(w, r, g, v), NEW f \in Frames, Valid(f)
    PROVE  v \o encode(f) \in Cells /\ FlowOK(Append(w, f), r, g, v \o encode(f))
<1>1. PICK n, h, t, x : n = Len(w) /\ h = Len(r) /\ t = Append(w, f) /\ x = encode(f)
  OBVIOUS
<1>2. Sent(w) /\ w \in Seq(Frames) /\ n \in Nat /\ h \in 0..n
  BY <1>1 DEF StreamOK, Sent
<1>3. x \in Cells /\ Len(x) \in Nat /\ Len(x) # 0
  BY <1>1, EncodeCells
<1>4. Behind(t, h) = Behind(w, h) \o x
  BY <1>1, <1>2, BehindAppend
<1>5. g \o (v \o x) = (g \o v) \o x
  <2>1. g \in Seq(Cell) /\ v \in Seq(Cell) /\ x \in Seq(Cell)
    BY <1>3 DEF Cells
  <2> QED BY <2>1, ConcatAssociative
<1>6. g \o (v \o x) = Behind(t, h)
  BY <1>1, <1>4, <1>5 DEF FlowOK
<1>7. Len(t) = n + 1 /\ t[n + 1] = f /\ \A i \in 1..n : t[i] = w[i]
  BY <1>1, <1>2
<1>8. Len(g) < Len(encode(t[h + 1]))
  <2>1. CASE h = n
    <3>1. g \o v = <<>>
      BY <1>1, <1>2, <2>1, BehindEmpty DEF FlowOK
    <3>2. Len(g) + Len(v) = 0 /\ Len(g) \in Nat /\ Len(v) \in Nat
      BY <3>1, Joined
    <3>3. Len(g) = 0
      BY <3>2
    <3> QED BY <1>1, <1>3, <1>7, <2>1, <3>3
  <2>2. CASE h # n
    <3>1. h + 1 \in 1..n
      BY <1>2, <2>2
    <3> QED BY <1>1, <1>7, <2>2, <3>1 DEF FlowOK
  <2> QED BY <2>1, <2>2
<1>9. v \o x \in Cells
  BY <1>3, Joined
<1> QED BY <1>1, <1>6, <1>8, <1>9 DEF FlowOK

-----------------------------------------------------------------------------
(* What a read does to a stream.                                           *)

\* A reader that is in the flow has more of the frame, has the frame, or bails
\* because a text of it is above the limit.
LEMMA StreamRead ==
    ASSUME NEW s \in Streams, NEW w, NEW r, NEW g \in Cells, NEW v \in Cells,
           StreamOK(s, w, r, g), FlowOK(w, r, g, v), v # <<>>
    PROVE  LET cells == Append(g, Head(v))
               x     == read_frame(KindsAt(s, Len(r)), cells)
           IN  /\ Len(r) < Len(w) /\ Tail(v) \in Cells /\ cells \in Cells
               /\ x.kind \in {"more", "bail", "frame"}
               /\ x.kind = "bail" => Overlong(w[Len(r) + 1]) /\ s # "assign"
               /\ x.kind = "more" =>
                     StreamOK(s, w, r, cells) /\ FlowOK(w, r, cells, Tail(v))
               /\ x.kind = "frame" =>
                     /\ x.frame \in Frames
                     /\ StreamOK(s, w, Append(r, x.frame), <<>>)
                     /\ FlowOK(w, Append(r, x.frame), <<>>, Tail(v))
<1>1. PICK n, h, cells, x, f :
        /\ n = Len(w) /\ h = Len(r) /\ cells = Append(g, Head(v))
        /\ x = read_frame(KindsAt(s, Len(r)), cells) /\ f = w[h + 1]
  OBVIOUS
<1>2. /\ Sent(w) /\ w \in Seq(Frames) /\ n \in Nat /\ h \in 0..n /\ h \in Nat
      /\ r \in Seq(Frames) /\ g \o v = Behind(w, h)
  BY <1>1 DEF StreamOK, Sent, FlowOK
<1>3. h # n
  <2> SUFFICES ASSUME h = n PROVE FALSE
    OBVIOUS
  <2>1. g \o v = <<>>
    BY <1>1, <1>2, BehindEmpty
  <2>2. Len(g) + Len(v) = 0 /\ Len(g) \in Nat /\ Len(v) \in Nat
    BY <2>1, Joined
  <2>3. Len(v) = 0
    BY <2>2
  <2> QED BY <2>3 DEF Cells
<1>4. /\ h + 1 \in 0..n /\ h + 1 \in 1..n /\ (h + 1) - 1 = h /\ h < n
      /\ Valid(f) /\ f \in Frames /\ f.type \in KindsAt(s, h)
      /\ Len(g) < Len(encode(f))
  <2>1. h + 1 \in 0..n /\ h + 1 \in 1..n /\ (h + 1) - 1 = h /\ h < n
    BY <1>2, <1>3
  <2>2. Valid(f) /\ f \in Frames
    BY <1>1, <1>2, <2>1 DEF Sent
  <2>3. f.type \in KindsAt(s, h)
    BY <1>1, <2>1 DEF StreamOK
  <2>4. Len(g) < Len(encode(f))
    BY <1>1, <1>3 DEF FlowOK
  <2> QED BY <2>1, <2>2, <2>3, <2>4
<1>5. PICK F, R : F = encode(f) /\ R = Behind(w, h + 1)
  OBVIOUS
<1>6. Layout(f, F) /\ F \in Cells /\ R \in Cells /\ Behind(w, h) = F \o R
  <2>1. Layout(f, F) /\ F \in Cells
    BY <1>4, <1>5, EncodeLayout, EncodeCells
  <2>2. R \in Cells
    BY <1>1, <1>2, <1>4, <1>5, BehindCells
  <2>3. Behind(w, h) = F \o R
    BY <1>1, <1>2, <1>3, <1>5, BehindRead
  <2> QED BY <2>1, <2>2, <2>3
<1>7. /\ Begins(cells, F) /\ Tail(v) \in Cells /\ cells \o Tail(v) = F \o R
      /\ Len(cells) = Len(F) => Tail(v) = R
  <2>1. g \o v = F \o R /\ Len(g) < Len(F)
    BY <1>2, <1>4, <1>5, <1>6
  <2>2. InFrame(g, v, F, R)
    BY <1>6, <2>1 DEF InFrame
  <2>3. Took(g, v, F, R, cells)
    BY <1>1, <2>2, CellTaken
  <2> QED BY <2>3 DEF Took
<1>8. cells \in Cells
  BY <1>7 DEF Begins
<1>9. /\ x.kind \in {"more", "bail", "frame"}
      /\ x.kind = "bail" => Overlong(f)
      /\ x.kind = "frame" => x.frame = f /\ Len(cells) = Len(F) /\ ~Overlong(f)
      /\ x.kind = "more" => Len(cells) < Len(F)
  <2>1. KindsAt(s, h) \in SUBSET Kinds
    BY <1>2, StreamKinds
  <2>2. PICK types : types = KindsAt(s, h)
    OBVIOUS
  <2>3. types \in SUBSET Kinds /\ f.type \in types /\ x = read_frame(types, cells)
    BY <1>1, <1>4, <2>1, <2>2
  <2>4. LET y == read_frame(types, cells)
        IN  /\ y.kind \in {"more", "bail", "frame"}
            /\ y.kind = "bail" => Overlong(f)
            /\ y.kind = "frame" => y.frame = f /\ Len(cells) = Len(F) /\ ~Overlong(f)
            /\ y.kind = "more" => Len(cells) < Len(F)
    BY <1>4, <1>6, <1>7, <2>3, PrefixRead, ZenonT(60)
  <2> QED BY <2>3, <2>4
<1>10. x.kind = "bail" => s # "assign"
  BY <1>1, <1>4, <1>9 DEF StreamOK
<1>11. ASSUME x.kind = "more"
       PROVE  StreamOK(s, w, r, cells) /\ FlowOK(w, r, cells, Tail(v))
  <2>1. StreamOK(s, w, r, cells)
    BY <1>1, <1>11 DEF StreamOK
  <2>2. cells \o Tail(v) = Behind(w, h) /\ Len(cells) < Len(encode(w[h + 1]))
    BY <1>1, <1>5, <1>6, <1>7, <1>9, <1>11
  <2>3. FlowOK(w, r, cells, Tail(v))
    BY <1>1, <2>2, Zenon DEF FlowOK
  <2> QED BY <2>1, <2>3
<1>12. ASSUME x.kind = "frame"
       PROVE  /\ x.frame \in Frames
              /\ StreamOK(s, w, Append(r, x.frame), <<>>)
              /\ FlowOK(w, Append(r, x.frame), <<>>, Tail(v))
  <2>1. PICK q : q = Append(r, x.frame)
    OBVIOUS
  <2>2. x.frame = f /\ ~Overlong(f) /\ Tail(v) = R
    BY <1>7, <1>9, <1>12
  <2>3. /\ q \in Seq(Frames) /\ Len(q) = h + 1 /\ q[h + 1] = f
        /\ \A i \in 1..h : q[i] = r[i]
    BY <1>1, <1>2, <1>4, <2>1, <2>2
  <2>4. ASSUME NEW i \in 1..h + 1 PROVE q[i] = w[i] /\ ~Overlong(q[i])
    <3>1. i = h + 1 \/ i \in 1..h
      BY <1>2
    <3>2. CASE i = h + 1
      BY <1>1, <2>2, <2>3, <3>2
    <3>3. CASE i \in 1..h
      BY <1>1, <2>3, <3>3 DEF StreamOK
    <3> QED BY <3>1, <3>2, <3>3
  <2>5. StreamOK(s, w, q, <<>>)
    <3>1. /\ Sent(w) /\ \A i \in 1..Len(w) : w[i].type \in KindsAt(s, i - 1)
          /\ s = "assign" => \A i \in 1..Len(w) : ~Overlong(w[i])
      BY DEF StreamOK
    <3>2. q \in Seq(Frames) /\ Len(q) \in 0..Len(w)
      BY <1>1, <1>4, <2>3
    <3>3. \A i \in 1..Len(q) : q[i] = w[i] /\ ~Overlong(q[i])
      BY <2>3, <2>4
    <3> QED BY <3>1, <3>2, <3>3 DEF StreamOK
  <2>6. <<>> \o Tail(v) = Behind(w, h + 1)
    BY <1>5, <1>6, <2>2 DEF Cells
  <2>7. h + 1 # n => Len(<<>>) < Len(encode(w[(h + 1) + 1]))
    <3> SUFFICES ASSUME h + 1 # n PROVE 0 < Len(encode(w[(h + 1) + 1]))
      OBVIOUS
    <3>1. Valid(w[(h + 1) + 1])
      BY <1>1, <1>2, <1>4, BehindRead
    <3> QED BY <3>1, EncodeCells
  <2>8. FlowOK(w, q, <<>>, Tail(v))
    BY <1>1, <2>3, <2>6, <2>7 DEF FlowOK
  <2> QED BY <1>4, <2>1, <2>2, <2>5, <2>8
<1> QED BY <1>1, <1>4, <1>7, <1>8, <1>9, <1>10, <1>11, <1>12

-----------------------------------------------------------------------------
(* The invariant holds at first, and every write preserves it.             *)

LEMMA NothingSent == Sent(<<>>) /\ Len(<<>>) = 0 /\ Behind(<<>>, 0) = <<>>
<1>1. Sent(<<>>) /\ Len(<<>>) = 0
  BY DEF Sent
<1> QED BY <1>1, BehindEmpty

LEMMA FramesInit == Init => FramesInv
<1> SUFFICES ASSUME Init PROVE FramesInv
  OBVIOUS
<1>1. \A s \in Streams : /\ wire[s] = <<>> /\ got[s] = <<>>
                         /\ written[s] = <<>> /\ read[s] = <<>>
  BY DEF Init
<1>2. Basic
  <2>1. <<>> \in Cells /\ <<>> \in Seq(Frames)
    BY DEF Cells
  <2> QED BY <2>1 DEF Init, Basic
<1>3. ASSUME NEW s \in Streams PROVE StreamOK(s, <<>>, <<>>, <<>>)
  BY NothingSent DEF StreamOK
<1>4. FlowOK(<<>>, <<>>, <<>>, <<>>)
  BY NothingSent DEF FlowOK
<1>5. TornOK /\ ClosedForCause
  BY DEF Init, TornOK, ClosedForCause
<1> QED BY <1>1, <1>2, <1>3, <1>4, <1>5 DEF FramesInv

\* A cause lasts while its stream does not change.
LEMMA CauseLasts ==
    ASSUME ClosedForCause, torn => torn', NEW c \in closed,
           read'[c] = read[c], written'[c] = written[c]
    PROVE  \/ c = "producer" /\ torn'
           \/ Len(read'[c]) < Len(written'[c]) /\ Overlong(Stuck(c))'
<1>1. CASE c = "producer" /\ torn
  BY <1>1
<1>2. CASE Len(read[c]) < Len(written[c]) /\ Overlong(Stuck(c))
  <2>1. Stuck(c)' = Stuck(c)
    BY DEF Stuck
  <2>2. Overlong(Stuck(c))'
    BY <1>2, <2>1 DEF Overlong
  <2> QED BY <1>2, <2>2
<1> QED BY <1>1, <1>2 DEF ClosedForCause

LEMMA Ends ==
    ASSUME NEW s \in Streams
    PROVE  /\ Conn(s) \in {"consumer", "producer"}
           /\ s # "assign" => Conn(s) = s
           /\ s = "assign" => Conn(s) = "producer"
  BY DEF Streams, Conn

LEMMA WriteKeeps ==
    ASSUME FramesInv, NEW s \in Streams, NEW f \in Frames, Valid(f),
           f.type \in KindsAt(s, Len(written[s])),
           s = "assign" => ~Overlong(f), Write(s, f)
    PROVE  FramesInv'
<1>1. /\ Conn(s) \notin closed
      /\ wire' = [wire EXCEPT ![s] = @ \o encode(f)]
      /\ written' = [written EXCEPT ![s] = Append(@, f)]
      /\ got' = got /\ read' = read /\ closed' = closed /\ torn' = torn
  BY DEF Write
<1>2. Basic
  BY DEF FramesInv
<1>3. /\ wire'[s] = wire[s] \o encode(f) /\ written'[s] = Append(written[s], f)
      /\ \A u \in Streams \ {s} : wire'[u] = wire[u] /\ written'[u] = written[u]
  BY <1>1, <1>2 DEF Basic
<1>4. got[s] \in Cells /\ wire[s] \in Cells /\ encode(f) \in Cells
  BY <1>2, EncodeCells DEF Basic
<1>5. wire[s] \o encode(f) \in Cells /\ Append(written[s], f) \in Seq(Frames)
  <2>1. wire[s] \o encode(f) \in Cells
    BY <1>4, Joined
  <2>2. written[s] \in Seq(Frames)
    BY <1>2 DEF Basic
  <2> QED BY <2>1, <2>2
<1>6. Basic'
  BY <1>1, <1>2, <1>5 DEF Basic
<1>7. ASSUME NEW u \in Streams PROVE StreamOK(u, written[u], read[u], got[u])'
  <2>1. CASE u = s
    <3>1. StreamOK(s, Append(written[s], f), read[s], got[s])
      BY StreamWritten DEF FramesInv
    <3> QED BY <1>1, <1>3, <2>1, <3>1
  <2>2. CASE u # s
    BY <1>1, <1>3, <2>2 DEF FramesInv
  <2> QED BY <2>1, <2>2
<1>8. ASSUME NEW u \in Streams, Intact(u)'
      PROVE  FlowOK(written[u], read[u], got[u], wire[u])'
  <2>1. Intact(u)
    BY <1>1, <1>8 DEF Intact
  <2>2. FlowOK(written[u], read[u], got[u], wire[u])
    BY <2>1 DEF FramesInv
  <2>3. CASE u = s
    <3>1. StreamOK(s, written[s], read[s], got[s])
      BY DEF FramesInv
    <3>2. FlowOK(Append(written[s], f), read[s], got[s], wire[s] \o encode(f))
      BY <1>4, <2>2, <2>3, <3>1, FlowWritten
    <3> QED BY <1>1, <1>3, <2>3, <3>2
  <2>4. CASE u # s
    BY <1>1, <1>3, <2>2, <2>4
  <2> QED BY <2>3, <2>4
<1>9. TornOK'
  <2> SUFFICES ASSUME torn, "producer" \notin closed
               PROVE  /\ got'["assign"] = <<>> /\ wire'["assign"] # <<>>
                      /\ Head(wire'["assign"]) < Word
    BY <1>1 DEF TornOK
  <2>1. /\ got["assign"] = <<>> /\ wire["assign"] # <<>> /\ Head(wire["assign"]) < Word
    BY DEF FramesInv, TornOK
  <2>2. CASE s = "assign"
    <3>1. PICK v, x : v = wire[s] /\ x = encode(f)
      OBVIOUS
    <3>2. v \o x # <<>> /\ Head(v \o x) = Head(v)
      BY <1>4, <2>1, <2>2, <3>1 DEF Cells
    <3> QED BY <1>1, <1>3, <2>1, <2>2, <3>1, <3>2
  <2>3. CASE s # "assign"
    <3>1. "assign" \in Streams \ {s}
      BY <2>3 DEF Streams
    <3> QED BY <1>1, <1>3, <2>1, <3>1
  <2> QED BY <2>2, <2>3
<1>10. ClosedForCause'
  <2> SUFFICES ASSUME NEW c \in closed
               PROVE  \/ c = "producer" /\ torn'
                      \/ Len(read'[c]) < Len(written'[c]) /\ Overlong(Stuck(c))'
    BY <1>1 DEF ClosedForCause
  <2>1. c \in Streams \ {s}
    BY <1>1, <1>2, Ends DEF Basic, Streams
  <2>2. read'[c] = read[c] /\ written'[c] = written[c] /\ (torn => torn')
    BY <1>1, <1>3, <2>1
  <2>3. ClosedForCause
    BY DEF FramesInv
  <2> QED BY <2>2, <2>3, CauseLasts
<1> QED BY <1>6, <1>7, <1>8, <1>9, <1>10 DEF FramesInv

\* What a writer puts into a frame is what a frame holds.
LEMMA FrameBuilt ==
    ASSUME NEW type \in Kinds, NEW texts \in Seq(Seq(Byte)),
           Len(texts) = Texts[type],
           \A k \in 1..Len(texts) :
              Len(texts[k]) < Word /\ (IsAddr(type, k) => texts[k] # <<>>)
    PROVE  LET f == Frame(type, texts)
           IN  f \in Frames /\ Valid(f) /\ f.type = type /\ f.texts = texts
<1>1. PICK f : f = Frame(type, texts)
  OBVIOUS
<1>2. f.type = type /\ f.texts = texts /\ f.nums = [i \in 1..Numbers[type] |-> 1]
  BY <1>1 DEF Frame
<1>3. Numbers[type] \in Nat
  BY Shapes
<1>4. [i \in 1..Numbers[type] |-> 1] \in Seq(Cell)
  BY <1>3 DEF Cell
<1>5. Byte \subseteq Cell
  BY Constants DEF Byte, Cell
<1>6. texts \in Seq(Seq(Cell))
  BY <1>5
<1>7. f \in Frames
  BY <1>1, <1>4, <1>6, KindsDomain DEF Frame, Frames
<1>8. Valid(f)
  BY <1>1, <1>2 DEF Valid
<1> QED BY <1>1, <1>2, <1>7, <1>8

LEMMA TextBytes ==
    ASSUME NEW n \in Nat
    PROVE  Text(n) \in Seq(Byte) /\ Len(Text(n)) = n
  BY Constants DEF Text, Byte

\* A consumer's words.
LEMMA RegisterKeeps ==
    ASSUME FramesInv, NEW n \in 0..MaxText, SendRegister(n)
    PROVE  FramesInv'
<1>1. PICK f, ts : f = Frame("REG!", ts) /\ ts = <<Text(n)>>
  OBVIOUS
<1>2. written["consumer"] = <<>> /\ n > 0 /\ Write("consumer", f)
  BY <1>1 DEF SendRegister
<1>3. n \in Nat /\ n < Word
  BY Constants
<1>4. Text(n) \in Seq(Byte) /\ Len(Text(n)) = n /\ Text(n) # <<>>
  BY <1>2, <1>3, TextBytes
<1>5. ts \in Seq(Seq(Byte)) /\ Len(ts) = 1 /\ ts[1] = Text(n)
  BY <1>1, <1>4
<1>6. "REG!" \in Kinds /\ Texts["REG!"] = 1
  BY KindsDomain DEF Kinds, Texts
<1>7. f \in Frames /\ Valid(f) /\ f.type = "REG!"
  <2>1. \A k \in 1..Len(ts) :
           Len(ts[k]) < Word /\ (IsAddr("REG!", k) => ts[k] # <<>>)
    BY <1>3, <1>4, <1>5
  <2> QED BY <1>1, <1>5, <1>6, <2>1, FrameBuilt
<1>8. "consumer" \in Streams /\ f.type \in KindsAt("consumer", Len(written["consumer"]))
  BY <1>2, <1>7 DEF Streams, KindsAt
<1> QED BY <1>2, <1>7, <1>8, WriteKeeps

LEMMA CrdyKeeps ==
    ASSUME FramesInv, NEW n \in 0..MaxText, SendCrdy(n)
    PROVE  FramesInv'
<1>1. PICK f, ts : f = Frame("CRDY", ts) /\ ts = <<Text(n)>>
  OBVIOUS
<1>2. Len(written["consumer"]) \in 1..MaxCrdys /\ Write("consumer", f)
  BY <1>1 DEF SendCrdy
<1>3. n \in Nat /\ n < Word
  BY Constants
<1>4. Text(n) \in Seq(Byte) /\ Len(Text(n)) = n
  BY <1>3, TextBytes
<1>5. ts \in Seq(Seq(Byte)) /\ Len(ts) = 1 /\ ts[1] = Text(n)
  BY <1>1, <1>4
<1>6. "CRDY" \in Kinds /\ Texts["CRDY"] = 1 /\ \A k : ~IsAddr("CRDY", k)
  BY KindsDomain DEF Kinds, Texts, IsAddr
<1>7. f \in Frames /\ Valid(f) /\ f.type = "CRDY"
  <2>1. \A k \in 1..Len(ts) :
           Len(ts[k]) < Word /\ (IsAddr("CRDY", k) => ts[k] # <<>>)
    BY <1>3, <1>4, <1>5, <1>6
  <2> QED BY <1>1, <1>5, <1>6, <2>1, FrameBuilt
<1>8. Len(written["consumer"]) # 0
  BY <1>2
<1>9. "consumer" \in Streams /\ f.type \in KindsAt("consumer", Len(written["consumer"]))
  BY <1>7, <1>8 DEF Streams, KindsAt
<1> QED BY <1>2, <1>7, <1>9, WriteKeeps

\* A frame that was read is one that was written, within the limit.
LEMMA FrameHeld ==
    ASSUME FramesInv, NEW s \in Streams, NEW i \in 1..Len(read[s])
    PROVE  /\ Valid(read[s][i]) /\ read[s][i].type \in KindsAt(s, i - 1)
           /\ ~Overlong(read[s][i])
<1>1. StreamOK(s, written[s], read[s], got[s])
  BY DEF FramesInv
<1>2. i \in 1..Len(written[s])
  BY <1>1 DEF StreamOK, Sent
<1> QED BY <1>1, <1>2 DEF StreamOK, Sent

\* The k-th text of a frame within the limit.
LEMMA TextHeld ==
    ASSUME NEW f, Valid(f), ~Overlong(f), NEW k \in 1..Texts[f.type]
    PROVE  /\ f.texts[k] \in Seq(Byte) /\ Len(f.texts[k]) \in Nat
           /\ Len(f.texts[k]) <= MaxField
           /\ IsAddr(f.type, k) => f.texts[k] # <<>>
<1>1. k \in 1..Len(f.texts)
  BY DEF Valid
<1>2. f.texts[k] \in Seq(Byte) /\ Len(f.texts[k]) \in Nat
  BY <1>1, ValidTexts
<1>3. k \in DOMAIN f.texts
  BY <1>1 DEF Valid
<1>4. ~(Len(f.texts[k]) > MaxField)
  BY <1>3 DEF Overlong
<1>5. Len(f.texts[k]) <= MaxField
  BY <1>2, <1>4, Constants
<1> QED BY <1>1, <1>2, <1>5 DEF Valid

\* The master's answer: texts that it has read are within the limit.
LEMMA AssignKeeps ==
    ASSUME FramesInv, SendAssign
    PROVE  FramesInv'
<1>1. PICK i : i = Len(written["assign"]) + 2
  OBVIOUS
<1>2. PICK crdy, reg, ts, f :
        /\ crdy = read["consumer"][i] /\ reg = read["consumer"][1]
        /\ ts = <<crdy.texts[1], reg.texts[1]>> /\ f = Frame("ASGN", ts)
  OBVIOUS
<1>3. Len(written["assign"]) < Len(read["consumer"]) - 1 /\ Write("assign", f)
  BY <1>1, <1>2 DEF SendAssign
<1>4. "consumer" \in Streams /\ "assign" \in Streams
  BY DEF Streams
<1>5. Len(written["assign"]) \in Nat /\ Len(read["consumer"]) \in Nat
  BY <1>4 DEF FramesInv, Basic
<1>6. /\ i \in 1..Len(read["consumer"]) /\ 1 \in 1..Len(read["consumer"])
      /\ i - 1 # 0 /\ 1 - 1 = 0
  BY <1>1, <1>3, <1>5
<1>7. Valid(crdy) /\ ~Overlong(crdy) /\ crdy.type = "CRDY"
  <2>1. Valid(crdy) /\ ~Overlong(crdy) /\ crdy.type \in KindsAt("consumer", i - 1)
    BY <1>2, <1>4, <1>6, FrameHeld
  <2> QED BY <1>6, <2>1 DEF KindsAt
<1>8. Valid(reg) /\ ~Overlong(reg) /\ reg.type = "REG!"
  <2>1. Valid(reg) /\ ~Overlong(reg) /\ reg.type \in KindsAt("consumer", 1 - 1)
    BY <1>2, <1>4, <1>6, FrameHeld
  <2> QED BY <1>6, <2>1 DEF KindsAt
<1>9. /\ "ASGN" \in Kinds /\ Texts["ASGN"] = 2 /\ Texts["CRDY"] = 1 /\ Texts["REG!"] = 1
      /\ IsAddr("REG!", 1) /\ ~IsAddr("ASGN", 1)
  BY KindsDomain DEF Kinds, Texts, IsAddr
<1>10. 1 \in 1..Texts[crdy.type] /\ 1 \in 1..Texts[reg.type]
  BY <1>7, <1>8, <1>9
<1>11. PICK a, b : a = crdy.texts[1] /\ b = reg.texts[1]
  OBVIOUS
<1>12. a \in Seq(Byte) /\ Len(a) \in Nat /\ Len(a) <= MaxField
  BY <1>7, <1>10, <1>11, TextHeld
<1>13. b \in Seq(Byte) /\ Len(b) \in Nat /\ Len(b) <= MaxField /\ b # <<>>
  BY <1>8, <1>9, <1>10, <1>11, TextHeld
<1>14. ts \in Seq(Seq(Byte)) /\ Len(ts) = 2 /\ ts[1] = a /\ ts[2] = b /\ DOMAIN ts = 1..2
  BY <1>2, <1>11, <1>12, <1>13
<1>15. \A k \in 1..2 :
          /\ Len(ts[k]) < Word /\ ~(Len(ts[k]) > MaxField)
          /\ IsAddr("ASGN", k) => ts[k] # <<>>
  <2>1. Len(a) < Word /\ Len(b) < Word /\ ~(Len(a) > MaxField) /\ ~(Len(b) > MaxField)
    BY <1>12, <1>13, Constants
  <2>2. \A k \in 1..2 : k = 1 \/ k = 2
    OBVIOUS
  <2> QED BY <1>9, <1>13, <1>14, <2>1, <2>2
<1>16. f \in Frames /\ Valid(f) /\ f.type = "ASGN" /\ f.texts = ts
  <2>1. \A k \in 1..Len(ts) :
           Len(ts[k]) < Word /\ (IsAddr("ASGN", k) => ts[k] # <<>>)
    BY <1>14, <1>15
  <2>2. Len(ts) = Texts["ASGN"]
    BY <1>9, <1>14
  <2>3. "ASGN" \in Kinds /\ ts \in Seq(Seq(Byte))
    BY <1>9, <1>14
  <2> QED BY <1>2, <2>1, <2>2, <2>3, FrameBuilt, ZenonT(60)
<1>17. ~Overlong(f)
  BY <1>14, <1>15, <1>16 DEF Overlong
<1>18. f.type \in KindsAt("assign", Len(written["assign"]))
  BY <1>16 DEF KindsAt
<1> QED BY <1>3, <1>4, <1>16, <1>17, <1>18, WriteKeeps

\* A producer's words.
LEMMA PlainKeeps ==
    ASSUME FramesInv, NEW type \in {"PRDY", "HBRP", "DELV"},
           Write("producer", Frame(type, <<>>))
    PROVE  FramesInv'
<1>1. PICK f : f = Frame(type, <<>>)
  OBVIOUS
<1>2. type \in Kinds /\ Texts[type] = 0
  BY KindsDomain DEF Kinds, Texts
<1>3. PICK ts : ts = <<>>
  OBVIOUS
<1>4. f \in Frames /\ Valid(f) /\ f.type = type
  <2>1. ts \in Seq(Seq(Byte)) /\ Len(ts) = Texts[type]
    BY <1>2, <1>3
  <2>2. \A k \in 1..Len(ts) :
           Len(ts[k]) < Word /\ (IsAddr(type, k) => ts[k] # <<>>)
    BY <1>2, <2>1
  <2> QED BY <1>1, <1>2, <1>3, <2>1, <2>2, FrameBuilt
<1>5. "producer" \in Streams /\ f.type \in KindsAt("producer", Len(written["producer"]))
  BY <1>4 DEF Streams, KindsAt
<1> QED BY <1>1, <1>4, <1>5, WriteKeeps

LEMMA CountNat ==
    ASSUME FramesInv, NEW types
    PROVE  Count("producer", types, written) \in Nat
<1>1. PICK w : w = written["producer"]
  OBVIOUS
<1>2. w \in Seq(Frames)
  BY <1>1 DEF FramesInv, Basic, Streams
<1>3. DOMAIN w = 1..Len(w) /\ Len(w) \in Nat
  BY <1>2
<1>4. PICK P : P = {i \in DOMAIN w : w[i].type \in types}
  OBVIOUS
<1>5. IsFiniteSet(1..Len(w)) /\ P \subseteq 1..Len(w)
  BY <1>3, <1>4, FS_Interval
<1>6. Cardinality(P) \in Nat
  BY <1>5, FS_Subset, FS_CardinalityType
<1> QED BY <1>1, <1>4, <1>6 DEF Count

LEMMA FailedKeeps ==
    ASSUME FramesInv, SendFailed
    PROVE  FramesInv'
<1>1. PICK i : i = Count("producer", {"DELV", "FAIL"}, written) + 1
  OBVIOUS
<1>2. PICK asgn, ts, f :
        /\ asgn = read["assign"][i] /\ ts = <<Text(Prefix) \o asgn.texts[2]>>
        /\ f = Frame("FAIL", ts)
  OBVIOUS
<1>3. /\ Count("producer", {"DELV", "FAIL"}, written) < Len(read["assign"])
      /\ Write("producer", f)
  BY <1>1, <1>2 DEF SendFailed, Unreported
<1>4. "assign" \in Streams /\ "producer" \in Streams
  BY DEF Streams
<1>5. i \in 1..Len(read["assign"])
  <2>1. Len(read["assign"]) \in Nat
    BY <1>4 DEF FramesInv, Basic
  <2> QED BY <1>1, <1>3, <2>1, CountNat
<1>6. Valid(asgn) /\ ~Overlong(asgn) /\ asgn.type = "ASGN"
  <2>1. Valid(asgn) /\ ~Overlong(asgn) /\ asgn.type \in KindsAt("assign", i - 1)
    BY <1>2, <1>4, <1>5, FrameHeld
  <2> QED BY <2>1 DEF KindsAt
<1>7. /\ "FAIL" \in Kinds /\ Texts["FAIL"] = 1 /\ Texts["ASGN"] = 2
      /\ \A k : ~IsAddr("FAIL", k)
  BY KindsDomain DEF Kinds, Texts, IsAddr
<1>8. 2 \in 1..Texts[asgn.type]
  BY <1>6, <1>7
<1>9. PICK a, b, t : a = Text(Prefix) /\ b = asgn.texts[2] /\ t = a \o b
  OBVIOUS
<1>10. b \in Seq(Byte) /\ Len(b) \in Nat /\ Len(b) <= MaxField
  BY <1>6, <1>8, <1>9, TextHeld
<1>11. a \in Seq(Byte) /\ Len(a) = Prefix /\ Prefix \in Nat
  BY <1>9, Constants, TextBytes
<1>12. t \in Seq(Byte) /\ Len(t) = Prefix + Len(b)
  <2>1. a \o b \in Seq(Byte) /\ Len(a \o b) = Len(a) + Len(b)
    BY <1>10, <1>11, ConcatProperties
  <2> QED BY <1>9, <1>11, <2>1
<1>13. Len(t) < Word
  BY <1>10, <1>12, Constants
<1>14. ts \in Seq(Seq(Byte)) /\ Len(ts) = 1 /\ ts[1] = t
  BY <1>2, <1>9, <1>12, SMTT(30)
<1>15. f \in Frames /\ Valid(f) /\ f.type = "FAIL"
  <2>1. \A k \in 1..Len(ts) :
           Len(ts[k]) < Word /\ (IsAddr("FAIL", k) => ts[k] # <<>>)
    BY <1>7, <1>13, <1>14
  <2> QED BY <1>2, <1>7, <1>14, <2>1, FrameBuilt
<1>16. f.type \in KindsAt("producer", Len(written["producer"]))
  BY <1>15 DEF KindsAt
<1> QED BY <1>3, <1>4, <1>15, <1>16, WriteKeeps

-----------------------------------------------------------------------------
(* Every read preserves the invariant.                                     *)

LEMMA ExpectedKinds ==
    ASSUME Basic, NEW s \in Streams
    PROVE  Expected(s) = KindsAt(s, Len(read[s]))
<1>1. read[s] = <<>> <=> Len(read[s]) = 0
  BY DEF Basic
<1> QED BY <1>1, Zenon DEF Expected, KindsAt, Streams

\* A cell that is no magic ends the connection.
LEMMA NoMagic ==
    ASSUME NEW types \in SUBSET Kinds, NEW x \in Nat, x < Word
    PROVE  read_frame(types, <<x>>).kind = "bail"
<1>1. \A t \in types : magic(t) # <<x>>[1]
  BY Magics, Constants
<1> QED BY <1>1 DEF read_frame

\* The read of a stream whose flow is broken: a torn ASGN.
LEMMA TornRead ==
    ASSUME FramesInv, NEW s \in Streams, Take(s), ~Intact(s)
    PROVE  FramesInv'
<1>1. PICK cells, r : /\ cells = Append(got[s], Head(wire[s]))
                      /\ r = read_frame(Expected(s), cells)
  OBVIOUS
<1>2. /\ Conn(s) \notin closed /\ wire[s] # <<>>
      /\ wire' = [wire EXCEPT ![s] = Tail(@)]
      /\ got' = [got EXCEPT ![s] = IF r.kind = "more" THEN cells ELSE <<>>]
      /\ read' = IF r.kind = "frame"
                 THEN [read EXCEPT ![s] = Append(@, r.frame)] ELSE read
      /\ closed' = IF r.kind = "bail" THEN closed \cup {Conn(s)} ELSE closed
      /\ written' = written /\ torn' = torn
  BY <1>1 DEF Take
<1>3. s = "assign" /\ torn /\ "producer" \notin closed /\ Conn(s) = "producer"
  BY <1>2, Ends DEF Intact
<1>4. got[s] = <<>> /\ wire[s] # <<>> /\ Head(wire[s]) < Word
  BY <1>3 DEF FramesInv, TornOK
<1>5. Basic
  BY DEF FramesInv
<1>6. Head(wire[s]) \in Nat /\ Tail(wire[s]) \in Cells
  BY <1>4, <1>5 DEF Basic, Cells, Cell
<1>7. r.kind = "bail"
  <2>1. cells = <<Head(wire[s])>>
    BY <1>1, <1>4
  <2>2. Expected(s) \in SUBSET Kinds
    BY <1>3 DEF Expected, Kinds
  <2> QED BY <1>1, <1>4, <1>6, <2>1, <2>2, NoMagic
<1>8. /\ got' = [got EXCEPT ![s] = <<>>] /\ read' = read
      /\ closed' = closed \cup {"producer"} /\ written' = written /\ torn' = torn
  BY <1>2, <1>3, <1>7
<1>9. got' = got
  BY <1>4, <1>5, <1>8 DEF Basic
<1>10. Basic'
  BY <1>2, <1>5, <1>6, <1>8, <1>9 DEF Basic
<1>11. \A u \in Streams : StreamOK(u, written[u], read[u], got[u])'
  BY <1>8, <1>9 DEF FramesInv
<1>12. ASSUME NEW u \in Streams, Intact(u)'
       PROVE  FlowOK(written[u], read[u], got[u], wire[u])'
  <2>1. Intact(u) /\ Conn(u) # "producer"
    BY <1>8, <1>12 DEF Intact
  <2>2. u # s
    BY <1>3, <2>1
  <2>3. wire'[u] = wire[u]
    BY <1>2, <1>5, <2>2 DEF Basic
  <2> QED BY <1>8, <1>9, <2>1, <2>3 DEF FramesInv
<1>13. TornOK'
  BY <1>8 DEF TornOK
<1>14. ClosedForCause'
  <2>1. ASSUME NEW c \in closed
        PROVE  \/ c = "producer" /\ torn'
               \/ Len(read'[c]) < Len(written'[c]) /\ Overlong(Stuck(c))'
    <3>1. ClosedForCause
      BY DEF FramesInv
    <3> QED BY <1>8, <3>1, CauseLasts
  <2> QED BY <1>3, <1>8, <2>1 DEF ClosedForCause
<1> QED BY <1>10, <1>11, <1>12, <1>13, <1>14 DEF FramesInv

\* The read of a stream that is in order.
LEMMA IntactRead ==
    ASSUME FramesInv, NEW s \in Streams, Take(s), Intact(s)
    PROVE  FramesInv'
<1>1. PICK cells, r, v : /\ cells = Append(got[s], Head(wire[s]))
                         /\ r = read_frame(Expected(s), cells) /\ v = Tail(wire[s])
  OBVIOUS
<1>2. /\ Conn(s) \notin closed /\ wire[s] # <<>>
      /\ wire' = [wire EXCEPT ![s] = Tail(@)]
      /\ got' = [got EXCEPT ![s] = IF r.kind = "more" THEN cells ELSE <<>>]
      /\ read' = IF r.kind = "frame"
                 THEN [read EXCEPT ![s] = Append(@, r.frame)] ELSE read
      /\ closed' = IF r.kind = "bail" THEN closed \cup {Conn(s)} ELSE closed
      /\ written' = written /\ torn' = torn
  BY <1>1 DEF Take
<1>3. Basic
  BY DEF FramesInv
<1>4. got[s] \in Cells /\ wire[s] \in Cells /\ read[s] \in Seq(Frames)
  BY <1>3 DEF Basic
<1>5. /\ StreamOK(s, written[s], read[s], got[s])
      /\ FlowOK(written[s], read[s], got[s], wire[s])
  BY DEF FramesInv
<1>6. r = read_frame(KindsAt(s, Len(read[s])), cells)
  BY <1>1, <1>3, ExpectedKinds
<1>7. /\ Len(read[s]) < Len(written[s]) /\ v \in Cells /\ cells \in Cells
      /\ r.kind \in {"more", "bail", "frame"}
      /\ r.kind = "bail" => Overlong(written[s][Len(read[s]) + 1]) /\ s # "assign"
      /\ r.kind = "more" => /\ StreamOK(s, written[s], read[s], cells)
                            /\ FlowOK(written[s], read[s], cells, v)
      /\ r.kind = "frame" =>
            /\ r.frame \in Frames
            /\ StreamOK(s, written[s], Append(read[s], r.frame), <<>>)
            /\ FlowOK(written[s], Append(read[s], r.frame), <<>>, v)
  <2>1. PICK w, q, g, z : w = written[s] /\ q = read[s] /\ g = got[s] /\ z = wire[s]
    OBVIOUS
  <2>2. /\ g \in Cells /\ z \in Cells /\ StreamOK(s, w, q, g) /\ FlowOK(w, q, g, z)
        /\ z # <<>> /\ cells = Append(g, Head(z)) /\ v = Tail(z)
        /\ r = read_frame(KindsAt(s, Len(q)), cells)
    BY <1>1, <1>2, <1>4, <1>5, <1>6, <2>1
  <2>3. /\ Len(q) < Len(w) /\ v \in Cells /\ cells \in Cells
        /\ r.kind \in {"more", "bail", "frame"}
        /\ r.kind = "bail" => Overlong(w[Len(q) + 1]) /\ s # "assign"
        /\ r.kind = "more" => StreamOK(s, w, q, cells) /\ FlowOK(w, q, cells, v)
        /\ r.kind = "frame" =>
              /\ r.frame \in Frames
              /\ StreamOK(s, w, Append(q, r.frame), <<>>)
              /\ FlowOK(w, Append(q, r.frame), <<>>, v)
    BY <2>2, StreamRead
  <2> QED BY <2>1, <2>3
<1>8. /\ wire'[s] = v
      /\ \A u \in Streams \ {s} : /\ wire'[u] = wire[u] /\ got'[u] = got[u]
                                  /\ read'[u] = read[u]
  BY <1>1, <1>2, <1>3 DEF Basic
<1>9. ASSUME NEW u \in Streams \ {s}
      PROVE  /\ StreamOK(u, written[u], read[u], got[u])'
             /\ Intact(u)' => FlowOK(written[u], read[u], got[u], wire[u])'
  <2>1. StreamOK(u, written[u], read[u], got[u])'
    BY <1>2, <1>8 DEF FramesInv
  <2>2. Intact(u)' => Intact(u)
    BY <1>2 DEF Intact
  <2> QED BY <1>2, <1>8, <2>1, <2>2 DEF FramesInv
<1>10. TornOK'
  <2> SUFFICES ASSUME torn, "producer" \notin closed'
               PROVE  /\ got'["assign"] = <<>> /\ wire'["assign"] # <<>>
                      /\ Head(wire'["assign"]) < Word
    BY <1>2 DEF TornOK
  <2>1. "assign" \in Streams \ {s} /\ "producer" \notin closed
    BY <1>2 DEF Intact, Streams
  <2>2. /\ got["assign"] = <<>> /\ wire["assign"] # <<>> /\ Head(wire["assign"]) < Word
    BY <2>1 DEF FramesInv, TornOK
  <2> QED BY <1>8, <2>1, <2>2
<1>11. ASSUME NEW c \in closed
       PROVE  \/ c = "producer" /\ torn'
              \/ Len(read'[c]) < Len(written'[c]) /\ Overlong(Stuck(c))'
  <2>1. c \in Streams \ {s}
    BY <1>2, <1>3, Ends DEF Basic, Streams
  <2>2. read'[c] = read[c] /\ written'[c] = written[c] /\ (torn => torn')
    BY <1>2, <1>8, <2>1
  <2>3. ClosedForCause
    BY DEF FramesInv
  <2> QED BY <2>2, <2>3, CauseLasts
<1>12. CASE r.kind = "more"
  <2>1. got'[s] = cells /\ read' = read /\ closed' = closed
    BY <1>2, <1>3, <1>12 DEF Basic
  <2>2. Basic'
    BY <1>1, <1>2, <1>3, <1>7, <1>12, <2>1 DEF Basic
  <2>3. /\ StreamOK(s, written[s], read[s], got[s])'
        /\ FlowOK(written[s], read[s], got[s], wire[s])'
    BY <1>2, <1>7, <1>8, <1>12, <2>1
  <2>4. ClosedForCause'
    BY <1>11, <2>1 DEF ClosedForCause
  <2> QED BY <1>9, <1>10, <2>2, <2>3, <2>4 DEF FramesInv
<1>13. CASE r.kind = "frame"
  <2>1. got'[s] = <<>> /\ read'[s] = Append(read[s], r.frame) /\ closed' = closed
    BY <1>2, <1>3, <1>13 DEF Basic
  <2>2. Basic'
    <3>1. <<>> \in Cells /\ Append(read[s], r.frame) \in Seq(Frames)
      BY <1>4, <1>7, <1>13 DEF Cells
    <3> QED BY <1>1, <1>2, <1>3, <1>7, <1>13, <2>1, <3>1 DEF Basic
  <2>3. /\ StreamOK(s, written[s], read[s], got[s])'
        /\ FlowOK(written[s], read[s], got[s], wire[s])'
    BY <1>2, <1>7, <1>8, <1>13, <2>1
  <2>4. ClosedForCause'
    BY <1>11, <2>1 DEF ClosedForCause
  <2> QED BY <1>9, <1>10, <2>2, <2>3, <2>4 DEF FramesInv
<1>14. CASE r.kind = "bail"
  <2>1. got'[s] = <<>> /\ read' = read /\ closed' = closed \cup {Conn(s)}
    BY <1>2, <1>3, <1>14 DEF Basic
  <2>2. s # "assign" /\ Conn(s) = s /\ s \in {"consumer", "producer"}
    BY <1>7, <1>14, Ends
  <2>3. Basic'
    <3>1. <<>> \in Cells
      BY DEF Cells
    <3> QED BY <1>1, <1>2, <1>3, <1>7, <1>14, <2>1, <2>2, <3>1 DEF Basic
  <2>4. StreamOK(s, written[s], read[s], got[s])'
    BY <1>2, <1>5, <2>1 DEF StreamOK
  <2>5. ~Intact(s)'
    BY <2>1, <2>2 DEF Intact
  <2>6. Len(read'[s]) < Len(written'[s]) /\ Overlong(Stuck(s))'
    <3>1. Stuck(s)' = written[s][Len(read[s]) + 1]
      BY <1>2, <2>1 DEF Stuck
    <3> QED BY <1>2, <1>7, <1>14, <2>1, <3>1 DEF Overlong
  <2>7. ClosedForCause'
    BY <1>11, <2>1, <2>2, <2>6 DEF ClosedForCause
  <2> QED BY <1>9, <1>10, <2>3, <2>4, <2>5, <2>7 DEF FramesInv
<1> QED BY <1>7, <1>12, <1>13, <1>14

\* The loss of a read: there is more of the frame on the wire, and none of it
\* is a magic.
LEMMA CancelKeeps ==
    ASSUME FramesInv, Cancel
    PROVE  FramesInv'
<1>1. /\ Conn("assign") \notin closed /\ got["assign"] # <<>>
      /\ got' = [got EXCEPT !["assign"] = <<>>] /\ torn' = TRUE
      /\ wire' = wire /\ written' = written /\ read' = read /\ closed' = closed
  BY DEF Cancel
<1>2. "assign" \in Streams /\ Conn("assign") = "producer"
  BY Ends DEF Streams
<1>3. Basic
  BY DEF FramesInv
<1>4. ~torn /\ Intact("assign")
  <2>1. ~torn
    BY <1>1, <1>2 DEF FramesInv, TornOK
  <2> QED BY <1>1, <2>1 DEF Intact
<1>5. PICK w, r, g, v : /\ w = written["assign"] /\ r = read["assign"]
                        /\ g = got["assign"] /\ v = wire["assign"]
  OBVIOUS
<1>6. g \in Cells /\ v \in Cells /\ StreamOK("assign", w, r, g) /\ FlowOK(w, r, g, v)
  BY <1>2, <1>3, <1>4, <1>5 DEF FramesInv, Basic
<1>7. PICK h : h = Len(r)
  OBVIOUS
<1>8. Sent(w) /\ Len(w) \in Nat /\ h \in 0..Len(w) /\ g \o v = Behind(w, h)
  BY <1>6, <1>7 DEF StreamOK, FlowOK, Sent
<1>9. Len(g) \in Nat /\ Len(v) \in Nat /\ Len(g) # 0 /\ Len(g \o v) = Len(g) + Len(v)
  <2>1. Len(g) # 0
    BY <1>1, <1>5, <1>6 DEF Cells
  <2> QED BY <1>6, <2>1, Joined
<1>10. h # Len(w)
  <2> SUFFICES ASSUME h = Len(w) PROVE FALSE
    OBVIOUS
  <2>1. g \o v = <<>>
    BY <1>8, BehindEmpty
  <2>2. Len(g \o v) = 0
    BY <2>1
  <2> QED BY <1>9, <2>2
<1>11. PICK f, F, R : f = w[h + 1] /\ F = encode(f) /\ R = Behind(w, h + 1)
  OBVIOUS
<1>12. /\ Valid(f) /\ F \in Cells /\ R \in Cells /\ g \o v = F \o R
       /\ Len(g) < Len(F) /\ Layout(f, F)
  <2>1. h + 1 \in 0..Len(w) /\ Valid(f) /\ Behind(w, h) = F \o R
    BY <1>8, <1>10, <1>11, BehindRead
  <2>2. R \in Cells
    BY <1>8, <1>11, <2>1, BehindCells
  <2>3. F \in Cells /\ Layout(f, F)
    BY <1>11, <2>1, EncodeCells, EncodeLayout
  <2>4. Len(g) < Len(F)
    BY <1>6, <1>7, <1>10, <1>11 DEF FlowOK
  <2> QED BY <1>8, <2>1, <2>2, <2>3, <2>4
<1>13. v # <<>>
  <2> SUFFICES ASSUME v = <<>> PROVE FALSE
    OBVIOUS
  <2>1. Len(v) = 0
    OBVIOUS
  <2>2. Len(F \o R) = Len(F) + Len(R) /\ Len(F) \in Nat /\ Len(R) \in Nat
    BY <1>12, Joined
  <2>3. Len(g) + Len(v) = Len(F) + Len(R)
    BY <1>9, <1>12, <2>2
  <2> QED BY <1>9, <1>12, <2>1, <2>2, <2>3
<1>14. Head(v) = F[Len(g) + 1]
  <2>1. InFrame(g, v, F, R)
    BY <1>6, <1>12, <1>13 DEF InFrame
  <2> QED BY <2>1, CellTaken DEF Took
<1>15. Head(v) < Word
  <2>1. Len(F) \in Nat
    BY <1>12 DEF Cells
  <2>2. Len(g) + 1 \in 2..Len(F)
    BY <1>9, <1>12, <2>1
  <2> QED BY <1>12, <1>14, <2>2 DEF Layout
<1>16. /\ got'["assign"] = <<>> /\ \A u \in Streams \ {"assign"} : got'[u] = got[u]
       /\ got' \in [Streams -> Cells]
  <2>1. <<>> \in Cells
    BY DEF Cells
  <2> QED BY <1>1, <1>2, <1>3, <2>1 DEF Basic
<1>17. Basic'
  BY <1>1, <1>3, <1>16 DEF Basic
<1>18. TornOK'
  BY <1>1, <1>5, <1>13, <1>15, <1>16 DEF TornOK
<1>19. ASSUME NEW u \in Streams
       PROVE  /\ StreamOK(u, written[u], read[u], got[u])'
              /\ Intact(u)' => FlowOK(written[u], read[u], got[u], wire[u])'
  <2>1. CASE u = "assign"
    <3>1. StreamOK("assign", w, r, <<>>)
      BY <1>6 DEF StreamOK
    <3>2. ~Intact(u)'
      BY <1>1, <2>1 DEF Intact
    <3> QED BY <1>1, <1>5, <1>16, <2>1, <3>1, <3>2
  <2>2. CASE u # "assign"
    <3>1. Intact(u)' => Intact(u)
      BY <1>1, <2>2 DEF Intact
    <3> QED BY <1>1, <1>16, <2>2, <3>1 DEF FramesInv
  <2> QED BY <2>1, <2>2
<1>20. ClosedForCause'
  <2> SUFFICES ASSUME NEW c \in closed
               PROVE  \/ c = "producer" /\ torn'
                      \/ Len(read'[c]) < Len(written'[c]) /\ Overlong(Stuck(c))'
    BY <1>1 DEF ClosedForCause
  <2>1. ClosedForCause
    BY DEF FramesInv
  <2> QED BY <1>1, <2>1, CauseLasts
<1> QED BY <1>17, <1>18, <1>19, <1>20 DEF FramesInv

-----------------------------------------------------------------------------
(* The results.                                                            *)

LEMMA FramesNext == FramesInv /\ [Next]_vars => FramesInv'
<1> SUFFICES ASSUME FramesInv, [Next]_vars PROVE FramesInv'
  OBVIOUS
<1>1. ASSUME NEW n \in 0..MaxText, SendRegister(n) \/ SendCrdy(n) PROVE FramesInv'
  BY <1>1, RegisterKeeps, CrdyKeeps
<1>2. CASE SendAssign \/ SendFailed
  BY <1>2, AssignKeeps, FailedKeeps
<1>3. CASE SendDelivered
  <2>1. Write("producer", Frame("DELV", <<>>))
    BY <1>3 DEF SendDelivered
  <2> QED BY <2>1, PlainKeeps
<1>4. ASSUME NEW type \in {"PRDY", "HBRP"}, SendNews(type) PROVE FramesInv'
  <2>1. Write("producer", Frame(type, <<>>)) /\ type \in {"PRDY", "HBRP", "DELV"}
    BY <1>4 DEF SendNews
  <2> QED BY <2>1, PlainKeeps
<1>5. ASSUME NEW s \in Streams, Take(s) PROVE FramesInv'
  BY <1>5, TornRead, IntactRead
<1>6. CASE Cancel
  BY <1>6, CancelKeeps
<1>7. CASE UNCHANGED vars
  <2>1. /\ wire' = wire /\ got' = got /\ written' = written /\ read' = read
        /\ closed' = closed /\ torn' = torn
    BY <1>7 DEF vars
  <2>2. Basic' /\ TornOK'
    BY <2>1 DEF FramesInv, Basic, TornOK
  <2>3. \A s \in Streams :
           /\ StreamOK(s, written[s], read[s], got[s])'
           /\ Intact(s)' => FlowOK(written[s], read[s], got[s], wire[s])'
    BY <2>1 DEF FramesInv, Intact
  <2>4. ClosedForCause'
    BY <2>1, CauseLasts DEF FramesInv, ClosedForCause
  <2> QED BY <2>2, <2>3, <2>4 DEF FramesInv
<1> QED BY <1>1, <1>2, <1>3, <1>4, <1>5, <1>6, <1>7 DEF Next

\* FramesInv is inductive: what readers have taken and what is on the wire are
\* exactly the frames that encode_* wrote and read_*_payload has not handed on.
THEOREM FramesInvariant == Spec => []FramesInv
  BY FramesInit, FramesNext, PTL DEF Spec

\* The control streams are well-typed, and a read under way never holds a whole
\* frame: read_*_payload returns as soon as the last byte is there.
THEOREM FramesTypes == Spec => []TypeOK
<1>1. FramesInv => TypeOK
  <2> SUFFICES ASSUME FramesInv PROVE TypeOK
    OBVIOUS
  <2>1. Basic
    BY DEF FramesInv
  <2>2. ASSUME NEW s \in Streams, got[s] # <<>>
        PROVE  read_frame(Expected(s), got[s]).kind = "more"
    <3>1. read_frame(KindsAt(s, Len(read[s])), got[s]).kind = "more"
      BY <2>2 DEF FramesInv, StreamOK
    <3> QED BY <2>1, <3>1, ExpectedKinds
  <2> QED BY <2>1, <2>2 DEF Basic, TypeOK
<1> QED BY <1>1, FramesInvariant, PTL

\* Readers hand on the frames their peers wrote, unchanged and in order,
\* although select! may drop read_assign_frame half-way.
THEOREM FramesReadBack == Spec => []ReadBack
<1>1. FramesInv => ReadBack
  <2> SUFFICES ASSUME FramesInv, NEW s \in Streams PROVE IsPrefix(read[s], written[s])
    BY DEF ReadBack
  <2>1. PICK r, w : r = read[s] /\ w = written[s]
    OBVIOUS
  <2>2. /\ r \in Seq(Frames) /\ w \in Seq(Frames) /\ Len(r) \in 0..Len(w)
        /\ \A i \in 1..Len(r) : r[i] = w[i]
    BY <2>1 DEF FramesInv, StreamOK, Sent
  <2>3. Len(r) <= Len(w) /\ SubSeq(r, 1, Len(r)) = SubSeq(w, 1, Len(r))
    BY <2>2
  <2> QED BY <2>1, <2>3 DEF IsPrefix
<1> QED BY <1>1, FramesInvariant, PTL

\* handle_control and the producer's control task give a connection up only for
\* a torn ASGN or a text above the 256 bytes of read_utf8_field.
THEOREM ClosuresHaveCause == Spec => []ClosedForCause
<1>1. FramesInv => ClosedForCause
  BY DEF FramesInv
<1> QED BY <1>1, FramesInvariant, PTL
=============================================================================
