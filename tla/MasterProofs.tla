----------------------------- MODULE MasterProofs ----------------------------
(***************************************************************************)
(* Theorems about Master, for every set of producers and consumers and     *)
(* every bound: its types, the counters of the registry, that no CRDY is   *)
(* lost (NoLostCrdy), that nobody awaits a batch in vain (AwaitsSomebody), *)
(* that consumers pull (PullOnly), that the master implements PullService  *)
(* and that no consumer is queued twice (QueuedOnce); before them the      *)
(* lemmas about the operators of the registries and of the matchmaker.     *)
(*                                                                         *)
(* Together with the types and with CleanupLast NoLostCrdy is              *)
(* inductive: a step of the master changes one task, and a consumer in     *)
(* state "matcher_queue" only moves between the queue and the hands of     *)
(* that task.                                                              *)
(*                                                                         *)
(* PullOnly alone is not inductive: a CRDY that was read travels from the  *)
(* handler that read it to the queue and from the queue to a try_match     *)
(* before an ASGN answers it, and failed writes send it back.  Budget      *)
(* counts all of these.                                                    *)
(***************************************************************************)
EXTENDS Master, FiniteSetTheorems, TLAPS

-----------------------------------------------------------------------------
(* The CRDY queue.                                                         *)

\* Ranking a finite set of numbers is a bijection onto 1..n: Retained ranks the
\* positions it keeps, PickFrom the producers of a tier.
LEMMA RankBijection ==
    ASSUME NEW kept \in SUBSET Int, IsFiniteSet(kept)
    PROVE  LET rank(i) == Cardinality({j \in kept : j <= i})
           IN  /\ Cardinality(kept) \in Nat
               /\ \A i \in kept : rank(i) \in 1..Cardinality(kept)
               /\ \A i, k \in kept : rank(i) = rank(k) => i = k
               /\ \A m \in 1..Cardinality(kept) : \E i \in kept : rank(i) = m
<1> DEFINE rank(i) == Cardinality({j \in kept : j <= i})
<1>1. IsFiniteSet(kept) /\ Cardinality(kept) \in Nat
  BY FS_CardinalityType
<1>2. ASSUME NEW i \in kept
      PROVE  rank(i) \in 1..Cardinality(kept)
  <2> DEFINE below == {j \in kept : j <= i}
  <2>1. IsFiniteSet(below) /\ Cardinality(below) <= Cardinality(kept)
    BY <1>1, FS_Subset
  <2>2. Cardinality(below) \in Nat
    BY <2>1, FS_CardinalityType
  <2>3. i \in below
    OBVIOUS
  <2>4. Cardinality(below) # 0
    BY <2>1, <2>3, FS_EmptySet
  <2> QED  BY <1>1, <2>1, <2>2, <2>4
<1>3. ASSUME NEW i \in kept, NEW k \in kept, i < k
      PROVE  rank(i) # rank(k)
  <2> DEFINE A == {j \in kept : j <= i}
             B == {j \in kept : j <= k}
  <2>0. kept \subseteq Int
    OBVIOUS
  <2>1. A \subseteq B /\ k \in B /\ k \notin A
    <3>1. \A j \in kept : j \in Int /\ (j <= i => j <= k)
      BY <1>3, <2>0
    <3>2. k <= k /\ ~(k <= i)
      BY <1>3, <2>0
    <3> QED  BY <3>1, <3>2
  <2>2. IsFiniteSet(B)
    BY <1>1, FS_Subset
  <2>3. Cardinality(B) = Cardinality(A) => B = A
    BY <2>1, <2>2, FS_Subset
  <2> QED  BY <2>1, <2>3
<1>4. \A i, k \in kept : rank(i) = rank(k) => i = k
  <2> TAKE i, k \in kept
  <2>1. i \in Int /\ k \in Int
    OBVIOUS
  <2>2. i < k \/ k < i \/ i = k
    BY <2>1
  <2> QED  BY <2>2, <1>3
<1>5. \A m \in 1..Cardinality(kept) : \E i \in kept : rank(i) = m
  <2> DEFINE N == 1..Cardinality(kept)
             f == [i \in kept |-> rank(i)]
  <2>1. IsFiniteSet(N) /\ Cardinality(N) = Cardinality(kept)
    BY <1>1, FS_Interval
  <2>2. f \in [kept -> N]
    BY <1>2
  <2>3. f \in Injection(kept, N)
    BY <2>2, <1>4 DEF Injection, IsInjective
  <2>4. f \in Surjection(kept, N)
    BY <2>1, <2>3, FS_Injection
  <2> QED  BY <2>4 DEF Surjection
<1> QED  BY <1>1, <1>2, <1>4, <1>5

\* push_waiting keeps every other consumer of the queue.
LEMMA RetainedType ==
    ASSUME NEW S, NEW s \in Seq(S), NEW c, NEW w, w = Retained(s, c)
    PROVE  /\ w \in Seq(S)
           /\ \A i \in DOMAIN s : s[i] # c
                => \E k \in DOMAIN w : w[k] = s[i]
<1> DEFINE kept    == {i \in DOMAIN s : s[i] # c}
           rank(i) == Cardinality({j \in kept : j <= i})
           at(k)   == CHOOSE i \in kept : rank(i) = k
<1>1. kept \in SUBSET (1..Len(s)) /\ Len(s) \in Nat
  OBVIOUS
<1>2. /\ Cardinality(kept) \in Nat
      /\ \A i \in kept : rank(i) \in 1..Cardinality(kept)
      /\ \A i, k \in kept : rank(i) = rank(k) => i = k
      /\ \A m \in 1..Cardinality(kept) : \E i \in kept : rank(i) = m
  <2>1. IsFiniteSet(1..Len(s))
    BY <1>1, FS_Interval
  <2>2. IsFiniteSet(kept) /\ kept \in SUBSET Int
    BY <1>1, <2>1, FS_Subset
  <2> QED  BY <2>2, RankBijection
<1>3. w = [k \in 1..Cardinality(kept) |-> s[at(k)]]
  BY DEF Retained
<1> HIDE DEF rank
<1>4. \A k \in 1..Cardinality(kept) : at(k) \in kept /\ rank(at(k)) = k
  BY <1>2
<1>5. \A i \in kept : at(rank(i)) = i
  BY <1>2, <1>4
<1> HIDE DEF at
<1>6. w \in Seq(S)
  BY <1>2, <1>3, <1>4
<1>7. ASSUME NEW i \in DOMAIN s, s[i] # c
      PROVE  \E k \in DOMAIN w : w[k] = s[i]
  <2>1. i \in kept
    BY <1>7
  <2>2. rank(i) \in 1..Cardinality(kept) /\ at(rank(i)) = i
    BY <2>1, <1>2, <1>5
  <2>3. w[rank(i)] = s[i]
    BY <1>3, <2>2
  <2>4. rank(i) \in DOMAIN w
    BY <1>3, <2>2
  <2> QED  BY <2>3, <2>4
<1> QED  BY <1>6, <1>7

\* Vec::remove loses the entry at its position and no other.
LEMMA RemovedAtType ==
    ASSUME NEW S, NEW s \in Seq(S), NEW i \in 1..Len(s)
    PROVE  /\ RemovedAt(s, i) \in Seq(S)
           /\ \A j \in DOMAIN s : j # i
                => \E k \in DOMAIN RemovedAt(s, i) : RemovedAt(s, i)[k] = s[j]
<1>1. RemovedAt(s, i) \in Seq(S)
  <2>1. /\ Len(s) - 1 \in Nat
        /\ \A k \in 1..Len(s) - 1 : k \in 1..Len(s) /\ k + 1 \in 1..Len(s)
    OBVIOUS
  <2> QED  BY <2>1 DEF RemovedAt
<1>2. ASSUME NEW j \in DOMAIN s, j # i
      PROVE  \E k \in DOMAIN RemovedAt(s, i) : RemovedAt(s, i)[k] = s[j]
  <2> DEFINE k == IF j < i THEN j ELSE j - 1
  <2>1. k \in 1..Len(s) - 1
    BY <1>2
  <2>2. RemovedAt(s, i)[k] = s[j]
    BY <1>2, <2>1 DEF RemovedAt
  <2>3. k \in DOMAIN RemovedAt(s, i)
    BY <2>1 DEF RemovedAt
  <2> QED  BY <2>2, <2>3
<1> QED  BY <1>1, <1>2

\* Vec::swap_remove, likewise.
LEMMA SwapRemovedType ==
    ASSUME NEW S, NEW s \in Seq(S), NEW i \in 1..Len(s)
    PROVE  /\ SwapRemoved(s, i) \in Seq(S)
           /\ \A j \in DOMAIN s : j # i
                => \E k \in DOMAIN SwapRemoved(s, i) :
                        SwapRemoved(s, i)[k] = s[j]
<1>1. SwapRemoved(s, i) \in Seq(S)
  <2>1. /\ Len(s) - 1 \in Nat
        /\ \A k \in 1..Len(s) - 1 : k \in 1..Len(s)
    OBVIOUS
  <2> QED  BY <2>1 DEF SwapRemoved
<1>2. ASSUME NEW j \in DOMAIN s, j # i
      PROVE  \E k \in DOMAIN SwapRemoved(s, i) : SwapRemoved(s, i)[k] = s[j]
  <2> DEFINE k == IF j = Len(s) THEN i ELSE j
  <2>1. k \in 1..Len(s) - 1
    BY <1>2
  <2>2. SwapRemoved(s, i)[k] = s[j]
    BY <1>2, <2>1 DEF SwapRemoved
  <2>3. k \in DOMAIN SwapRemoved(s, i)
    BY <2>1 DEF SwapRemoved
  <2> QED  BY <2>2, <2>3
<1> QED  BY <1>1, <1>2

\* Append adds its element and loses none.
LEMMA AppendedType ==
    ASSUME NEW S, NEW s \in Seq(S), NEW x \in S, NEW w, w = Append(s, x)
    PROVE  /\ w \in Seq(S)
           /\ \E k \in DOMAIN w : w[k] = x
           /\ \A i \in DOMAIN s : \E k \in DOMAIN w : w[k] = s[i]
<1>1. w \in Seq(S) /\ Len(w) = Len(s) + 1
  OBVIOUS
<1>2. DOMAIN w = 1..Len(s) + 1 /\ w[Len(s) + 1] = x
  OBVIOUS
<1>3. \A i \in DOMAIN s : i \in 1..Len(s) + 1 /\ w[i] = s[i]
  OBVIOUS
<1> QED  BY <1>1, <1>2, <1>3

-----------------------------------------------------------------------------
(* Counting the entries of a queue.                                        *)

\* u is made of entries of s, each taken at most once: f tells where from.
Reindexes(f, u, s) ==
    /\ f \in [DOMAIN u -> DOMAIN s]
    /\ \A j, k \in DOMAIN u : f[j] = f[k] => j = k
    /\ \A k \in DOMAIN u : u[k] = s[f[k]]

Positions(s, c) == {i \in DOMAIN s : s[i] = c}

Occurs(s, c) == Cardinality(Positions(s, c))

Distinct(s) == \A i, j \in DOMAIN s : s[i] = s[j] => i = j

LEMMA OccursType ==
    ASSUME NEW S, NEW s \in Seq(S), NEW c
    PROVE  IsFiniteSet(Positions(s, c)) /\ Occurs(s, c) \in Nat
<1>1. IsFiniteSet(1..Len(s)) /\ DOMAIN s = 1..Len(s)
  BY FS_Interval
<1>2. IsFiniteSet(Positions(s, c))
  BY <1>1, FS_Subset DEF Positions
<1> QED  BY <1>2, FS_CardinalityType DEF Occurs

\* An entry that is left out is one occurrence less.
LEMMA OccursReindexed ==
    ASSUME NEW S, NEW s \in Seq(S), NEW u \in Seq(S), NEW f, Reindexes(f, u, s)
    PROVE  /\ \A c : Occurs(u, c) <= Occurs(s, c)
           /\ \A i \in DOMAIN s : (\A k \in DOMAIN u : f[k] # i)
                => Occurs(u, s[i]) + 1 <= Occurs(s, s[i])
<1> DEFINE part(c) == [k \in Positions(u, c) |-> f[k]]
<1>1. \A c : /\ IsFiniteSet(Positions(s, c)) /\ Occurs(s, c) \in Nat
             /\ IsFiniteSet(Positions(u, c)) /\ Occurs(u, c) \in Nat
  BY OccursType
<1>2. ASSUME NEW c, NEW T, IsFiniteSet(T),
             \A k \in Positions(u, c) : f[k] \in T
      PROVE  Cardinality(Positions(u, c)) <= Cardinality(T)
  <2>1. part(c) \in [Positions(u, c) -> T]
    BY <1>2
  <2>2. part(c) \in Injection(Positions(u, c), T)
    BY <2>1 DEF Injection, IsInjective, Reindexes, Positions
  <2> QED  BY <1>2, <2>2, FS_Injection
<1>3. ASSUME NEW c PROVE Occurs(u, c) <= Occurs(s, c)
  <2>1. \A k \in Positions(u, c) : f[k] \in Positions(s, c)
    BY DEF Positions, Reindexes
  <2> QED  BY <1>1, <1>2, <2>1 DEF Occurs
<1>4. ASSUME NEW i \in DOMAIN s, \A k \in DOMAIN u : f[k] # i
      PROVE  Occurs(u, s[i]) + 1 <= Occurs(s, s[i])
  <2> DEFINE c == s[i]
             T == Positions(s, c) \ {i}
  <2>1. \A k \in Positions(u, c) : f[k] \in T
    BY <1>4 DEF Positions, Reindexes
  <2>2. i \in Positions(s, c)
    BY DEF Positions
  <2>3. IsFiniteSet(T) /\ Cardinality(T) = Occurs(s, c) - 1
    BY <1>1, <2>2, FS_RemoveElement DEF Occurs
  <2>4. Occurs(u, c) <= Occurs(s, c) - 1
    BY <1>2, <2>1, <2>3 DEF Occurs
  <2> QED  BY <1>1, <2>4
<1> QED  BY <1>3, <1>4

LEMMA OccursAppended ==
    ASSUME NEW S, NEW s \in Seq(S), NEW x \in S, NEW c
    PROVE  Occurs(Append(s, x), c) = IF c = x THEN Occurs(s, c) + 1
                                              ELSE Occurs(s, c)
<1> DEFINE w == Append(s, x)
<1>1. /\ DOMAIN w = 1..Len(s) + 1 /\ DOMAIN s = 1..Len(s) /\ Len(s) \in Nat
      /\ w[Len(s) + 1] = x /\ \A i \in 1..Len(s) : w[i] = s[i]
  OBVIOUS
<1>2. Len(s) + 1 \notin 1..Len(s)
  BY <1>1
<1> HIDE DEF w
<1>3. CASE c = x
  <2>1. Positions(w, c) = Positions(s, c) \cup {Len(s) + 1}
    BY <1>1, <1>3 DEF Positions
  <2>2. Len(s) + 1 \notin Positions(s, c)
    BY <1>1, <1>2 DEF Positions
  <2> QED  BY <1>3, <2>1, <2>2, OccursType, FS_AddElement, ZenonT(60) DEF Occurs, w
<1>4. CASE c # x
  <2>1. Positions(w, c) = Positions(s, c)
    BY <1>1, <1>4 DEF Positions
  <2> QED  BY <1>4, <2>1 DEF Occurs, w
<1> QED  BY <1>3, <1>4

LEMMA DistinctQueues ==
    ASSUME NEW S, NEW s \in Seq(S), Distinct(s)
    PROVE  /\ \A u, f : Reindexes(f, u, s) => Distinct(u)
           /\ \A x \in S : (\A i \in DOMAIN s : s[i] # x)
                           => Distinct(Append(s, x))
<1>1. ASSUME NEW u, NEW f, Reindexes(f, u, s) PROVE Distinct(u)
  BY <1>1 DEF Reindexes, Distinct
<1>2. ASSUME NEW x \in S, \A i \in DOMAIN s : s[i] # x
      PROVE  Distinct(Append(s, x))
  <2> DEFINE w == Append(s, x)
  <2>1. /\ DOMAIN w = 1..Len(s) + 1 /\ DOMAIN s = 1..Len(s) /\ Len(s) \in Nat
        /\ w[Len(s) + 1] = x /\ \A i \in 1..Len(s) : w[i] = s[i]
    OBVIOUS
  <2>2. \A i \in 1..Len(s) + 1 : i \in 1..Len(s) \/ i = Len(s) + 1
    BY <2>1
  <2> HIDE DEF w
  <2> QED  BY <1>2, <2>1, <2>2 DEF Distinct, w
<1> QED  BY <1>1, <1>2

\* Vec::retain keeps entries, none of them c's.
LEMMA RetainedReindexes ==
    ASSUME NEW S, NEW s \in Seq(S), NEW c
    PROVE  /\ \E f : Reindexes(f, Retained(s, c), s)
           /\ \A k \in DOMAIN Retained(s, c) : Retained(s, c)[k] # c
<1> DEFINE kept    == {i \in DOMAIN s : s[i] # c}
           rank(i) == Cardinality({j \in kept : j <= i})
           at(k)   == CHOOSE i \in kept : rank(i) = k
           w       == Retained(s, c)
           f       == [k \in 1..Cardinality(kept) |-> at(k)]
<1>1. kept \in SUBSET (1..Len(s)) /\ Len(s) \in Nat
  OBVIOUS
<1>2. \A m \in 1..Cardinality(kept) : \E i \in kept : rank(i) = m
  <2>1. IsFiniteSet(1..Len(s))
    BY <1>1, FS_Interval
  <2>2. IsFiniteSet(kept) /\ kept \in SUBSET Int
    BY <1>1, <2>1, FS_Subset
  <2> QED  BY <2>2, RankBijection
<1>3. w = [k \in 1..Cardinality(kept) |-> s[at(k)]]
  BY DEF Retained
<1> HIDE DEF rank, w
<1>4. \A k \in 1..Cardinality(kept) : at(k) \in kept /\ rank(at(k)) = k
  BY <1>2
<1> HIDE DEF at
<1>5. Reindexes(f, w, s)
  BY <1>3, <1>4 DEF Reindexes
<1>6. \A k \in DOMAIN w : w[k] # c
  BY <1>3, <1>4
<1> QED  BY <1>5, <1>6 DEF w

LEMMA RemovedReindexes ==
    ASSUME NEW S, NEW s \in Seq(S), NEW i \in 1..Len(s)
    PROVE  \E f : /\ Reindexes(f, RemovedAt(s, i), s)
                  /\ \A k \in DOMAIN RemovedAt(s, i) : f[k] # i
<1> DEFINE f == [k \in 1..Len(s) - 1 |-> IF k < i THEN k ELSE k + 1]
<1>1. /\ DOMAIN RemovedAt(s, i) = 1..Len(s) - 1
      /\ \A k \in 1..Len(s) - 1 : RemovedAt(s, i)[k] = s[f[k]]
  BY DEF RemovedAt
<1>2. /\ \A k \in 1..Len(s) - 1 : f[k] \in 1..Len(s) /\ f[k] # i
      /\ \A j, k \in 1..Len(s) - 1 : f[j] = f[k] => j = k
  OBVIOUS
<1> HIDE DEF f
<1>3. f \in [DOMAIN RemovedAt(s, i) -> DOMAIN s]
  BY <1>1, <1>2 DEF f
<1> QED  BY <1>1, <1>2, <1>3, SMTT(20) DEF Reindexes

LEMMA SwapReindexes ==
    ASSUME NEW S, NEW s \in Seq(S), NEW i \in 1..Len(s)
    PROVE  \E f : Reindexes(f, SwapRemoved(s, i), s)
<1> DEFINE f == [k \in 1..Len(s) - 1 |-> IF k = i THEN Len(s) ELSE k]
<1>1. /\ DOMAIN SwapRemoved(s, i) = 1..Len(s) - 1
      /\ \A k \in 1..Len(s) - 1 : SwapRemoved(s, i)[k] = s[f[k]]
  BY DEF SwapRemoved
<1>2. /\ \A k \in 1..Len(s) - 1 : f[k] \in 1..Len(s)
      /\ \A j, k \in 1..Len(s) - 1 : f[j] = f[k] => j = k
  OBVIOUS
<1> HIDE DEF f
<1>3. f \in [DOMAIN SwapRemoved(s, i) -> DOMAIN s]
  BY <1>1, <1>2 DEF f
<1> QED  BY <1>1, <1>2, <1>3, SMTT(20) DEF Reindexes

-----------------------------------------------------------------------------
(* The producer registry: its methods keep the types and the counters.     *)

RegistryStep == RegistryOK' /\ (CountersMatch => CountersMatch')

\* |B| = |A| + |B \ A| - |A \ B|, the sum transition_entry keeps.
LEMMA CountChange ==
    ASSUME NEW A \in SUBSET Producers, NEW B \in SUBSET Producers
    PROVE  /\ Cardinality(A) \in Nat /\ Cardinality(B) \in Nat
           /\ Cardinality(A \ B) \in Nat /\ Cardinality(B \ A) \in Nat
           /\ Cardinality(B) =
                Cardinality(A) + Cardinality(B \ A) - Cardinality(A \ B)
<1>1. IsFiniteSet(A) /\ IsFiniteSet(B)
  BY IdAssumption, FS_Subset
<1>2. IsFiniteSet(A \ B) /\ IsFiniteSet(B \ A) /\ IsFiniteSet(A \cap B)
  BY <1>1, FS_Subset
<1>3. /\ Cardinality(A) \in Nat /\ Cardinality(B) \in Nat
      /\ Cardinality(A \ B) \in Nat /\ Cardinality(B \ A) \in Nat
      /\ Cardinality(A \cap B) \in Nat
  BY <1>1, <1>2, FS_CardinalityType
<1>4. Cardinality(A \ B) = Cardinality(A) - Cardinality(A \cap B)
  BY <1>1, FS_Difference
<1>5. Cardinality(B \ A) = Cardinality(B) - Cardinality(A \cap B)
  <2>1. B \cap A = A \cap B
    OBVIOUS
  <2>2. Cardinality(B \ A) = Cardinality(B) - Cardinality(B \cap A)
    BY <1>1, FS_Difference
  <2> QED  BY <2>1, <2>2, Zenon
<1>6. ASSUME NEW a \in Nat, NEW b \in Nat, NEW d \in Nat, NEW e \in Nat,
             NEW m \in Nat, d = a - m, e = b - m
      PROVE  b = a + e - d
  BY <1>6
<1> QED  BY <1>3, <1>4, <1>5, <1>6

\* transition_entry, whatever entries it writes.
LEMMA TransitionStep ==
    ASSUME RegistryOK, NEW new \in [Producers -> ProducerEntry],
           transition_entries(new)
    PROVE  RegistryStep
<1> DEFINE A(s) == InState(producers, s)
           B(s) == InState(new, s)
<1>1. \A s : A(s) \in SUBSET Producers /\ B(s) \in SUBSET Producers
  BY DEF InState
<1>2. \A s : /\ Cardinality(A(s)) \in Nat /\ Cardinality(B(s)) \in Nat
             /\ Entering(new, s) \in Nat /\ Leaving(new, s) \in Nat
             /\ Cardinality(B(s)) =
                    Cardinality(A(s)) + Entering(new, s) - Leaving(new, s)
  BY <1>1, CountChange DEF Entering, Leaving
<1>3. producers' = new /\ \A s : InState(producers', s) = B(s)
  BY DEF transition_entries
<1>4. /\ ready_count' = ready_count + Entering(new, "Ready")
                                    - Leaving(new, "Ready")
      /\ busy_count' = busy_count + Entering(new, "Busy")
                                  - Leaving(new, "Busy")
  BY DEF transition_entries
<1>5. RegistryOK'
  BY <1>2, <1>3, <1>4 DEF RegistryOK
<1>6. ASSUME CountersMatch PROVE CountersMatch'
  <2>1. /\ ready_count = Cardinality(A("Ready"))
        /\ busy_count = Cardinality(A("Busy"))
    BY <1>6 DEF CountersMatch
  <2>2. /\ ready_count' = Cardinality(B("Ready"))
        /\ busy_count' = Cardinality(B("Busy"))
    BY <1>2, <1>4, <2>1
  <2> QED  BY <1>3, <2>2 DEF CountersMatch
<1> QED  BY <1>5, <1>6 DEF RegistryStep

LEMMA UpdateStep ==
    ASSUME RegistryOK, NEW p \in Producers, NEW e \in ProducerEntry,
           update(p, e)
    PROVE  RegistryStep
<1> DEFINE new == [producers EXCEPT ![p] = IF Registered(p) THEN e ELSE @]
<1>1. new \in [Producers -> ProducerEntry]
  BY DEF RegistryOK
<1>2. transition_entries(new)
  BY DEF update
<1> QED  BY <1>1, <1>2, TransitionStep

\* remove: the counters go down with the state the entry had.
LEMMA RemoveStep ==
    ASSUME RegistryOK, NEW p \in Producers, remove_producer(p)
    PROVE  RegistryStep
<1> DEFINE A(s) == InState(producers, s)
           B(s) == InState(producers', s)
<1>1. NoEntry \in ProducerEntry /\ NoEntry.state = "none"
  BY DEF NoEntry, ProducerEntry, ProducerState, None
<1>2. RegistryOK'
  BY <1>1 DEF RegistryOK, remove_producer
<1>3. \A s : s # "none" => B(s) = A(s) \ {p}
  BY <1>1 DEF RegistryOK, remove_producer, InState
<1>4. \A s : A(s) \subseteq Producers /\ IsFiniteSet(A(s))
  BY IdAssumption, FS_Subset DEF InState
<1>5. \A s : Cardinality(A(s) \ {p}) = IF producers[p].state = s
                                       THEN Cardinality(A(s)) - 1
                                       ELSE Cardinality(A(s))
  BY <1>4, FS_RemoveElement, ZenonT(60) DEF InState
<1> HIDE DEF A, B
<1>6. ASSUME CountersMatch PROVE CountersMatch'
  <2>1. /\ ready_count = Cardinality(A("Ready"))
        /\ busy_count = Cardinality(A("Busy"))
    BY <1>6 DEF CountersMatch, A
  <2>2. /\ ready_count' = Cardinality(B("Ready"))
        /\ busy_count' = Cardinality(B("Busy"))
    BY <1>3, <1>5, <2>1 DEF remove_producer
  <2> QED  BY <2>2 DEF CountersMatch, B
<1> QED  BY <1>2, <1>6 DEF RegistryStep

LEMMA EntryTypes ==
    ASSUME NEW e \in ProducerEntry
    PROVE  /\ \A s \in ProducerState : [e EXCEPT !.state = s] \in ProducerEntry
           /\ \A c \in Consumers :
                [e EXCEPT !.state = "Busy", !.pending = c, !.expired = FALSE]
                    \in ProducerEntry
           /\ [e EXCEPT !.pending = None] \in ProducerEntry
           /\ \A b \in BOOLEAN : [e EXCEPT !.prdy = b] \in ProducerEntry
           /\ release_busy_entry(e) \in ProducerEntry
           /\ promote_ready(e) \in ProducerEntry
           /\ \A n, q \in Nat : [e EXCEPT !.pend = q, !.ring = n]
                                    \in ProducerEntry
           /\ [e EXCEPT !.prdy = FALSE,
                        !.state = IF @ = "Ready" THEN "Idle" ELSE @]
                    \in ProducerEntry
  BY DEF ProducerEntry, ProducerState, None, release_busy_entry, promote_ready

LEMMA HeartbeatEntryType ==
    ASSUME NEW e \in ProducerEntry, NEW hb \in Frame
    PROVE  heartbeat_entry(e, hb) \in ProducerEntry
<1> DEFINE seen == [e EXCEPT !.pend = hb.pend, !.ring = hb.n]
<1>1. hb.n \in Nat /\ hb.pend \in Nat
  BY DEF Frame
<1>2. seen \in ProducerEntry
  BY <1>1, EntryTypes
<1>3. /\ promote_ready(release_busy_entry(seen)) \in ProducerEntry
      /\ release_busy_entry(seen) \in ProducerEntry
      /\ promote_ready(seen) \in ProducerEntry
      /\ [seen EXCEPT !.prdy = FALSE] \in ProducerEntry
  BY <1>2, EntryTypes
<1>4. heartbeat_entry(e, hb) \in
        {promote_ready(release_busy_entry(seen)), release_busy_entry(seen),
         promote_ready(seen), [seen EXCEPT !.prdy = FALSE], seen}
  BY DEF heartbeat_entry
<1> QED  BY <1>2, <1>3, <1>4

LEMMA PrunedType ==
    ASSUME RegistryOK, NEW cand
    PROVE  Pruned(cand) \in [Producers -> ProducerEntry]
  BY EntryTypes DEF Pruned, RegistryOK

\* Every method of the registry keeps its types and its counters.
LEMMA RegistryMethods ==
    ASSUME RegistryOK, NEW p \in Producers
    PROVE  /\ UNCHANGED regVars => RegistryStep
           /\ register_producer(p) => RegistryStep
           /\ remove_producer(p) => RegistryStep
           /\ \A s \in ProducerState : set_state(p, s) => RegistryStep
           /\ mark_prdy(p) => RegistryStep
           /\ \A c \in Consumers : mark_assigned(p, c) => RegistryStep
           /\ clear_stale_busy(p) => RegistryStep
           /\ take_pending_consumer(p) => RegistryStep
           /\ record_report(p) => RegistryStep
           /\ \A hb \in Frame : record_heartbeat(p, hb) => RegistryStep
<1>0. producers[p] \in ProducerEntry
  BY DEF RegistryOK
<1>1. UNCHANGED regVars => RegistryStep
  BY DEF regVars, RegistryStep, RegistryOK, CountersMatch
<1>2. ASSUME register_producer(p) PROVE RegistryStep
  <2> DEFINE new == [producers EXCEPT ![p] = [NoEntry EXCEPT !.state = "Idle"]]
  <2>1. [NoEntry EXCEPT !.state = "Idle"] \in ProducerEntry
    BY DEF NoEntry, ProducerEntry, ProducerState, None
  <2>2. new \in [Producers -> ProducerEntry]
    BY <2>1 DEF RegistryOK
  <2>3. transition_entries(new)
    BY <1>2 DEF register_producer
  <2> QED  BY <2>2, <2>3, TransitionStep
<1>3. remove_producer(p) => RegistryStep
  BY RemoveStep
<1>4. ASSUME NEW s \in ProducerState, set_state(p, s) PROVE RegistryStep
  BY <1>0, <1>4, EntryTypes, UpdateStep DEF set_state
<1>5. mark_prdy(p) => RegistryStep
  BY <1>0, EntryTypes, UpdateStep DEF mark_prdy
<1>6. ASSUME NEW c \in Consumers, mark_assigned(p, c) PROVE RegistryStep
  BY <1>0, <1>6, EntryTypes, UpdateStep DEF mark_assigned
<1>7. clear_stale_busy(p) => RegistryStep
  BY <1>0, EntryTypes, UpdateStep DEF clear_stale_busy
<1>8. take_pending_consumer(p) => RegistryStep
  BY <1>0, EntryTypes, UpdateStep DEF take_pending_consumer
<1>9. record_report(p) => RegistryStep
  <2>1. release_busy_entry(producers[p]) \in ProducerEntry
    BY <1>0, EntryTypes
  <2>2. [release_busy_entry(producers[p]) EXCEPT !.prdy = FALSE]
            \in ProducerEntry
    BY <2>1, EntryTypes
  <2> QED  BY <2>2, UpdateStep DEF record_report
<1>10. ASSUME NEW hb \in Frame, record_heartbeat(p, hb) PROVE RegistryStep
  BY <1>0, <1>10, HeartbeatEntryType, UpdateStep DEF record_heartbeat
<1> QED
  BY <1>1, <1>2, <1>3, <1>4, <1>5, <1>6, <1>7, <1>8, <1>9, <1>10

\* The methods that touch many entries at once.
LEMMA RegistrySweeps ==
    ASSUME RegistryOK, NEW cand, NEW c
    PROVE  /\ clear_assignments_to_consumer(c) => RegistryStep
           /\ rank_ready_candidates(cand) => RegistryStep
           /\ sync_matcher_ready_state(cand) => RegistryStep
<1>1. ASSUME clear_assignments_to_consumer(c) PROVE RegistryStep
  <2> DEFINE new == [p \in Producers |-> IF p \in AssignedTo(c)
                                         THEN release_busy_entry(producers[p])
                                         ELSE producers[p]]
  <2>1. new \in [Producers -> ProducerEntry]
    BY EntryTypes DEF RegistryOK
  <2> QED  BY <1>1, <2>1, TransitionStep DEF clear_assignments_to_consumer
<1>2. rank_ready_candidates(cand) => RegistryStep
  BY PrunedType, TransitionStep DEF rank_ready_candidates
<1>3. ASSUME sync_matcher_ready_state(cand) PROVE RegistryStep
  <2> DEFINE pruned == Pruned(cand)
             new == [p \in Producers |->
                        IF /\ entry_has_backlog(pruned[p])
                           /\ pruned[p].state = "Idle"
                        THEN promote_ready(pruned[p])
                        ELSE pruned[p]]
  <2>1. pruned \in [Producers -> ProducerEntry]
    BY PrunedType
  <2> HIDE DEF pruned
  <2>2. new \in [Producers -> ProducerEntry]
    BY <2>1, EntryTypes
  <2>3. transition_entries(new)
    BY <1>3 DEF sync_matcher_ready_state, pruned
  <2> QED  BY <2>2, <2>3, TransitionStep
<1> QED  BY <1>1, <1>2, <1>3

-----------------------------------------------------------------------------
(* Tasks.                                                                  *)

LEMMA TaskNames ==
    /\ \A p \in Producers : /\ ProducerHandler(p) \in Tasks
                            /\ ProducerCleanup(p) \in Tasks
    /\ \A c \in Consumers : /\ ConsumerHandler(c) \in Tasks
                            /\ ConsumerCleanup(c) \in Tasks
    /\ MatchLoop \in Tasks
  BY DEF Tasks

\* Where a task may rest: try_match's entry, or a place that needs no id.
RestPc == {"peek"} \cup (HandlerPc \ (NeedsPair \cup NeedsConsumer))

LEMMA RestTypes ==
    /\ \A t \in Tasks : Caller(t) \in RestPc
    /\ \A l \in RestPc : AtRest(l) \in Task /\ WellFormed(AtRest(l))
    /\ {"rank", "take", "send", "sync_registry", "sync_apply"}
            \subseteq MatchPc \cup HandlerPc
<1>1. {"peek", "end", "unregister", "tick", "read"} \subseteq RestPc
  BY DEF RestPc, HandlerPc, NeedsPair, NeedsConsumer
<1>2. \A t \in Tasks : Caller(t) \in {"end", "unregister", "tick", "read"}
  BY DEF Caller
<1>3. ASSUME NEW l \in RestPc PROVE AtRest(l) \in Task /\ WellFormed(AtRest(l))
  <2>1. l \in MatchPc \cup HandlerPc /\ l \notin NeedsPair
            /\ l \notin NeedsConsumer /\ "off" \in HandlerPc
    BY DEF RestPc, HandlerPc, MatchPc, NeedsPair, NeedsConsumer
  <2>2. AtRest(l) \in Task
    BY <2>1 DEF AtRest, Task, None
  <2> QED  BY <2>1, <2>2 DEF AtRest, WellFormed, NeedsPair
<1> QED  BY <1>1, <1>2, <1>3 DEF MatchPc, HandlerPc

LEMMA BecomeStep ==
    ASSUME TasksOK, NEW t \in Tasks, NEW r \in Task, WellFormed(r), Become(t, r)
    PROVE  /\ TasksOK'
           /\ task'[t] = r
           /\ \A u \in Tasks : u # t => task'[u] = task[u]
  BY DEF TasksOK, Become

LEMMA RestStep ==
    ASSUME TasksOK, NEW t \in Tasks, NEW l \in RestPc, Rest(t, l)
    PROVE  TasksOK'
  BY RestTypes, BecomeStep DEF Rest

LEMMA GoStep ==
    ASSUME TasksOK, NEW t \in Tasks,
           NEW l \in (MatchPc \cup HandlerPc) \ {"untrack"}, Go(t, l),
           l \in NeedsPair => task[t].p \in Producers /\ task[t].c \in Consumers,
           l \in NeedsConsumer => task[t].c \in Consumers
    PROVE  TasksOK'
<1> DEFINE r == [task[t] EXCEPT !.pc = l]
<1>1. task[t] \in Task
  BY DEF TasksOK
<1>2. r \in Task
  BY <1>1 DEF Task
<1>3. WellFormed(r)
  BY <1>1 DEF Task, WellFormed
<1> QED  BY <1>2, <1>3, BecomeStep DEF Go

LEMMA GoUntrackStep ==
    ASSUME TasksOK, NEW t \in Tasks, NEW c \in Consumers,
           NEW pid \in Producers \cup {None},
           NEW next \in {"cycle_set", "phase_set", "record", "end"},
           GoUntrack(t, pid, c, next)
    PROVE  TasksOK'
<1> DEFINE r == [task[t] EXCEPT !.c = c, !.p = pid,
                                !.next = IF pid = None THEN "off" ELSE next,
                                !.pc = IF pid = None THEN next ELSE "untrack"]
<1>1. task[t] \in Task
  BY DEF TasksOK
<1>2. {"cycle_set", "phase_set", "record", "end", "off", "untrack"}
            \subseteq HandlerPc
  BY DEF HandlerPc
<1>3. r \in Task
  BY <1>1, <1>2 DEF Task
<1>4. WellFormed(r)
  BY <1>1, <1>3 DEF Task, WellFormed, NeedsPair, NeedsConsumer
<1> QED  BY <1>3, <1>4, BecomeStep DEF GoUntrack

-----------------------------------------------------------------------------
(* Every step keeps the types and the counters.                            *)

GoodStep ==
    RegistryStep /\ ConsumersOK' /\ InnerOK' /\ TasksOK' /\ WireOK' /\ ClientsOK'

LEMMA UnchangedParts ==
    ASSUME TypeOK
    PROVE  /\ UNCHANGED regVars => RegistryStep
           /\ UNCHANGED consVars => ConsumersOK'
           /\ UNCHANGED innerVars => InnerOK'
           /\ UNCHANGED <<asgn, dropped, granted>> => WireOK'
           /\ UNCHANGED clientVars => ClientsOK'
           /\ UNCHANGED envVars => WireOK' /\ ClientsOK'
<1>1. UNCHANGED regVars => RegistryStep
  BY DEF TypeOK, regVars, RegistryStep, RegistryOK, CountersMatch
<1> QED
  BY <1>1 DEF TypeOK, consVars, innerVars, clientVars, envVars,
              ConsumersOK, InnerOK, WireOK, ClientsOK

\* The methods of the consumer registry keep its types.
LEMMA ConsumerMethods ==
    ASSUME ConsumersOK, NEW c \in Consumers, NEW p \in Producers
    PROVE  /\ UNCHANGED awaiting =>
                /\ register_consumer(c) => ConsumersOK'
                /\ remove_consumer(c) => ConsumersOK'
                /\ take_assigned(c) => ConsumersOK'
                /\ \A s \in ConsumerPhase :
                        set_consumer_state(c, s) => ConsumersOK'
                /\ mark_awaiting_batch(c, p) => ConsumersOK'
                /\ \A n \in Nat : finish_batch(c, n) => ConsumersOK'
                /\ \A old : release_stale_entries(old) => ConsumersOK'
           /\ UNCHANGED consumers =>
                /\ \A cs : untrack_awaiting(p, cs) => ConsumersOK'
                /\ track_awaiting(p, c) => ConsumersOK'
           /\ consumers[c].assigned \in Producers \cup {None}
<1> USE DEF ConsumersOK
<1>1. consumers[c] \in ConsumerEntry
  OBVIOUS
<1>2. ASSUME NEW e \in ConsumerEntry, put_consumer(c, e), UNCHANGED awaiting
      PROVE  ConsumersOK'
  BY <1>2 DEF put_consumer
<1>3. /\ [NoConsumer EXCEPT !.state = "idle"] \in ConsumerEntry
      /\ NoConsumer \in ConsumerEntry
      /\ [consumers[c] EXCEPT !.assigned = None] \in ConsumerEntry
      /\ \A s \in ConsumerPhase :
            [consumers[c] EXCEPT !.state = s] \in ConsumerEntry
      /\ [state |-> "awaiting_batch", assigned |-> p] \in ConsumerEntry
      /\ [state |-> "idle", assigned |-> None] \in ConsumerEntry
      /\ [state |-> "processing", assigned |-> None] \in ConsumerEntry
  BY <1>1 DEF ConsumerEntry, ConsumerPhase, NoConsumer
<1>4. UNCHANGED awaiting => (register_consumer(c) => ConsumersOK')
  BY <1>3 DEF register_consumer
<1>5. UNCHANGED awaiting => (remove_consumer(c) => ConsumersOK')
  BY <1>3 DEF remove_consumer
<1>6. UNCHANGED awaiting => (take_assigned(c) => ConsumersOK')
  BY <1>2, <1>3 DEF take_assigned
<1>7. ASSUME UNCHANGED awaiting, NEW s \in ConsumerPhase,
             set_consumer_state(c, s)
      PROVE  ConsumersOK'
  BY <1>2, <1>3, <1>7 DEF set_consumer_state
<1>8. UNCHANGED awaiting => (mark_awaiting_batch(c, p) => ConsumersOK')
  BY <1>2, <1>3 DEF mark_awaiting_batch
<1>9. ASSUME UNCHANGED awaiting, NEW n \in Nat, finish_batch(c, n)
      PROVE  ConsumersOK'
  BY <1>2, <1>3, <1>9 DEF finish_batch
<1>10. ASSUME UNCHANGED awaiting, NEW old, release_stale_entries(old)
       PROVE  ConsumersOK'
  BY <1>3, <1>10 DEF release_stale_entries
<1>11. UNCHANGED consumers =>
          /\ \A cs : untrack_awaiting(p, cs) => ConsumersOK'
          /\ track_awaiting(p, c) => ConsumersOK'
  BY DEF untrack_awaiting, track_awaiting
<1>12. consumers[c].assigned \in Producers \cup {None}
  BY <1>1 DEF ConsumerEntry
<1> QED
  BY <1>4, <1>5, <1>6, <1>7, <1>8, <1>9, <1>10, <1>11, <1>12

\* The producer the ranking picks is a candidate, if there is one at all.
LEMMA PickType ==
    ASSUME NEW tier \in SUBSET Producers, NEW rr \in Nat
    PROVE  /\ PickFrom(tier, rr) \in tier \cup {None}
           /\ NextRR(tier, rr) \in Nat
<1>1. IsFiniteSet(tier) /\ Cardinality(tier) \in Nat
  BY IdAssumption, FS_Subset, FS_CardinalityType
<1>2. NextRR(tier, rr) \in Nat
  BY <1>1 DEF NextRR
<1>3. ASSUME tier # {}
      PROVE  \E p \in tier :
                Cardinality({q \in tier : q < p}) = rr % Cardinality(tier)
  <2>1. Cardinality(tier) # 0
    BY <1>1, <1>3, FS_EmptySet
  <2>2. rr % Cardinality(tier) \in 0..Cardinality(tier) - 1
    BY <1>1, <2>1
  <2> DEFINE upto(p)  == Cardinality({q \in tier : q <= p})
             below(p) == Cardinality({q \in tier : q < p})
             m        == (rr % Cardinality(tier)) + 1
  <2>3. tier \in SUBSET Int
    BY IdAssumption
  <2>4. \A k \in 1..Cardinality(tier) : \E p \in tier : upto(p) = k
    BY <1>1, <2>3, RankBijection
  <2>5. m \in 1..Cardinality(tier)
    BY <1>1, <2>2
  <2>6. PICK p \in tier : upto(p) = m
    BY <2>4, <2>5
  <2>7. {q \in tier : q < p} = {q \in tier : q <= p} \ {p}
    <3>1. \A q \in tier : q \in Int /\ p \in Int
      BY <2>3
    <3>2. \A q \in tier : q < p <=> q <= p /\ q # p
      BY <3>1
    <3> QED  BY <3>2
  <2>8. p \in {q \in tier : q <= p} /\ IsFiniteSet({q \in tier : q <= p})
    BY <1>1, <2>3, FS_Subset
  <2>9. below(p) = upto(p) - 1
    BY <2>7, <2>8, FS_RemoveElement
  <2>10. m - 1 = rr % Cardinality(tier)
    BY <2>2
  <2>11. below(p) = rr % Cardinality(tier)
    BY <2>6, <2>9, <2>10
  <2> QED  BY <2>11
<1> QED  BY <1>2, <1>3 DEF PickFrom

\* What a task in try_match holds.
LEMMA TaskLocals ==
    ASSUME TasksOK, NEW t \in Tasks
    PROVE  /\ task[t] \in Task
           /\ task[t].p \in Producers \cup {None}
           /\ task[t].c \in Consumers \cup {None}
           /\ task[t].n \in Nat /\ task[t].rr \in Nat
           /\ task[t].cand \subseteq Producers
           /\ task[t].stale \subseteq Producers
           /\ task[t].old \subseteq Consumers
           /\ task[t].pc \in NeedsPair => /\ task[t].p \in Producers
                                          /\ task[t].c \in Consumers
           /\ task[t].pc \in NeedsConsumer => task[t].c \in Consumers
           /\ task[t].pc = "untrack"
              => task[t].next \in {"cycle_set", "phase_set", "record", "end"}
  BY DEF TasksOK, Task, WellFormed

LEMMA MatcherTypes ==
    ASSUME TypeOK, NEW t \in Tasks, MatcherStep(t)
    PROVE  GoodStep
<1>1. /\ RegistryOK /\ ConsumersOK /\ InnerOK /\ TasksOK /\ WireOK
      /\ ClientsOK' /\ UNCHANGED dropped
  BY UnchangedParts DEF TypeOK, MatcherStep
<1>2. /\ task[t] \in Task
      /\ task[t].p \in Producers \cup {None}
      /\ task[t].rr \in Nat
      /\ task[t].cand \subseteq Producers
      /\ task[t].stale \subseteq Producers
      /\ task[t].old \subseteq Consumers
      /\ task[t].pc \in NeedsPair => /\ task[t].p \in Producers
                                     /\ task[t].c \in Consumers
  BY <1>1, TaskLocals
<1>3. ASSUME UNCHANGED <<asgn, granted>> PROVE WireOK'
  BY <1>1, <1>3, UnchangedParts
<1> USE DEF GoodStep
<1>4. CASE Peek(t)
  <2> DEFINE r == [AtRest("rank") EXCEPT !.cand = ready, !.rr = producer_rr]
  <2>1. r \in Task /\ WellFormed(r)
    BY <1>1 DEF InnerOK, AtRest, Task, MatchPc, HandlerPc, None, WellFormed,
                NeedsPair, NeedsConsumer
  <2>2. Rest(t, Caller(t)) \/ Become(t, r)
    BY <1>4 DEF Peek
  <2>3. TasksOK'
    BY <1>1, <2>1, <2>2, RestTypes, RestStep, BecomeStep
  <2> QED  BY <1>1, <1>3, <1>4, <2>3, UnchangedParts DEF Peek
<1>5. CASE Rank(t)
  <2> DEFINE tier == Tier(task[t].cand)
             r == [AtRest("take") EXCEPT
                       !.p = PickFrom(tier, task[t].rr),
                       !.rr = NextRR(tier, task[t].rr),
                       !.stale = StaleAmong(task[t].cand)]
  <2>1. tier \in SUBSET Producers /\ StaleAmong(task[t].cand) \subseteq Producers
    BY <1>2 DEF Tier, StaleAmong
  <2> HIDE DEF tier
  <2>2. PickFrom(tier, task[t].rr) \in Producers \cup {None}
    BY <1>2, <2>1, PickType
  <2>3. NextRR(tier, task[t].rr) \in Nat
    BY <1>2, <2>1, PickType
  <2>4. r \in Task /\ WellFormed(r)
    BY <2>1, <2>2, <2>3 DEF AtRest, Task, MatchPc, HandlerPc, None,
                            WellFormed, NeedsPair, NeedsConsumer
  <2>5. Become(t, r) /\ rank_ready_candidates(task[t].cand)
    BY <1>5 DEF Rank, tier
  <2>6. TasksOK'
    BY <1>1, <2>4, <2>5, BecomeStep
  <2>7. RegistryStep
    BY <1>1, <2>5, RegistrySweeps
  <2> QED  BY <1>1, <1>3, <1>5, <2>6, <2>7, UnchangedParts DEF Rank
<1>6. CASE TakePair(t)
  <2> DEFINE r == [AtRest("send") EXCEPT !.p = task[t].p, !.c = NextWaiting]
  <2>1. ready' \subseteq Producers /\ producer_rr' \in Nat
    BY <1>1, <1>2, <1>6 DEF TakePair, InnerOK
  <2>2. CASE task[t].p = None \/ waiting = <<>>
    <3>1. Rest(t, Caller(t)) /\ UNCHANGED <<waiting, consumer_rr>>
      BY <1>6, <2>2 DEF TakePair
    <3>2. TasksOK'
      BY <1>1, <3>1, RestTypes, RestStep
    <3> QED  BY <1>1, <1>3, <1>6, <2>1, <3>1, <3>2, UnchangedParts
             DEF TakePair, InnerOK
  <2>3. CASE ~(task[t].p = None \/ waiting = <<>>)
    <3>1. take_next_waiting /\ Become(t, r)
      BY <1>6, <2>3 DEF TakePair
    <3>2. Len(waiting) \in Nat \ {0} /\ Cursor + 1 \in 1..Len(waiting)
      BY <1>1, <2>3 DEF InnerOK, Cursor
    <3>3. waiting' \in Seq(Consumers) /\ consumer_rr' \in Nat
      BY <1>1, <3>1, <3>2, RemovedAtType DEF take_next_waiting, InnerOK
    <3>4. NextWaiting \in Consumers
      BY <1>1, <3>2 DEF NextWaiting, InnerOK
    <3>5. r \in Task /\ WellFormed(r)
      <4>1. task[t].p \in Producers
        BY <1>2, <2>3
      <4>2. ASSUME NEW p \in Producers, NEW c \in Consumers
            PROVE  LET s == [AtRest("send") EXCEPT !.p = p, !.c = c]
                   IN  s \in Task /\ WellFormed(s)
        BY DEF AtRest, Task, MatchPc, HandlerPc, None, WellFormed,
               NeedsPair, NeedsConsumer
      <4> QED  BY <3>4, <4>1, <4>2
    <3>6. TasksOK'
      BY <1>1, <3>1, <3>5, BecomeStep
    <3> QED  BY <1>1, <1>3, <1>6, <2>1, <3>3, <3>6, UnchangedParts
             DEF TakePair, InnerOK
  <2> QED  BY <2>2, <2>3
<1>7. CASE SendAssign(t) \/ SendAssignLost(t)
  <2>1. task[t].pc = "send" /\ "send" \in NeedsPair
    BY <1>7 DEF SendAssign, SendAssignLost, At, NeedsPair
  <2>2. Go(t, "mark_assigned") /\ UNCHANGED <<regVars, consVars, innerVars>>
    BY <1>7 DEF SendAssign, SendAssignLost
  <2>3. TasksOK'
    BY <1>1, <1>2, <2>1, <2>2, GoStep DEF MatchPc, NeedsPair, NeedsConsumer
  <2>4. Grant(task[t].c) /\ granted' \in [Consumers -> Int]
    BY <1>1, <1>2, <1>7, <2>1 DEF SendAssign, SendAssignLost, Grant, WireOK
  <2>5. asgn' \in [Producers -> Seq(Consumers)]
    <3>1. asgn \in [Producers -> Seq(Consumers)]
      BY <1>1 DEF WireOK
    <3>2. Append(asgn[task[t].p], task[t].c) \in Seq(Consumers)
      BY <1>2, <2>1, <3>1
    <3> QED  BY <1>7, <3>1, <3>2 DEF SendAssign, SendAssignLost
  <2>6. WireOK'
    BY <1>1, <2>4, <2>5 DEF WireOK
  <2> QED  BY <1>1, <2>2, <2>3, <2>6, UnchangedParts
<1>8. CASE SendAssignFails(t)
  <2>1. task[t].pc = "send" /\ "send" \in NeedsPair
    BY <1>8 DEF SendAssignFails, At, NeedsPair
  <2>2. Go(t, "send_failed")
    BY <1>8 DEF SendAssignFails
  <2>3. TasksOK'
    BY <1>1, <1>2, <2>1, <2>2, GoStep DEF MatchPc, NeedsPair, NeedsConsumer
  <2> QED  BY <1>1, <1>3, <1>8, <2>3, UnchangedParts DEF SendAssignFails
<1>9. CASE SendFailedIdle(t)
  <2>1. task[t].pc = "send_failed" /\ "send_failed" \in NeedsPair
    BY <1>9 DEF SendFailedIdle, At, NeedsPair
  <2>2. Go(t, "requeue") /\ set_state(task[t].p, "Idle")
    BY <1>9 DEF SendFailedIdle
  <2>3. TasksOK'
    BY <1>1, <1>2, <2>1, <2>2, GoStep DEF MatchPc, NeedsPair, NeedsConsumer
  <2>4. RegistryStep
    BY <1>1, <1>2, <2>1, <2>2, RegistryMethods DEF ProducerState
  <2> QED  BY <1>1, <1>3, <1>9, <2>3, <2>4, UnchangedParts DEF SendFailedIdle
<1>10. CASE Requeue(t)
  <2>1. task[t].pc = "requeue" /\ "requeue" \in NeedsPair
    BY <1>10 DEF Requeue, At, NeedsPair
  <2>2. Rest(t, "peek")
    BY <1>10 DEF Requeue
  <2>3. TasksOK'
    BY <1>1, <2>2, RestStep DEF RestPc
  <2>4. InnerOK'
    BY <1>1, <1>2, <1>10, <2>1 DEF Requeue, InnerOK
  <2> QED  BY <1>1, <1>3, <1>10, <2>3, <2>4, UnchangedParts DEF Requeue
<1>11. CASE MarkAssigned(t)
  <2>1. task[t].pc = "mark_assigned" /\ "mark_assigned" \in NeedsPair
    BY <1>11 DEF MarkAssigned, At, NeedsPair
  <2>2. Go(t, "stale_read") /\ mark_assigned(task[t].p, task[t].c)
    BY <1>11 DEF MarkAssigned
  <2>3. TasksOK'
    BY <1>1, <1>2, <2>1, <2>2, GoStep DEF MatchPc, NeedsPair, NeedsConsumer
  <2>4. RegistryStep
    BY <1>1, <1>2, <2>1, <2>2, RegistryMethods
  <2> QED  BY <1>1, <1>3, <1>11, <2>3, <2>4, UnchangedParts DEF MarkAssigned
<1>12. CASE StaleRead(t)
  <2> DEFINE old == StaleAwaiting(task[t].p, task[t].c)
             r == [task[t] EXCEPT !.old = old,
                                  !.pc = IF old = {} THEN "mark_awaiting"
                                                     ELSE "stale_release"]
  <2>1. task[t].pc = "stale_read" /\ "stale_read" \in NeedsPair /\ Become(t, r)
    BY <1>12 DEF StaleRead, At, NeedsPair
  <2>2. old \subseteq Consumers
    BY <1>1, <1>2, <2>1 DEF StaleAwaiting, ConsumersOK
  <2> HIDE DEF old
  <2>3. r \in Task /\ WellFormed(r)
    BY <1>2, <2>1, <2>2 DEF Task, MatchPc, WellFormed, NeedsPair, NeedsConsumer
  <2>4. TasksOK'
    BY <1>1, <2>1, <2>3, BecomeStep
  <2> QED  BY <1>1, <1>3, <1>12, <2>4, UnchangedParts DEF StaleRead
<1>13. CASE StaleRelease(t)
  <2>1. task[t].pc = "stale_release" /\ "stale_release" \in NeedsPair
    BY <1>13 DEF StaleRelease, At, NeedsPair
  <2>2. /\ Go(t, "stale_index") /\ UNCHANGED awaiting
        /\ release_stale_entries(task[t].old)
    BY <1>13 DEF StaleRelease
  <2>3. TasksOK'
    BY <1>1, <1>2, <2>1, <2>2, GoStep DEF MatchPc, NeedsPair, NeedsConsumer
  <2>4. ConsumersOK'
    BY <1>1, <1>2, <2>1, <2>2, ConsumerMethods
  <2> QED  BY <1>1, <1>3, <1>13, <2>3, <2>4, UnchangedParts DEF StaleRelease
<1>14. CASE StaleIndex(t)
  <2> DEFINE r == [task[t] EXCEPT !.pc = "mark_awaiting", !.old = {}]
  <2>1. task[t].pc = "stale_index" /\ "stale_index" \in NeedsPair
    BY <1>14 DEF StaleIndex, At, NeedsPair
  <2>2. /\ Become(t, r) /\ UNCHANGED consumers
        /\ untrack_awaiting(task[t].p, task[t].old)
    BY <1>14 DEF StaleIndex
  <2>3. r \in Task /\ WellFormed(r)
    BY <1>2, <2>1 DEF Task, MatchPc, WellFormed, NeedsPair, NeedsConsumer
  <2>4. TasksOK'
    BY <1>1, <2>2, <2>3, BecomeStep
  <2>5. ConsumersOK'
    BY <1>1, <1>2, <2>1, <2>2, ConsumerMethods
  <2> QED  BY <1>1, <1>3, <1>14, <2>4, <2>5, UnchangedParts DEF StaleIndex
<1>15. CASE MarkAwaiting(t)
  <2>1. task[t].pc = "mark_awaiting" /\ "mark_awaiting" \in NeedsPair
    BY <1>15 DEF MarkAwaiting, At, NeedsPair
  <2>2. /\ Go(t, "track") /\ UNCHANGED awaiting
        /\ mark_awaiting_batch(task[t].c, task[t].p)
    BY <1>15 DEF MarkAwaiting
  <2>3. TasksOK'
    BY <1>1, <1>2, <2>1, <2>2, GoStep DEF MatchPc, NeedsPair, NeedsConsumer
  <2>4. ConsumersOK'
    BY <1>1, <1>2, <2>1, <2>2, ConsumerMethods
  <2> QED  BY <1>1, <1>3, <1>15, <2>3, <2>4, UnchangedParts DEF MarkAwaiting
<1>16. CASE Track(t)
  <2>1. task[t].pc = "track" /\ "track" \in NeedsPair
    BY <1>16 DEF Track, At, NeedsPair
  <2>2. /\ Rest(t, "peek") /\ UNCHANGED consumers
        /\ track_awaiting(task[t].p, task[t].c)
    BY <1>16 DEF Track
  <2>3. TasksOK'
    BY <1>1, <2>2, RestStep DEF RestPc
  <2>4. ConsumersOK'
    BY <1>1, <1>2, <2>1, <2>2, ConsumerMethods
  <2> QED  BY <1>1, <1>3, <1>16, <2>3, <2>4, UnchangedParts DEF Track
<1> QED
  BY <1>4, <1>5, <1>6, <1>7, <1>8, <1>9, <1>10, <1>11, <1>12, <1>13, <1>14,
     <1>15, <1>16 DEF MatcherStep, TryMatch

\* A place that needs no id can be entered with any locals.
LEMMA GoFreeStep ==
    ASSUME TasksOK, NEW t \in Tasks, NEW l \in RestPc, Go(t, l)
    PROVE  TasksOK'
<1>1. /\ l \in (MatchPc \cup HandlerPc) \ {"untrack"}
      /\ l \notin NeedsPair /\ l \notin NeedsConsumer
  BY DEF RestPc, MatchPc, HandlerPc, NeedsPair, NeedsConsumer
<1> QED  BY <1>1, GoStep

LEMMA FreePlaces ==
    {"peek", "off", "read", "end", "clear_stale_busy", "mark_prdy",
     "pool_prdy", "set_ready", "remark_prdy", "pool", "hb_state", "hb_waiting",
     "find", "record", "done_state", "done_pool", "unpool", "take_pending",
     "remove", "cycle_set", "cancel", "clear", "unregister", "tick",
     "sync_read", "sync_registry", "sync_apply"} \subseteq RestPc
  BY DEF RestPc, HandlerPc, NeedsPair, NeedsConsumer

\* untrack_awaiting and the first lock of set_phase, whichever task runs them.
LEMMA SharedTypes ==
    ASSUME TypeOK, NEW t \in Tasks
    PROVE  Untrack(t) \/ PhaseTake(t) => GoodStep
<1>1. RegistryOK /\ ConsumersOK /\ InnerOK /\ TasksOK
  BY DEF TypeOK
<1>2. /\ task[t] \in Task
      /\ task[t].pc \in NeedsPair => /\ task[t].p \in Producers
                                     /\ task[t].c \in Consumers
      /\ task[t].pc \in NeedsConsumer => task[t].c \in Consumers
      /\ task[t].pc = "untrack"
         => task[t].next \in {"cycle_set", "phase_set", "record", "end"}
  BY <1>1, TaskLocals
<1> USE DEF GoodStep
<1>3. CASE Untrack(t)
  <2> DEFINE r == [task[t] EXCEPT !.pc = task[t].next, !.next = "off",
                                  !.p = None]
  <2>1. task[t].pc = "untrack" /\ "untrack" \in NeedsPair
    BY <1>3 DEF Untrack, At, NeedsPair
  <2>2. r \in Task /\ WellFormed(r)
    BY <1>2, <2>1, ZenonT(60)
    DEF Task, HandlerPc, WellFormed, NeedsPair, NeedsConsumer
  <2>3. /\ Become(t, r) /\ UNCHANGED consumers
        /\ untrack_awaiting(task[t].p, {task[t].c})
    BY <1>3 DEF Untrack
  <2>4. TasksOK'
    BY <1>1, <2>2, <2>3, BecomeStep
  <2>5. ConsumersOK'
    BY <1>1, <1>2, <2>1, <2>3, ConsumerMethods
  <2> QED  BY <1>3, <2>4, <2>5, UnchangedParts DEF Untrack
<1>4. CASE PhaseTake(t)
  <2>1. task[t].pc = "phase_take" /\ "phase_take" \in NeedsConsumer
    BY <1>4 DEF PhaseTake, At, NeedsConsumer
  <2>2. /\ take_assigned(task[t].c) /\ UNCHANGED awaiting
        /\ GoUntrack(t, consumers[task[t].c].assigned, task[t].c, "phase_set")
    BY <1>4 DEF PhaseTake
  <2>3. consumers[task[t].c].assigned \in Producers \cup {None}
    BY <1>1, <1>2, <2>1 DEF ConsumersOK, ConsumerEntry
  <2>4. TasksOK'
    BY <1>1, <1>2, <2>1, <2>2, <2>3, GoUntrackStep
  <2>5. ConsumersOK'
    <3>1. [consumers[task[t].c] EXCEPT !.assigned = None] \in ConsumerEntry
      BY <1>1, <1>2, <2>1 DEF ConsumersOK, ConsumerEntry
    <3> QED  BY <1>1, <2>2, <3>1
             DEF ConsumersOK, take_assigned, put_consumer
  <2> QED  BY <1>4, <2>4, <2>5, UnchangedParts DEF PhaseTake
<1> QED  BY <1>3, <1>4

\* push_consumer_wait.
LEMMA EnqueueTypes ==
    ASSUME TypeOK, NEW t \in Tasks, NEW next \in RestPc, Enqueue(t, next)
    PROVE  RegistryStep /\ ConsumersOK' /\ InnerOK' /\ TasksOK' /\ ClientsOK'
<1>1. InnerOK /\ TasksOK /\ task[t].c \in Consumers
  BY TaskLocals DEF TypeOK, Enqueue, At, NeedsConsumer
<1>2. Rest(t, next) /\ push_waiting(task[t].c)
  BY DEF Enqueue
<1>3. TasksOK'
  BY <1>1, <1>2, RestStep
<1>4. waiting' \in Seq(Consumers)
  BY <1>1, <1>2, RetainedType, AppendedType DEF InnerOK, push_waiting
<1> QED  BY <1>1, <1>3, <1>4, UnchangedParts DEF Enqueue, InnerOK

\* Reading a frame.
LEMMA NextFrameTypes ==
    ASSUME TypeOK, NEW p \in Producers, NEW type, NextFrame(p, type)
    PROVE  /\ Head(toMaster[p]) \in Frame
           /\ UNCHANGED <<client, conn, crdy, cycles>> => ClientsOK'
<1>1. toMaster \in [Producers -> Seq(Frame)] /\ toMaster[p] # <<>>
  BY DEF TypeOK, ClientsOK, NextFrame
<1>2. Head(toMaster[p]) \in Frame /\ Tail(toMaster[p]) \in Seq(Frame)
  BY <1>1
<1>3. toMaster' \in [Producers -> Seq(Frame)]
  BY <1>1, <1>2 DEF NextFrame
<1> QED  BY <1>2, <1>3 DEF TypeOK, ClientsOK

LEMMA ProducerHandlerTypes ==
    ASSUME TypeOK, NEW p \in Producers, ProducerHandlerStep(p)
    PROVE  GoodStep
<1> DEFINE t == ProducerHandler(p)
<1>1. /\ RegistryOK /\ ConsumersOK /\ InnerOK /\ TasksOK
      /\ t \in Tasks /\ producers[p] \in ProducerEntry
  BY TaskNames DEF TypeOK, RegistryOK
<1>2. /\ task[t] \in Task /\ task[t].n \in Nat
      /\ task[t].pc \in NeedsConsumer => task[t].c \in Consumers
  BY <1>1, TaskLocals
<1> USE DEF GoodStep
<1>3. CASE MatcherStep(t) \/ Untrack(t) \/ PhaseTake(t)
  BY <1>1, <1>3, MatcherTypes, SharedTypes
<1>4. CASE RegisterProducer(p)
  <2>1. Go(t, "read") /\ register_producer(p)
    BY <1>4 DEF RegisterProducer
  <2> QED
    BY <1>1, <1>4, <2>1, RegistryMethods, FreePlaces, GoFreeStep,
       UnchangedParts DEF RegisterProducer
<1>5. CASE ReadPrdy(p)
  <2>1. \E l \in {"clear_stale_busy", "remark_prdy", "mark_prdy"} : Go(t, l)
    BY <1>5 DEF ReadPrdy
  <2>2. TasksOK'
    BY <1>1, <2>1, FreePlaces, GoFreeStep
  <2>3. ClientsOK'
    BY <1>5, NextFrameTypes DEF ReadPrdy
  <2> QED  BY <1>5, <2>2, <2>3, UnchangedParts DEF ReadPrdy
<1>6. CASE ClearStaleBusy(p)
  <2>1. Go(t, "mark_prdy") /\ clear_stale_busy(p)
    BY <1>6 DEF ClearStaleBusy
  <2> QED
    BY <1>1, <1>6, <2>1, RegistryMethods, FreePlaces, GoFreeStep,
       UnchangedParts DEF ClearStaleBusy
<1>7. CASE MarkPrdy(p)
  <2>1. (\E l \in {"pool_prdy", "pool"} : Go(t, l)) /\ mark_prdy(p)
    BY <1>7 DEF MarkPrdy
  <2> QED
    BY <1>1, <1>7, <2>1, RegistryMethods, FreePlaces, GoFreeStep,
       UnchangedParts DEF MarkPrdy
<1>8. CASE EnsureInPool(p)
  <2>1. \E l \in {"set_ready", "peek"} : Go(t, l)
    BY <1>8 DEF EnsureInPool
  <2>2. InnerOK'
    BY <1>1, <1>8 DEF EnsureInPool, ensure_in_ready_pool, InnerOK
  <2> QED
    BY <1>1, <1>8, <2>1, <2>2, FreePlaces, GoFreeStep, UnchangedParts
    DEF EnsureInPool
<1>9. CASE SetReady(p)
  <2>1. Go(t, "peek") /\ set_state(p, "Ready") /\ "Ready" \in ProducerState
    BY <1>9 DEF SetReady, ProducerState
  <2> QED
    BY <1>1, <1>9, <2>1, RegistryMethods, FreePlaces, GoFreeStep,
       UnchangedParts DEF SetReady
<1>10. CASE ReadHeartbeat(p)
  <2>1. \E l \in {"pool", "hb_state"} : Go(t, l)
    BY <1>10 DEF ReadHeartbeat
  <2>2. Head(toMaster[p]) \in Frame /\ ClientsOK'
    BY <1>10, NextFrameTypes DEF ReadHeartbeat
  <2>3. RegistryStep
    BY <1>1, <1>10, <2>2, RegistryMethods DEF ReadHeartbeat
  <2> QED
    BY <1>1, <1>10, <2>1, <2>2, <2>3, FreePlaces, GoFreeStep, UnchangedParts
    DEF ReadHeartbeat
<1>11. CASE HeartbeatState(p) \/ HeartbeatWaiting(p)
  <2>1. \E l \in {"hb_waiting", "peek", "read"} : Go(t, l)
    BY <1>11 DEF HeartbeatState, HeartbeatWaiting
  <2> QED
    BY <1>1, <1>11, <2>1, FreePlaces, GoFreeStep, UnchangedParts
    DEF HeartbeatState, HeartbeatWaiting
<1>12. CASE ReadReport(p)
  <2> DEFINE r(l, c, ok, n) == [AtRest(l) EXCEPT !.c = c, !.ok = ok, !.n = n]
  <2>1. Head(toMaster[p]) \in Frame /\ ClientsOK'
    BY <1>12, NextFrameTypes DEF ReadReport
  <2>2. PICK l \in {"find", "finish", "phase_take"}, ok \in BOOLEAN :
            /\ l # "find" => producers[p].pending \in Consumers
            /\ Become(t, r(l, producers[p].pending, ok, Head(toMaster[p]).n))
    <3>1. producers[p].pending \in Consumers \cup {None}
      BY <1>1 DEF ProducerEntry
    <3> QED  BY <1>12, <3>1 DEF ReadReport
  <2>3. \A c \in Consumers \cup {None}, n \in Nat :
            (l # "find" => c \in Consumers)
            => r(l, c, ok, n) \in Task /\ WellFormed(r(l, c, ok, n))
    <3> SUFFICES ASSUME NEW c \in Consumers \cup {None}, NEW n \in Nat,
                        l # "find" => c \in Consumers
                 PROVE  r(l, c, ok, n) \in Task /\ WellFormed(r(l, c, ok, n))
      OBVIOUS
    <3>1. l \in HandlerPc /\ "off" \in HandlerPc
      BY DEF HandlerPc
    <3>2. r(l, c, ok, n) \in Task
      BY <3>1 DEF AtRest, Task, None
    <3>3. r(l, c, ok, n).pc = l /\ r(l, c, ok, n).c = c
      BY DEF AtRest
    <3>4. l \notin NeedsPair /\ l # "untrack"
          /\ (l \in NeedsConsumer => l # "find")
      BY DEF NeedsPair, NeedsConsumer
    <3> HIDE DEF r
    <3> QED  BY <3>2, <3>3, <3>4 DEF WellFormed
  <2>4. /\ producers[p].pending \in Consumers \cup {None}
        /\ Head(toMaster[p]).n \in Nat
    BY <1>1, <2>1 DEF ProducerEntry, Frame
  <2> HIDE DEF r
  <2>5. TasksOK'
    BY <1>1, <2>2, <2>3, <2>4, BecomeStep
  <2>6. RegistryStep
    BY <1>1, <1>12, RegistryMethods DEF ReadReport
  <2> QED  BY <1>12, <2>1, <2>5, <2>6, UnchangedParts DEF ReadReport
<1>13. CASE FindAssigned(p)
  <2>1. CASE Go(t, "record")
    BY <1>1, <1>13, <2>1, FreePlaces, GoFreeStep, UnchangedParts
    DEF FindAssigned
  <2>2. ASSUME NEW c \in Consumers, NEW l \in {"finish", "phase_take"},
               Become(t, [task[t] EXCEPT !.c = c, !.pc = l])
        PROVE  TasksOK'
    <3> DEFINE r == [task[t] EXCEPT !.c = c, !.pc = l]
    <3>1. r \in Task /\ WellFormed(r)
      BY <1>2 DEF Task, HandlerPc, WellFormed, NeedsPair, NeedsConsumer
    <3> QED  BY <1>1, <2>2, <3>1, BecomeStep
  <2>3. \/ Go(t, "record")
        \/ \E c \in Consumers, l \in {"finish", "phase_take"} :
              Become(t, [task[t] EXCEPT !.c = c, !.pc = l])
    BY <1>13 DEF FindAssigned, AssignedConsumers
  <2> QED  BY <1>13, <2>1, <2>2, <2>3, UnchangedParts DEF FindAssigned
<1>14. CASE FinishBatch(p)
  <2>1. task[t].c \in Consumers
    BY <1>2, <1>14 DEF FinishBatch, At, NeedsConsumer
  <2>2. /\ GoUntrack(t, consumers[task[t].c].assigned, task[t].c, "record")
        /\ finish_batch(task[t].c, task[t].n) /\ UNCHANGED awaiting
    BY <1>14 DEF FinishBatch
  <2>3. ConsumersOK' /\ consumers[task[t].c].assigned \in Producers \cup {None}
    BY <1>1, <1>2, <2>1, <2>2, ConsumerMethods
  <2>4. TasksOK'
    BY <1>1, <2>1, <2>2, <2>3, GoUntrackStep
  <2> QED  BY <1>14, <2>3, <2>4, UnchangedParts DEF FinishBatch
<1>15. CASE DeliveryFailed(p)
  <2>1. task[t].c \in Consumers
    BY <1>2, <1>15 DEF DeliveryFailed, At, NeedsConsumer
  <2>2. /\ Go(t, "record") /\ UNCHANGED awaiting
        /\ set_consumer_state(task[t].c, "delivery_failed")
    BY <1>15 DEF DeliveryFailed
  <2>3. ConsumersOK'
    BY <1>1, <2>1, <2>2, ConsumerMethods DEF ConsumerPhase
  <2> QED
    BY <1>1, <1>15, <2>2, <2>3, FreePlaces, GoFreeStep, UnchangedParts
    DEF DeliveryFailed
<1>16. CASE RecordReport(p)
  <2>1. Rest(t, "done_state") /\ record_report(p)
    BY <1>16 DEF RecordReport
  <2> QED
    BY <1>1, <1>16, <2>1, RegistryMethods, FreePlaces, RestStep,
       UnchangedParts DEF RecordReport
<1>17. CASE DoneState(p)
  <2>1. Go(t, "done_pool") /\ set_state(p, "Idle") /\ "Idle" \in ProducerState
    BY <1>17 DEF DoneState, ProducerState
  <2> QED
    BY <1>1, <1>17, <2>1, RegistryMethods, FreePlaces, GoFreeStep,
       UnchangedParts DEF DoneState
<1>18. CASE DonePool(p)
  <2>1. Go(t, "peek")
    BY <1>18 DEF DonePool
  <2>2. InnerOK'
    BY <1>1, <1>18 DEF DonePool, InnerOK
  <2> QED
    BY <1>1, <1>18, <2>1, <2>2, FreePlaces, GoFreeStep, UnchangedParts
    DEF DonePool
<1>19. CASE ProducerEof(p)
  <2>1. TasksOK'
    BY <1>1, <1>19, RestTypes, FreePlaces DEF ProducerEof, TasksOK
  <2> QED  BY <1>19, <2>1, UnchangedParts DEF ProducerEof
<1> QED
  BY <1>3, <1>4, <1>5, <1>6, <1>7, <1>8, <1>9, <1>10, <1>11, <1>12, <1>13,
     <1>14, <1>15, <1>16, <1>17, <1>18, <1>19 DEF ProducerHandlerStep

LEMMA ProducerCleanupTypes ==
    ASSUME TypeOK, NEW p \in Producers, ProducerCleanupStep(p)
    PROVE  GoodStep
<1> DEFINE t == ProducerCleanup(p)
<1>1. /\ RegistryOK /\ ConsumersOK /\ InnerOK /\ TasksOK /\ WireOK
      /\ t \in Tasks /\ producers[p] \in ProducerEntry
  BY TaskNames DEF TypeOK, RegistryOK
<1>2. /\ task[t] \in Task
      /\ task[t].pc \in NeedsConsumer => task[t].c \in Consumers
  BY <1>1, TaskLocals
<1> USE DEF GoodStep
<1>3. CASE MatcherStep(t) \/ Untrack(t) \/ PhaseTake(t)
  BY <1>1, <1>3, MatcherTypes, SharedTypes
<1>4. CASE Unpool(p)
  <2>1. Go(t, "take_pending")
    BY <1>4 DEF Unpool
  <2>2. InnerOK'
    BY <1>1, <1>4 DEF Unpool, InnerOK
  <2> QED
    BY <1>1, <1>4, <2>1, <2>2, FreePlaces, GoFreeStep, UnchangedParts DEF Unpool
<1>5. CASE TakePending(p)
  <2> DEFINE l == IF producers[p].pending = None THEN "remove"
                                                 ELSE "requeue_check"
             r == [AtRest(l) EXCEPT !.c = producers[p].pending]
  <2>1. producers[p].pending \in Consumers \cup {None}
    BY <1>1 DEF ProducerEntry
  <2>2. r \in Task
    BY <2>1 DEF AtRest, Task, HandlerPc, None
  <2>3. r.pc = l /\ r.c = producers[p].pending
    BY DEF AtRest
  <2>4. WellFormed(r)
    BY <2>1, <2>2, <2>3 DEF WellFormed, NeedsPair, NeedsConsumer
  <2>5. Become(t, r) /\ take_pending_consumer(p)
    BY <1>5 DEF TakePending
  <2>6. TasksOK'
    BY <1>1, <2>2, <2>4, <2>5, BecomeStep
  <2>7. RegistryStep
    BY <1>1, <2>5, RegistryMethods
  <2> QED  BY <1>5, <2>6, <2>7, UnchangedParts DEF TakePending
<1>6. CASE RequeueCheck(p)
  <2>1. task[t].c \in Consumers
    BY <1>2, <1>6 DEF RequeueCheck, At, NeedsConsumer
  <2>2. \E l \in {"phase_take", "remove"} : Go(t, l)
    BY <1>6 DEF RequeueCheck
  <2>3. TasksOK'
    BY <1>1, <2>1, <2>2, GoStep DEF HandlerPc, NeedsPair
  <2> QED  BY <1>6, <2>3, UnchangedParts DEF RequeueCheck
<1>7. CASE RequeuePhase(p)
  <2>1. task[t].c \in Consumers
    BY <1>2, <1>7 DEF RequeuePhase, At, NeedsConsumer
  <2>2. /\ Go(t, "enqueue") /\ UNCHANGED awaiting
        /\ set_consumer_state(task[t].c, "matcher_queue")
    BY <1>7 DEF RequeuePhase
  <2>3. TasksOK'
    BY <1>1, <2>1, <2>2, GoStep DEF HandlerPc, NeedsPair
  <2>4. ConsumersOK'
    BY <1>1, <2>1, <2>2, ConsumerMethods DEF ConsumerPhase
  <2> QED  BY <1>7, <2>3, <2>4, UnchangedParts DEF RequeuePhase
<1>8. CASE RequeueConsumer(p)
  <2>1. Enqueue(t, "remove") /\ Revoke(task[t].c)
    BY <1>8 DEF RequeueConsumer
  <2>2. RegistryStep /\ ConsumersOK' /\ InnerOK' /\ TasksOK' /\ ClientsOK'
    BY <1>1, <2>1, FreePlaces, EnqueueTypes
  <2>3. task[t].c \in Consumers
    BY <1>2, <2>1 DEF Enqueue, At, NeedsConsumer
  <2>4. WireOK'
    BY <1>1, <2>1, <2>3 DEF Enqueue, Revoke, WireOK
  <2> QED  BY <2>2, <2>4
<1>9. CASE RemoveProducer(p)
  <2>1. Rest(t, "peek") /\ remove_producer(p)
    BY <1>9 DEF RemoveProducer
  <2> QED
    BY <1>1, <1>9, <2>1, RegistryMethods, FreePlaces, RestStep,
       UnchangedParts DEF RemoveProducer
<1> QED
  BY <1>3, <1>4, <1>5, <1>6, <1>7, <1>8, <1>9 DEF ProducerCleanupStep

LEMMA ConsumerHandlerTypes ==
    ASSUME TypeOK, NEW c \in Consumers, ConsumerHandlerStep(c)
    PROVE  GoodStep
<1> DEFINE t == ConsumerHandler(c)
<1>1. /\ RegistryOK /\ ConsumersOK /\ InnerOK /\ TasksOK /\ WireOK /\ ClientsOK
      /\ t \in Tasks /\ consumers[c].assigned \in Producers \cup {None}
  BY TaskNames DEF TypeOK, ConsumersOK, ConsumerEntry
<1> USE DEF GoodStep
<1>3. CASE MatcherStep(t) \/ Untrack(t)
  BY <1>1, <1>3, MatcherTypes, SharedTypes
<1>4. CASE ReadCrdy(c)
  <2>1. /\ GoUntrack(t, consumers[c].assigned, c, "cycle_set")
        /\ take_assigned(c) /\ UNCHANGED awaiting
    BY <1>4 DEF ReadCrdy
  <2>2. TasksOK'
    BY <1>1, <2>1, GoUntrackStep
  <2>3. ConsumersOK'
    <3>1. [consumers[c] EXCEPT !.assigned = None] \in ConsumerEntry
      BY <1>1 DEF ConsumersOK, ConsumerEntry
    <3> QED  BY <1>1, <2>1, <3>1
             DEF ConsumersOK, take_assigned, put_consumer
  <2>4. ClientsOK'
    BY <1>1, <1>4 DEF ReadCrdy, ClientsOK
  <2> QED  BY <1>4, <2>2, <2>3, <2>4, UnchangedParts DEF ReadCrdy
<1>5. CASE CycleSet(c)
  <2> DEFINE r == [AtRest("enqueue") EXCEPT !.c = c]
  <2>1. /\ Become(t, r) /\ UNCHANGED awaiting
        /\ set_consumer_state(c, "matcher_queue")
    BY <1>5 DEF CycleSet
  <2>2. TasksOK'
    <3>1. r \in Task /\ WellFormed(r)
      BY DEF AtRest, Task, HandlerPc, None, WellFormed, NeedsPair
    <3> QED  BY <1>1, <2>1, <3>1, BecomeStep
  <2>3. ConsumersOK'
    <3>1. [consumers[c] EXCEPT !.state = "matcher_queue"] \in ConsumerEntry
      BY <1>1 DEF ConsumersOK, ConsumerEntry, ConsumerPhase
    <3> QED  BY <1>1, <2>1, <3>1
             DEF ConsumersOK, set_consumer_state, put_consumer
  <2> QED  BY <1>5, <2>2, <2>3, UnchangedParts DEF CycleSet
<1>6. CASE EnqueueConsumer(c)
  <2>1. Enqueue(t, "peek") /\ UNCHANGED granted
    BY <1>6 DEF EnqueueConsumer
  <2>2. RegistryStep /\ ConsumersOK' /\ InnerOK' /\ TasksOK' /\ ClientsOK'
    BY <1>1, <2>1, FreePlaces, EnqueueTypes
  <2> QED  BY <1>1, <2>1, <2>2 DEF Enqueue, WireOK
<1>7. CASE ConsumerEof(c)
  <2>1. TasksOK'
    BY <1>1, <1>7, RestTypes, FreePlaces DEF ConsumerEof, TasksOK
  <2> QED  BY <1>7, <2>1, UnchangedParts DEF ConsumerEof
<1> QED  BY <1>3, <1>4, <1>5, <1>6, <1>7 DEF ConsumerHandlerStep

LEMMA ConsumerCleanupTypes ==
    ASSUME TypeOK, NEW c \in Consumers, ConsumerCleanupStep(c)
    PROVE  GoodStep
<1> DEFINE t == ConsumerCleanup(c)
<1>1. /\ RegistryOK /\ ConsumersOK /\ InnerOK /\ TasksOK
      /\ t \in Tasks /\ consumers[c].assigned \in Producers \cup {None}
  BY TaskNames DEF TypeOK, ConsumersOK, ConsumerEntry
<1> USE DEF GoodStep
<1>2. CASE MatcherStep(t) \/ Untrack(t)
  BY <1>1, <1>2, MatcherTypes, SharedTypes
<1>3. CASE CancelConsumer(c)
  <2>1. waiting \in Seq(Consumers)
    BY <1>1 DEF InnerOK
  <2>2. \A i \in DOMAIN waiting : SwapRemoved(waiting, i) \in Seq(Consumers)
    BY <2>1, SwapRemovedType
  <2>3. InnerOK'
    BY <1>1, <1>3, <2>2 DEF CancelConsumer, InnerOK
  <2>4. Go(t, "clear")
    BY <1>3 DEF CancelConsumer
  <2> QED
    BY <1>1, <1>3, <2>3, <2>4, FreePlaces, GoFreeStep, UnchangedParts
    DEF CancelConsumer
<1>4. CASE ClearAssignments(c)
  <2>1. /\ \E l \in {"peek", "unregister"} : Go(t, l)
        /\ clear_assignments_to_consumer(c)
    BY <1>4 DEF ClearAssignments
  <2> QED
    BY <1>1, <1>4, <2>1, RegistrySweeps, FreePlaces, GoFreeStep,
       UnchangedParts DEF ClearAssignments
<1>5. CASE Unregister(c)
  <2>1. /\ GoUntrack(t, consumers[c].assigned, c, "end")
        /\ remove_consumer(c) /\ UNCHANGED awaiting
    BY <1>5 DEF Unregister
  <2>2. TasksOK'
    BY <1>1, <2>1, GoUntrackStep
  <2>3. ConsumersOK'
    BY <1>1, <2>1
    DEF ConsumersOK, remove_consumer, NoConsumer, ConsumerEntry, ConsumerPhase
  <2> QED  BY <1>5, <2>2, <2>3, UnchangedParts DEF Unregister
<1> QED  BY <1>2, <1>3, <1>4, <1>5 DEF ConsumerCleanupStep

LEMMA MatchLoopTypes ==
    ASSUME TypeOK, MatchLoopStep
    PROVE  GoodStep
<1> DEFINE t == MatchLoop
<1>1. RegistryOK /\ ConsumersOK /\ InnerOK /\ TasksOK /\ t \in Tasks
  BY TaskNames DEF TypeOK
<1>2. task[t].cand \subseteq Producers /\ task[t].stale \subseteq Producers
  BY <1>1, TaskLocals
<1>3. ASSUME NEW l \in {"sync_registry", "sync_apply"},
             NEW cand \in SUBSET Producers, NEW stale \in SUBSET Producers,
             Become(t, [AtRest(l) EXCEPT !.cand = cand, !.stale = stale])
      PROVE  TasksOK'
  <2> DEFINE r == [AtRest(l) EXCEPT !.cand = cand, !.stale = stale]
  <2>1. r \in Task
    BY DEF AtRest, Task, HandlerPc, None
  <2>2. WellFormed(r)
    BY DEF AtRest, WellFormed, NeedsPair, NeedsConsumer
  <2> QED  BY <1>1, <1>3, <2>1, <2>2, BecomeStep
<1> USE DEF GoodStep
<1>4. CASE Tick
  <2>1. \E l \in {"tick", "sync_read"} : Go(t, l)
    BY <1>4 DEF Tick
  <2> QED
    BY <1>1, <1>4, <2>1, FreePlaces, GoFreeStep, UnchangedParts DEF Tick
<1>5. CASE SyncRead
  <2> DEFINE r == [AtRest("sync_registry") EXCEPT !.cand = ready]
  <2>1. r \in Task /\ WellFormed(r)
    BY <1>1 DEF InnerOK, AtRest, Task, HandlerPc, None, WellFormed, NeedsPair,
                NeedsConsumer
  <2>2. TasksOK'
    BY <1>1, <1>5, <2>1, BecomeStep DEF SyncRead
  <2> QED  BY <1>5, <2>2, UnchangedParts DEF SyncRead
<1>6. CASE SyncRegistry
  <2>1. /\ SyncAdd(task[t].cand) \in SUBSET Producers
        /\ StaleAmong(task[t].cand) \in SUBSET Producers
    BY <1>2 DEF SyncAdd, StaleAmong
  <2>2. TasksOK'
    BY <1>3, <1>6, <2>1 DEF SyncRegistry
  <2>3. RegistryStep
    BY <1>1, <1>6, RegistrySweeps DEF SyncRegistry
  <2> QED  BY <1>6, <2>2, <2>3, UnchangedParts DEF SyncRegistry
<1>7. CASE SyncApply
  <2>1. Rest(t, "peek")
    BY <1>7 DEF SyncApply
  <2>2. InnerOK'
    BY <1>1, <1>2, <1>7 DEF SyncApply, InnerOK
  <2> QED
    BY <1>1, <1>7, <2>1, <2>2, FreePlaces, RestStep, UnchangedParts
    DEF SyncApply
<1>8. CASE MatcherStep(t)
  BY <1>1, <1>8, MatcherTypes
<1> QED  BY <1>4, <1>5, <1>6, <1>7, <1>8 DEF MatchLoopStep

LEMMA FrameTypes ==
    /\ Prdy \in Frame
    /\ \A n, q \in Nat : /\ Hbrp(n, q) \in Frame
                         /\ Announce(n, q) \in Seq(Frame)
    /\ \A n \in Nat : /\ Delv(n) \in Frame /\ Fail(n) \in Frame
                      /\ LinkAfter(n) \in {"Idle", "Ready"}
<1>1. /\ Prdy \in Frame
      /\ \A n, q \in Nat : Hbrp(n, q) \in Frame
      /\ \A n \in Nat : Delv(n) \in Frame /\ Fail(n) \in Frame
  BY DEF Frame, Prdy, Hbrp, Delv, Fail
<1>2. \A n, q \in Nat : Announce(n, q) \in Seq(Frame)
  BY <1>1 DEF Announce
<1> QED  BY <1>1, <1>2 DEF LinkAfter

LEMMA ProducerClientTypes ==
    ASSUME TypeOK, NEW p \in Producers, ProducerClientStep(p)
    PROVE  GoodStep
<1>1. RegistryOK /\ TasksOK /\ WireOK /\ ClientsOK
  BY DEF TypeOK
<1>2. /\ client[p] \in Client /\ client[p].ring \in Nat /\ client[p].pend \in Nat
      /\ toMaster[p] \in Seq(Frame)
  BY <1>1 DEF ClientsOK, Client
<1>3. ASSUME UNCHANGED MasterState
      PROVE  /\ RegistryStep /\ ConsumersOK' /\ InnerOK' /\ TasksOK'
             /\ UNCHANGED granted
  BY <1>1, <1>3, UnchangedParts DEF MasterState, TasksOK
<1>4. ASSUME NEW cl \in Client, NEW fs \in Seq(Frame),
             client' = [client EXCEPT ![p] = cl],
             toMaster' = [toMaster EXCEPT ![p] = fs],
             UNCHANGED <<conn, crdy, cycles>>
      PROVE  ClientsOK'
  BY <1>1, <1>4 DEF ClientsOK
<1> USE DEF GoodStep
<1>5. CASE Publish(p) \/ Accumulate(p)
  <2>1. /\ UNCHANGED <<MasterState, asgn, dropped, toMaster, conn, crdy, cycles>>
        /\ \/ client' = [client EXCEPT ![p].pend = @ + 1]
           \/ client' = [client EXCEPT ![p].ring = @ + client[p].pend,
                                       ![p].pend = 0]
    BY <1>5 DEF Publish, Accumulate
  <2>2. client' \in [Producers -> Client]
    <3>1. /\ [client[p] EXCEPT !.pend = @ + 1] \in Client
          /\ [client[p] EXCEPT !.ring = @ + client[p].pend, !.pend = 0]
                \in Client
      <4>1. \A a, b \in Nat : a + 1 \in Nat /\ a + b \in Nat
        OBVIOUS
      <4>2. \A a, b \in Nat : /\ [client[p] EXCEPT !.pend = a] \in Client
                              /\ [client[p] EXCEPT !.ring = a, !.pend = b]
                                    \in Client
        BY <1>2 DEF Client
      <4> QED  BY <1>2, <4>1, <4>2
    <3> QED  BY <1>1, <2>1, <3>1 DEF ClientsOK
  <2>3. ClientsOK'
    BY <1>1, <2>1, <2>2 DEF ClientsOK
  <2> QED  BY <1>1, <1>3, <2>1, <2>3 DEF WireOK
<1>6. CASE ProducerConnect(p)
  <2> DEFINE cl == [client[p] EXCEPT !.link = LinkAfter(client[p].ring)]
             fs == Announce(client[p].ring, client[p].pend)
  <2>1. cl \in Client /\ fs \in Seq(Frame)
    BY <1>2, FrameTypes DEF Client
  <2>2. ClientsOK'
    BY <1>4, <1>6, <2>1 DEF ProducerConnect
  <2> QED  BY <1>1, <1>3, <1>6, <2>2 DEF ProducerConnect, WireOK
<1>7. CASE SendReady(p)
  <2>1. [client[p] EXCEPT !.link = "Ready"] \in Client
    BY <1>2 DEF Client
  <2>2. Append(toMaster[p], Prdy) \in Seq(Frame)
    BY <1>2, FrameTypes
  <2>3. ClientsOK'
    BY <1>4, <1>7, <2>1, <2>2 DEF SendReady
  <2> QED  BY <1>1, <1>3, <1>7, <2>3 DEF SendReady, WireOK
<1>8. CASE SendHeartbeat(p)
  <2>1. Append(toMaster[p], Hbrp(client[p].ring, client[p].pend)) \in Seq(Frame)
    <3>1. Hbrp(client[p].ring, client[p].pend) \in Frame
      BY <1>2, FrameTypes
    <3> QED  BY <1>2, <3>1
  <2>2. ClientsOK'
    BY <1>1, <1>8, <2>1 DEF SendHeartbeat, ClientsOK
  <2> QED  BY <1>1, <1>3, <1>8, <2>2 DEF SendHeartbeat, WireOK
<1>9. CASE Deliver(p)
  <2> DEFINE total == client[p].pend + client[p].ring
             n     == IF total < MaxBatch THEN total ELSE MaxBatch
  <2>1. total \in Nat /\ n \in Nat /\ total - n \in Nat
    BY <1>2, BoundAssumption
  <2> HIDE DEF total, n
  <2>2. PICK ok \in {TRUE, n = 0} :
          LET left == IF ok THEN total - n ELSE total
          IN  /\ client' = [client EXCEPT ![p] =
                    [link |-> LinkAfter(left), pend |-> 0, ring |-> left]]
              /\ toMaster' = [toMaster EXCEPT ![p] =
                    @ \o <<IF ok THEN Delv(n) ELSE Fail(n)>>
                      \o Announce(left, 0)]
    BY <1>9 DEF Deliver, total, n
  <2> DEFINE left == IF ok THEN total - n ELSE total
             cl   == [link |-> LinkAfter(left), pend |-> 0, ring |-> left]
             fs   == toMaster[p] \o <<IF ok THEN Delv(n) ELSE Fail(n)>>
                                 \o Announce(left, 0)
  <2>3. left \in Nat
    BY <2>1
  <2>4. cl \in Client
    BY <2>3, FrameTypes DEF Client
  <2>5. Announce(left, 0) \in Seq(Frame)
    BY <2>3, FrameTypes
  <2>6. <<IF ok THEN Delv(n) ELSE Fail(n)>> \in Seq(Frame)
    BY <2>1, FrameTypes
  <2>7. fs \in Seq(Frame)
    BY <1>2, <2>5, <2>6
  <2>8. /\ client' = [client EXCEPT ![p] = cl]
        /\ toMaster' = [toMaster EXCEPT ![p] = fs]
    BY <2>2
  <2> HIDE DEF cl, fs
  <2>9. ClientsOK'
    BY <1>4, <1>9, <2>4, <2>7, <2>8 DEF Deliver
  <2>10. asgn' \in [Producers -> Seq(Consumers)]
    <3>1. asgn[p] \in Seq(Consumers) /\ asgn[p] # <<>>
      BY <1>1, <1>9 DEF WireOK, Deliver
    <3>2. Tail(asgn[p]) \in Seq(Consumers)
      BY <3>1
    <3> QED  BY <1>1, <1>9, <3>2 DEF WireOK, Deliver
  <2> QED  BY <1>1, <1>3, <1>9, <2>9, <2>10 DEF Deliver, WireOK
<1>10. CASE ProducerDrop(p)
  <2>1. [client[p] EXCEPT !.link = "gone"] \in Client
    BY <1>2 DEF Client
  <2>2. PICK k \in 0..Len(toMaster[p]) :
            toMaster' = [toMaster EXCEPT ![p] = SubSeq(@, 1, k)]
    BY <1>10 DEF ProducerDrop
  <2>3. SubSeq(toMaster[p], 1, k) \in Seq(Frame)
    BY <1>2, <2>2
  <2>4. ClientsOK'
    BY <1>4, <1>10, <2>1, <2>2, <2>3 DEF ProducerDrop
  <2>5. WireOK'
    BY <1>1, <1>3, <1>10 DEF ProducerDrop, WireOK
  <2> QED  BY <1>3, <1>10, <2>4, <2>5 DEF ProducerDrop
<1>11. CASE BusyExpires(p)
  <2>1. /\ producers' \in [Producers -> ProducerEntry]
        /\ \A q \in Producers : producers'[q].state = producers[q].state
    BY <1>1, <1>11 DEF BusyExpires, RegistryOK, ProducerEntry
  <2>2. \A s : InState(producers', s) = InState(producers, s)
    BY <2>1 DEF InState
  <2>3. RegistryStep
    BY <1>1, <1>11, <2>1, <2>2
    DEF BusyExpires, RegistryStep, RegistryOK, CountersMatch
  <2>4. TasksOK'
    BY <1>1, <1>11 DEF BusyExpires, TasksOK
  <2> QED  BY <1>11, <2>3, <2>4, UnchangedParts DEF BusyExpires
<1> QED
  BY <1>5, <1>6, <1>7, <1>8, <1>9, <1>10, <1>11 DEF ProducerClientStep

LEMMA ConsumerClientTypes ==
    ASSUME TypeOK, NEW c \in Consumers, ConsumerClientStep(c)
    PROVE  GoodStep
<1>1. ConsumersOK /\ TasksOK /\ WireOK /\ ClientsOK
  BY DEF TypeOK
<1>2. ASSUME UNCHANGED MasterState
      PROVE  /\ RegistryStep /\ ConsumersOK' /\ InnerOK' /\ TasksOK'
             /\ UNCHANGED granted
  BY <1>1, <1>2, UnchangedParts DEF MasterState, TasksOK
<1> USE DEF GoodStep
<1>3. CASE ConsumerConnect(c)
  <2>1. Go(ConsumerHandler(c), "read")
    BY <1>3 DEF ConsumerConnect
  <2>2. TasksOK'
    BY <1>1, <2>1, TaskNames, FreePlaces, GoFreeStep
  <2>3. ConsumersOK'
    BY <1>1, <1>3 DEF ConsumerConnect, register_consumer, ConsumersOK,
                      NoConsumer, ConsumerEntry, ConsumerPhase
  <2>4. ClientsOK'
    BY <1>1, <1>3 DEF ConsumerConnect, ClientsOK
  <2> QED  BY <1>3, <2>2, <2>3, <2>4, UnchangedParts DEF ConsumerConnect
<1>4. CASE SendCrdy(c)
  BY <1>1, <1>2, <1>4 DEF SendCrdy, ClientsOK, WireOK
<1>5. CASE ConsumerDrop(c)
  BY <1>1, <1>2, <1>5 DEF ConsumerDrop, ClientsOK, WireOK
<1> QED  BY <1>3, <1>4, <1>5 DEF ConsumerClientStep

LEMMA NextTypes ==
    ASSUME TypeOK, [Next]_vars
    PROVE  TypeOK' /\ (CountersMatch => CountersMatch')
<1>1. GoodStep => TypeOK' /\ (CountersMatch => CountersMatch')
  BY DEF GoodStep, RegistryStep, TypeOK
<1>2. CASE Next
  BY <1>1, <1>2, ProducerClientTypes, ProducerHandlerTypes,
     ProducerCleanupTypes, ConsumerClientTypes, ConsumerHandlerTypes,
     ConsumerCleanupTypes, MatchLoopTypes DEF Next
<1>3. CASE UNCHANGED vars
  <2>1. TasksOK'
    BY <1>3 DEF vars, TypeOK, TasksOK
  <2> QED  BY <1>1, <1>3, <2>1, UnchangedParts DEF vars, GoodStep
<1> QED  BY <1>2, <1>3

LEMMA InitTypes == Init => TypeOK /\ CountersMatch
<1> SUFFICES ASSUME Init PROVE TypeOK /\ CountersMatch
  OBVIOUS
<1>1. RegistryOK
  BY DEF Init, RegistryInit, RegistryOK, NoEntry, ProducerEntry,
         ProducerState, None
<1>2. ConsumersOK
  BY DEF Init, ConsumersInit, ConsumersOK, NoConsumer, ConsumerEntry,
         ConsumerPhase
<1>3. InnerOK /\ WireOK
  BY DEF Init, MatchmakerInit, InnerOK, WireOK
<1>4. TasksOK
  <2>1. \A l \in {"tick", "off"} : AtRest(l) \in Task /\ WellFormed(AtRest(l))
    BY RestTypes, FreePlaces
  <2> QED  BY <2>1 DEF Init, TasksOK
<1>5. ClientsOK
  BY DEF Init, ClientsOK, Client
<1>6. CountersMatch
  <2>1. InState(producers, "Ready") = {} /\ InState(producers, "Busy") = {}
    BY DEF Init, RegistryInit, InState, NoEntry
  <2> QED  BY <2>1, FS_EmptySet DEF Init, RegistryInit, CountersMatch
<1> QED  BY <1>1, <1>2, <1>3, <1>4, <1>5, <1>6 DEF TypeOK

\* Type correctness: in particular no step of a task that works on a producer
\* and a consumer runs without both ids.
THEOREM TypeCorrect == Spec => []TypeOK
  BY InitTypes, NextTypes, PTL DEF Spec

\* ready_count and busy_count, the atomics behind producers_ready and
\* producers_busy, always equal the numbers of Ready and Busy entries.
THEOREM CountersCorrect == Spec => []CountersMatch
  BY InitTypes, NextTypes, PTL DEF Spec

-----------------------------------------------------------------------------
(* No CRDY is lost.                                                        *)

CarryPc == {"send", "send_failed", "requeue", "mark_assigned", "stale_read",
            "stale_release", "stale_index", "mark_awaiting", "enqueue"}

\* A cleanup task starts when the handler of its connection is over: the end of
\* a handler overwrites no cleanup that holds a consumer.
CleanupLast ==
    /\ \A p \in Producers : task[ProducerHandler(p)].pc # "end"
                            => task[ProducerCleanup(p)].pc = "off"
    /\ \A c \in Consumers : task[ConsumerHandler(c)].pc # "end"
                            => task[ConsumerCleanup(c)].pc = "off"

\* The invariant survives a step of task t if every consumer in state
\* "matcher_queue" ends up in the queue or with t, or was not with t before.
LEMMA CrdyKept ==
    ASSUME TypeOK, NoLostCrdy, NEW t \in Tasks, NEW r, Become(t, r),
           r.pc # "off",
           \A c \in Consumers :
                /\ consumers'[c].state = "matcher_queue"
                /\ task[ConsumerCleanup(c)].pc = "off"
                => \/ Carries(r, c)
                   \/ InQueue(c)'
                   \/ /\ consumers[c].state = "matcher_queue"
                      /\ InQueue(c) => InQueue(c)'
                      /\ ~Carries(task[t], c)
    PROVE  NoLostCrdy'
<1> SUFFICES ASSUME NEW c \in Consumers,
                    consumers'[c].state = "matcher_queue",
                    task'[ConsumerCleanup(c)].pc = "off"
             PROVE  InQueue(c)' \/ \E u \in Tasks : Carries(task'[u], c)
  BY DEF NoLostCrdy, At
<1>1. task'[t] = r /\ \A u \in Tasks : u # t => task'[u] = task[u]
  BY DEF TypeOK, TasksOK, Become
<1>2. task[ConsumerCleanup(c)].pc = "off"
  BY <1>1, TaskNames
<1>3. CASE Carries(r, c)
  BY <1>1, <1>3
<1>4. CASE /\ consumers[c].state = "matcher_queue"
           /\ InQueue(c) => InQueue(c)'
           /\ ~Carries(task[t], c)
  <2>1. InQueue(c) \/ \E u \in Tasks : Carries(task[u], c)
    BY <1>2, <1>4 DEF NoLostCrdy, At
  <2> QED  BY <1>1, <1>4, <2>1
<1> QED  BY <1>2, <1>3, <1>4

\* In particular when neither the registry nor the queue changes and the task
\* keeps what it carries.
LEMMA CrdyFramed ==
    ASSUME TypeOK, NoLostCrdy, NEW t \in Tasks, NEW r, Become(t, r),
           r.pc # "off", UNCHANGED <<consumers, waiting>>,
           task[t].pc \in CarryPc => r.pc \in CarryPc /\ r.c = task[t].c
    PROVE  NoLostCrdy'
<1>1. \A c \in Consumers : InQueue(c) => InQueue(c)'
  BY DEF InQueue
<1>2. \A c \in Consumers : Carries(task[t], c) => Carries(r, c)
  BY DEF Carries, CarryPc
<1> QED  BY <1>1, <1>2, CrdyKept

LEMMA CrdyGo ==
    ASSUME TypeOK, NoLostCrdy, NEW t \in Tasks, NEW l, Go(t, l),
           l # "off", UNCHANGED <<consumers, waiting>>,
           task[t].pc \in CarryPc => l \in CarryPc
    PROVE  NoLostCrdy'
<1>1. task[t] \in Task
  BY TaskLocals DEF TypeOK
<1>2. /\ [task[t] EXCEPT !.pc = l].pc = l
      /\ [task[t] EXCEPT !.pc = l].c = task[t].c
  BY <1>1 DEF Task
<1> QED  BY <1>2, CrdyFramed DEF Go

LEMMA CrdyRest ==
    ASSUME TypeOK, NoLostCrdy, NEW t \in Tasks, NEW l, Rest(t, l),
           l # "off", UNCHANGED <<consumers, waiting>>, task[t].pc \notin CarryPc
    PROVE  NoLostCrdy'
<1>1. AtRest(l).pc = l
  BY DEF AtRest
<1> QED  BY <1>1, CrdyFramed DEF Rest

\* A step of t that only moves one consumer of the registry: it leaves
\* "matcher_queue", or t carries it.
LEMMA CrdyMoves ==
    ASSUME TypeOK, NoLostCrdy, NEW t \in Tasks, NEW r, Become(t, r),
           r.pc # "off", UNCHANGED waiting, NEW x \in Consumers,
           \A c \in Consumers : c # x => consumers'[c] = consumers[c],
           \/ /\ task[t].pc \in CarryPc => task[t].c = x
              /\ consumers'[x].state # "matcher_queue"
           \/ /\ task[t].pc \notin CarryPc
              /\ \/ r.pc \in CarryPc /\ r.c = x
                 \/ consumers'[x].state = consumers[x].state
    PROVE  NoLostCrdy'
<1>1. \A c \in Consumers : InQueue(c) => InQueue(c)'
  BY DEF InQueue
<1>2. /\ \A c \in Consumers : Carries(task[t], c)
                              <=> task[t].c = c /\ task[t].pc \in CarryPc
      /\ \A c \in Consumers : Carries(r, c) <=> r.c = c /\ r.pc \in CarryPc
  BY DEF Carries, CarryPc
<1> QED  BY <1>1, <1>2, CrdyKept

-----------------------------------------------------------------------------
(* try_match.                                                              *)

LEMMA MatcherCrdy ==
    ASSUME TypeOK, NoLostCrdy, NEW t \in Tasks, MatcherStep(t)
    PROVE  NoLostCrdy'
<1>1. /\ task[t] \in Task
      /\ task[t].pc \in NeedsPair => /\ task[t].p \in Producers
                                     /\ task[t].c \in Consumers
      /\ waiting \in Seq(Consumers)
      /\ Caller(t) # "off"
  BY TaskLocals DEF TypeOK, InnerOK, Caller
<1>2. CASE Peek(t)
  <2> DEFINE r == [AtRest("rank") EXCEPT !.cand = ready, !.rr = producer_rr]
  <2>1. /\ Rest(t, Caller(t)) \/ Become(t, r)
        /\ UNCHANGED <<consumers, waiting>> /\ task[t].pc \notin CarryPc
    BY <1>2 DEF Peek, At, CarryPc, consVars, innerVars
  <2>2. r.pc = "rank"
    BY DEF AtRest
  <2> HIDE DEF r
  <2> QED  BY <1>1, <2>1, <2>2, CrdyRest, CrdyFramed
<1>3. CASE Rank(t)
  <2>1. /\ \E p, rr, stale :
              Become(t, [AtRest("take") EXCEPT !.p = p, !.rr = rr,
                                               !.stale = stale])
        /\ UNCHANGED <<consumers, waiting>> /\ task[t].pc \notin CarryPc
    BY <1>3 DEF Rank, At, CarryPc, consVars, innerVars
  <2>2. \A p, rr, stale :
            [AtRest("take") EXCEPT !.p = p, !.rr = rr, !.stale = stale].pc
                = "take"
    BY DEF AtRest
  <2> QED  BY <2>1, <2>2, CrdyFramed
<1>4. CASE TakePair(t)
  <2>1. task[t].pc = "take"
    BY <1>4 DEF TakePair, At
  <2>2. CASE task[t].p = None \/ waiting = <<>>
    <3>1. Rest(t, Caller(t)) /\ UNCHANGED <<consumers, waiting>>
      BY <1>4, <2>2 DEF TakePair, consVars
    <3> QED  BY <1>1, <2>1, <3>1, CrdyRest DEF CarryPc
  <2>3. CASE ~(task[t].p = None \/ waiting = <<>>)
    <3> DEFINE r == [AtRest("send") EXCEPT !.p = task[t].p, !.c = NextWaiting]
    <3>1. take_next_waiting /\ Become(t, r) /\ UNCHANGED consumers
      BY <1>4, <2>3 DEF TakePair, consVars
    <3>2. r.pc = "send" /\ r.c = NextWaiting
      BY DEF AtRest
    <3>3. Cursor + 1 \in 1..Len(waiting)
      BY <1>1, <2>3 DEF TypeOK, InnerOK, Cursor
    <3>4. ASSUME NEW c \in Consumers, InQueue(c)
          PROVE  InQueue(c)' \/ Carries(r, c)
      <4>1. PICK i \in DOMAIN waiting : waiting[i] = c
        BY <3>4 DEF InQueue
      <4>2. CASE i = Cursor + 1
        BY <3>2, <4>1, <4>2 DEF Carries, NextWaiting
      <4>3. CASE i # Cursor + 1
        <5>1. \E k \in DOMAIN waiting' : waiting'[k] = c
          BY <1>1, <3>1, <3>3, <4>1, <4>3, RemovedAtType
          DEF take_next_waiting
        <5> QED  BY <5>1 DEF InQueue
      <4> QED  BY <4>2, <4>3
    <3>5. \A c \in Consumers : ~Carries(task[t], c)
      BY <2>1 DEF Carries
    <3> HIDE DEF r
    <3> QED  BY <3>1, <3>2, <3>4, <3>5, CrdyKept
  <2> QED  BY <2>2, <2>3
<1>5. CASE SendAssign(t) \/ SendAssignLost(t) \/ SendAssignFails(t)
            \/ SendFailedIdle(t) \/ MarkAssigned(t)
  <2>1. /\ UNCHANGED <<consumers, waiting>>
        /\ \E l \in {"mark_assigned", "send_failed", "requeue", "stale_read"} :
                Go(t, l)
    BY <1>5 DEF SendAssign, SendAssignLost, SendAssignFails, SendFailedIdle,
                MarkAssigned, consVars, innerVars
  <2> QED  BY <2>1, CrdyGo DEF CarryPc
<1>6. CASE Requeue(t)
  <2>1. /\ task[t].pc = "requeue" /\ Become(t, AtRest("peek"))
        /\ waiting' = Append(waiting, task[t].c) /\ UNCHANGED consumers
    BY <1>6 DEF Requeue, At, Rest, consVars
  <2>2. task[t].c \in Consumers /\ AtRest("peek").pc = "peek"
    BY <1>1, <2>1 DEF NeedsPair, AtRest
  <2>3. ASSUME NEW c \in Consumers
        PROVE  /\ c = task[t].c => InQueue(c)'
               /\ InQueue(c) => InQueue(c)'
               /\ Carries(task[t], c) => c = task[t].c
    <3>1. /\ \E k \in DOMAIN waiting' : waiting'[k] = task[t].c
          /\ \A i \in DOMAIN waiting :
                \E k \in DOMAIN waiting' : waiting'[k] = waiting[i]
      <4>1. waiting \in Seq(Consumers) /\ task[t].c \in Consumers
        BY <1>1, <2>2
      <4>2. waiting' = Append(waiting, task[t].c)
        BY <2>1
      <4>3. \E k \in DOMAIN waiting' : waiting'[k] = task[t].c
        BY <4>1, <4>2, AppendedType
      <4>4. \A i \in DOMAIN waiting :
                \E k \in DOMAIN waiting' : waiting'[k] = waiting[i]
        BY <4>1, <4>2, AppendedType
      <4> QED  BY <4>3, <4>4
    <3> QED  BY <3>1 DEF InQueue, Carries
  <2> QED  BY <2>1, <2>2, <2>3, CrdyKept
<1>7. CASE StaleRead(t)
  <2> DEFINE r(l, old) == [task[t] EXCEPT !.old = old, !.pc = l]
  <2>1. /\ \E l \in {"mark_awaiting", "stale_release"} :
                \E old : Become(t, r(l, old))
        /\ UNCHANGED <<consumers, waiting>>
    BY <1>7 DEF StaleRead, consVars, innerVars
  <2>2. \A l, old : r(l, old).pc = l /\ r(l, old).c = task[t].c
    BY <1>1 DEF Task
  <2> HIDE DEF r
  <2> QED  BY <2>1, <2>2, CrdyFramed DEF CarryPc
<1>8. CASE StaleRelease(t)
  <2> DEFINE r == [task[t] EXCEPT !.pc = "stale_index"]
  <2>1. /\ Become(t, r) /\ UNCHANGED waiting
        /\ task[t].pc = "stale_release"
        /\ release_stale_entries(task[t].old)
    BY <1>8 DEF StaleRelease, Go, At, innerVars
  <2>2. r.pc = "stale_index" /\ r.c = task[t].c
    BY <1>1 DEF Task
  <2>3. ASSUME NEW c \in Consumers
        PROVE  /\ consumers'[c].state = "matcher_queue"
                    => consumers[c].state = "matcher_queue"
               /\ InQueue(c) => InQueue(c)'
               /\ Carries(task[t], c) => Carries(r, c)
    <3>1. /\ consumers'[c].state = "matcher_queue"
                    => consumers[c].state = "matcher_queue"
      BY <2>1 DEF release_stale_entries
    <3>2. InQueue(c) => InQueue(c)'
      BY <2>1 DEF InQueue
    <3>3. Carries(task[t], c) => Carries(r, c)
      BY <2>2 DEF Carries
    <3> QED  BY <3>1, <3>2, <3>3
  <2> HIDE DEF r
  <2> QED  BY <2>1, <2>2, <2>3, CrdyKept
<1>9. CASE StaleIndex(t)
  <2> DEFINE r == [task[t] EXCEPT !.pc = "mark_awaiting", !.old = {}]
  <2>1. Become(t, r) /\ UNCHANGED <<consumers, waiting>>
    BY <1>9 DEF StaleIndex, innerVars
  <2>2. r.pc = "mark_awaiting" /\ r.c = task[t].c
    BY <1>1 DEF Task
  <2> HIDE DEF r
  <2> QED  BY <2>1, <2>2, CrdyFramed DEF CarryPc
<1>10. CASE MarkAwaiting(t)
  <2> DEFINE r == [task[t] EXCEPT !.pc = "track"]
             x == task[t].c
  <2>1. /\ Become(t, r) /\ UNCHANGED waiting /\ x \in Consumers
        /\ mark_awaiting_batch(x, task[t].p)
    BY <1>1, <1>10 DEF MarkAwaiting, Go, At, NeedsPair, innerVars
  <2>2. r.pc = "track"
    BY <1>1 DEF Task
  <2>3. /\ \A c \in Consumers : c # x => consumers'[c] = consumers[c]
        /\ consumers'[x].state # "matcher_queue"
    BY <2>1 DEF TypeOK, ConsumersOK, mark_awaiting_batch, put_consumer, Known
  <2> HIDE DEF r
  <2> QED  BY <2>1, <2>2, <2>3, CrdyMoves
<1>11. CASE Track(t)
  <2>1. /\ Rest(t, "peek") /\ UNCHANGED <<consumers, waiting>>
        /\ task[t].pc \notin CarryPc
    BY <1>11 DEF Track, At, CarryPc, innerVars
  <2> QED  BY <2>1, CrdyRest
<1> QED
  BY <1>2, <1>3, <1>4, <1>5, <1>6, <1>7, <1>8, <1>9, <1>10, <1>11
  DEF MatcherStep, TryMatch

-----------------------------------------------------------------------------
(* The handlers and the cleanup tasks.                                     *)

LEMMA GoUntrackPlace ==
    ASSUME NEW t, task[t] \in Task, NEW pid, NEW c, NEW next,
           GoUntrack(t, pid, c, next)
    PROVE  \E r : Become(t, r) /\ r.pc \in {next, "untrack"}
<1> DEFINE r == [task[t] EXCEPT !.c = c, !.p = pid,
                                !.next = IF pid = None THEN "off" ELSE next,
                                !.pc = IF pid = None THEN next ELSE "untrack"]
<1>1. r.pc \in {next, "untrack"}
  BY DEF Task
<1>2. Become(t, r)
  BY DEF GoUntrack
<1> QED  BY <1>1, <1>2

LEMMA SharedCrdy ==
    ASSUME TypeOK, NoLostCrdy, NEW t \in Tasks, Untrack(t) \/ PhaseTake(t)
    PROVE  NoLostCrdy'
<1>1. /\ task[t] \in Task
      /\ task[t].pc \in NeedsConsumer => task[t].c \in Consumers
      /\ task[t].pc = "untrack"
         => task[t].next \in {"cycle_set", "phase_set", "record", "end"}
  BY TaskLocals DEF TypeOK
<1>2. CASE Untrack(t)
  <2> DEFINE r == [task[t] EXCEPT !.pc = task[t].next, !.next = "off",
                                  !.p = None]
  <2>1. /\ Become(t, r) /\ UNCHANGED <<consumers, waiting>>
        /\ task[t].pc = "untrack"
    BY <1>2 DEF Untrack, At, innerVars
  <2>2. r.pc # "off"
    BY <1>1, <2>1 DEF Task
  <2> HIDE DEF r
  <2> QED  BY <2>1, <2>2, CrdyFramed DEF CarryPc
<1>3. CASE PhaseTake(t)
  <2> DEFINE x == task[t].c
  <2>1. /\ take_assigned(x) /\ UNCHANGED waiting /\ x \in Consumers
        /\ task[t].pc = "phase_take"
        /\ GoUntrack(t, consumers[x].assigned, x, "phase_set")
    BY <1>1, <1>3 DEF PhaseTake, At, NeedsConsumer, innerVars
  <2>2. /\ \A c \in Consumers : c # x => consumers'[c] = consumers[c]
        /\ consumers'[x].state = consumers[x].state
    BY <2>1 DEF TypeOK, ConsumersOK, ConsumerEntry, take_assigned, put_consumer
  <2>3. PICK r : Become(t, r) /\ r.pc \in {"phase_set", "untrack"}
    BY <1>1, <2>1, GoUntrackPlace
  <2> QED  BY <2>1, <2>2, <2>3, CrdyMoves DEF CarryPc
<1> QED  BY <1>2, <1>3

\* push_waiting puts its consumer into the queue and loses no other.
LEMMA EnqueueCrdy ==
    ASSUME TypeOK, NoLostCrdy, NEW t \in Tasks,
           NEW next \in {"peek", "remove"}, Enqueue(t, next)
    PROVE  NoLostCrdy'
<1> DEFINE x == task[t].c
           s == Retained(waiting, x)
<1>1. /\ task[t].pc = "enqueue" /\ Become(t, AtRest(next))
      /\ waiting' = Append(s, x) /\ UNCHANGED consumers
  BY DEF Enqueue, At, Rest, push_waiting, consVars
<1>2. x \in Consumers /\ waiting \in Seq(Consumers) /\ AtRest(next).pc = next
  BY <1>1, TaskLocals DEF TypeOK, InnerOK, NeedsConsumer, AtRest
<1>3. /\ s \in Seq(Consumers)
      /\ \A i \in DOMAIN waiting : waiting[i] # x
            => \E k \in DOMAIN s : s[k] = waiting[i]
  <2>1. waiting \in Seq(Consumers) /\ s = Retained(waiting, x)
    BY <1>2
  <2> HIDE DEF s
  <2>2. s \in Seq(Consumers)
    BY <2>1, RetainedType
  <2>3. \A i \in DOMAIN waiting : waiting[i] # x
            => \E k \in DOMAIN s : s[k] = waiting[i]
    BY <2>1, RetainedType
  <2> QED  BY <2>2, <2>3
<1> HIDE DEF s
<1>4. /\ \E k \in DOMAIN waiting' : waiting'[k] = x
      /\ \A i \in DOMAIN s : \E k \in DOMAIN waiting' : waiting'[k] = s[i]
  <2>1. s \in Seq(Consumers) /\ x \in Consumers /\ waiting' = Append(s, x)
    BY <1>1, <1>2, <1>3
  <2>2. \E k \in DOMAIN waiting' : waiting'[k] = x
    BY <2>1, AppendedType
  <2>3. \A i \in DOMAIN s : \E k \in DOMAIN waiting' : waiting'[k] = s[i]
    BY <2>1, AppendedType
  <2> QED  BY <2>2, <2>3
<1>5. ASSUME NEW c \in Consumers
      PROVE  /\ c = x => InQueue(c)'
             /\ InQueue(c) => InQueue(c)'
             /\ Carries(task[t], c) => c = x
  BY <1>3, <1>4 DEF InQueue, Carries
<1> QED  BY <1>1, <1>2, <1>5, CrdyKept

\* The end of a handler: neither it nor its cleanup held a consumer.
LEMMA CrdyEof ==
    ASSUME TypeOK, NoLostCrdy, NEW t \in Tasks, NEW u \in Tasks,
           NEW l \in {"unpool", "cancel"}, UNCHANGED <<consumers, waiting>>,
           task[t].pc = "read", task[u].pc = "off",
           task' = [task EXCEPT ![t] = AtRest("end"), ![u] = AtRest(l)]
    PROVE  NoLostCrdy'
<1>1. /\ \A v \in Tasks : v # t /\ v # u => task'[v] = task[v]
      /\ AtRest("end").pc = "end" /\ AtRest(l).pc = l
      /\ task'[u] = AtRest(l) /\ (t # u => task'[t] = AtRest("end"))
  BY DEF TypeOK, TasksOK, AtRest
<1>2. \A c \in Consumers : /\ ~Carries(task[t], c) /\ ~Carries(task[u], c)
                           /\ InQueue(c) => InQueue(c)'
  BY DEF Carries, InQueue
<1>3. \A v \in Tasks : task'[v].pc = "off" => task[v].pc = "off"
  BY <1>1
<1> SUFFICES ASSUME NEW c \in Consumers,
                    consumers'[c].state = "matcher_queue",
                    task'[ConsumerCleanup(c)].pc = "off"
             PROVE  InQueue(c)' \/ \E v \in Tasks : Carries(task'[v], c)
  BY DEF NoLostCrdy, At
<1>4. InQueue(c) \/ \E v \in Tasks : Carries(task[v], c)
  BY <1>3, TaskNames DEF NoLostCrdy, At
<1> QED  BY <1>1, <1>2, <1>4

LEMMA ProducerHandlerCrdy ==
    ASSUME TypeOK, CleanupLast, NoLostCrdy, NEW p \in Producers,
           ProducerHandlerStep(p)
    PROVE  NoLostCrdy'
<1> DEFINE t == ProducerHandler(p)
<1>1. /\ t \in Tasks /\ task[t] \in Task
      /\ task[t].pc \in NeedsConsumer => task[t].c \in Consumers
  BY TaskNames, TaskLocals DEF TypeOK
<1>2. CASE MatcherStep(t) \/ Untrack(t) \/ PhaseTake(t)
  BY <1>1, <1>2, MatcherCrdy, SharedCrdy
<1>3. CASE RegisterProducer(p) \/ ReadPrdy(p) \/ ClearStaleBusy(p)
            \/ MarkPrdy(p) \/ EnsureInPool(p) \/ SetReady(p)
            \/ ReadHeartbeat(p) \/ HeartbeatState(p) \/ HeartbeatWaiting(p)
            \/ DoneState(p) \/ DonePool(p)
  <2>1. /\ UNCHANGED <<consumers, waiting>>
        /\ task[t].pc \notin CarryPc
        /\ \E l \in {"read", "clear_stale_busy", "remark_prdy", "mark_prdy",
                     "pool_prdy", "pool", "set_ready", "peek", "hb_state",
                     "hb_waiting", "done_pool"} : Go(t, l)
    BY <1>3 DEF RegisterProducer, ReadPrdy, ClearStaleBusy, MarkPrdy,
                EnsureInPool, SetReady, ReadHeartbeat, HeartbeatState,
                HeartbeatWaiting, DoneState, DonePool, NextFrame, At, CarryPc,
                consVars, innerVars
  <2> QED  BY <1>1, <2>1, CrdyGo
<1>4. CASE ReadReport(p)
  <2>1. /\ UNCHANGED <<consumers, waiting>> /\ task[t].pc \notin CarryPc
        /\ \E l \in {"find", "finish", "phase_take"} : \E c, ok, n :
              Become(t, [AtRest(l) EXCEPT !.c = c, !.ok = ok, !.n = n])
    BY <1>4 DEF ReadReport, NextFrame, At, CarryPc, consVars, innerVars
  <2>2. \A l, c, ok, n :
            [AtRest(l) EXCEPT !.c = c, !.ok = ok, !.n = n].pc = l
    BY DEF AtRest
  <2> QED  BY <1>1, <2>1, <2>2, CrdyFramed
<1>5. CASE FindAssigned(p)
  <2>1. /\ UNCHANGED <<consumers, waiting>> /\ task[t].pc \notin CarryPc
        /\ \/ Go(t, "record")
           \/ \E l \in {"finish", "phase_take"} : \E c :
                 Become(t, [task[t] EXCEPT !.c = c, !.pc = l])
    BY <1>5 DEF FindAssigned, At, CarryPc, consVars, innerVars
  <2>2. \A l, c : [task[t] EXCEPT !.c = c, !.pc = l].pc = l
    BY <1>1 DEF Task
  <2> QED  BY <1>1, <2>1, <2>2, CrdyGo, CrdyFramed
<1>6. CASE FinishBatch(p)
  <2> DEFINE x == task[t].c
  <2>1. /\ finish_batch(x, task[t].n) /\ UNCHANGED waiting /\ x \in Consumers
        /\ task[t].pc = "finish"
        /\ GoUntrack(t, consumers[x].assigned, x, "record")
    BY <1>1, <1>6 DEF FinishBatch, At, NeedsConsumer, innerVars
  <2>2. /\ \A c \in Consumers : c # x => consumers'[c] = consumers[c]
        /\ consumers'[x].state # "matcher_queue"
    BY <2>1 DEF TypeOK, ConsumersOK, finish_batch, put_consumer, Known
  <2>3. PICK r : Become(t, r) /\ r.pc \in {"record", "untrack"}
    BY <1>1, <2>1, GoUntrackPlace
  <2> QED  BY <1>1, <2>1, <2>2, <2>3, CrdyMoves DEF CarryPc
<1>7. CASE DeliveryFailed(p)
  <2> DEFINE x == task[t].c
             r == [task[t] EXCEPT !.pc = "record"]
  <2>1. /\ set_consumer_state(x, "delivery_failed") /\ UNCHANGED waiting
        /\ x \in Consumers /\ task[t].pc = "phase_set" /\ Become(t, r)
    BY <1>1, <1>7 DEF DeliveryFailed, Go, At, NeedsConsumer, innerVars
  <2>2. /\ \A c \in Consumers : c # x => consumers'[c] = consumers[c]
        /\ consumers'[x].state # "matcher_queue"
    BY <2>1 DEF TypeOK, ConsumersOK, ConsumerEntry, set_consumer_state,
                put_consumer, Known
  <2>3. r.pc = "record"
    BY <1>1 DEF Task
  <2> HIDE DEF r
  <2> QED  BY <1>1, <2>1, <2>2, <2>3, CrdyMoves DEF CarryPc
<1>8. CASE RecordReport(p)
  <2>1. /\ UNCHANGED <<consumers, waiting>> /\ task[t].pc \notin CarryPc
        /\ Rest(t, "done_state")
    BY <1>8 DEF RecordReport, At, CarryPc, consVars, innerVars
  <2> QED  BY <1>1, <2>1, CrdyRest
<1>9. CASE ProducerEof(p)
  <2>1. /\ UNCHANGED <<consumers, waiting>> /\ task[t].pc = "read"
        /\ task' = [task EXCEPT ![t] = AtRest("end"),
                                ![ProducerCleanup(p)] = AtRest("unpool")]
    BY <1>9 DEF ProducerEof, At, consVars, innerVars
  <2>2. task[ProducerCleanup(p)].pc = "off"
    BY <2>1 DEF CleanupLast
  <2> QED  BY <2>1, <2>2, <1>1, TaskNames, CrdyEof
<1> QED
  BY <1>2, <1>3, <1>4, <1>5, <1>6, <1>7, <1>8, <1>9 DEF ProducerHandlerStep

LEMMA ProducerCleanupCrdy ==
    ASSUME TypeOK, NoLostCrdy, NEW p \in Producers, ProducerCleanupStep(p)
    PROVE  NoLostCrdy'
<1> DEFINE t == ProducerCleanup(p)
<1>1. /\ t \in Tasks /\ task[t] \in Task
      /\ task[t].pc \in NeedsConsumer => task[t].c \in Consumers
  BY TaskNames, TaskLocals DEF TypeOK
<1>2. CASE MatcherStep(t) \/ Untrack(t) \/ PhaseTake(t)
  BY <1>1, <1>2, MatcherCrdy, SharedCrdy
<1>3. CASE Unpool(p) \/ RequeueCheck(p)
  <2>1. /\ UNCHANGED <<consumers, waiting>> /\ task[t].pc \notin CarryPc
        /\ \E l \in {"take_pending", "phase_take", "remove"} : Go(t, l)
    BY <1>3 DEF Unpool, RequeueCheck, At, CarryPc, consVars, innerVars
  <2> QED  BY <1>1, <2>1, CrdyGo
<1>4. CASE TakePending(p)
  <2>1. /\ UNCHANGED <<consumers, waiting>> /\ task[t].pc \notin CarryPc
        /\ \E l \in {"remove", "requeue_check"} : \E c :
              Become(t, [AtRest(l) EXCEPT !.c = c])
    BY <1>4 DEF TakePending, At, CarryPc, consVars, innerVars
  <2>2. \A l, c : [AtRest(l) EXCEPT !.c = c].pc = l
    BY DEF AtRest
  <2> QED  BY <1>1, <2>1, <2>2, CrdyFramed
<1>5. CASE RequeuePhase(p)
  <2> DEFINE x == task[t].c
             r == [task[t] EXCEPT !.pc = "enqueue"]
  <2>1. /\ set_consumer_state(x, "matcher_queue") /\ UNCHANGED waiting
        /\ x \in Consumers /\ task[t].pc = "phase_set" /\ Become(t, r)
    BY <1>1, <1>5 DEF RequeuePhase, Go, At, NeedsConsumer, innerVars
  <2>2. \A c \in Consumers : c # x => consumers'[c] = consumers[c]
    BY <2>1 DEF TypeOK, ConsumersOK, set_consumer_state, put_consumer
  <2>3. r.pc = "enqueue" /\ r.c = x
    BY <1>1 DEF Task
  <2> HIDE DEF r
  <2> QED  BY <1>1, <2>1, <2>2, <2>3, CrdyMoves DEF CarryPc
<1>6. CASE RequeueConsumer(p)
  BY <1>1, <1>6, EnqueueCrdy DEF RequeueConsumer
<1>7. CASE RemoveProducer(p)
  <2>1. /\ UNCHANGED <<consumers, waiting>> /\ task[t].pc \notin CarryPc
        /\ Rest(t, "peek")
    BY <1>7 DEF RemoveProducer, At, CarryPc, consVars, innerVars
  <2> QED  BY <1>1, <2>1, CrdyRest
<1> QED
  BY <1>2, <1>3, <1>4, <1>5, <1>6, <1>7 DEF ProducerCleanupStep

LEMMA ConsumerHandlerCrdy ==
    ASSUME TypeOK, CleanupLast, NoLostCrdy, NEW c \in Consumers,
           ConsumerHandlerStep(c)
    PROVE  NoLostCrdy'
<1> DEFINE t == ConsumerHandler(c)
<1>1. t \in Tasks /\ task[t] \in Task
  BY TaskNames, TaskLocals DEF TypeOK
<1>2. CASE MatcherStep(t) \/ Untrack(t)
  BY <1>1, <1>2, MatcherCrdy, SharedCrdy
<1>3. CASE ReadCrdy(c)
  <2>1. /\ take_assigned(c) /\ UNCHANGED waiting
        /\ task[t].pc = "read"
        /\ GoUntrack(t, consumers[c].assigned, c, "cycle_set")
    BY <1>3 DEF ReadCrdy, At, innerVars
  <2>2. /\ \A x \in Consumers : x # c => consumers'[x] = consumers[x]
        /\ consumers'[c].state = consumers[c].state
    BY <2>1 DEF TypeOK, ConsumersOK, ConsumerEntry, take_assigned, put_consumer
  <2>3. PICK r : Become(t, r) /\ r.pc \in {"cycle_set", "untrack"}
    BY <1>1, <2>1, GoUntrackPlace
  <2> QED  BY <1>1, <2>1, <2>2, <2>3, CrdyMoves DEF CarryPc
<1>4. CASE CycleSet(c)
  <2> DEFINE r == [AtRest("enqueue") EXCEPT !.c = c]
  <2>1. /\ set_consumer_state(c, "matcher_queue") /\ UNCHANGED waiting
        /\ task[t].pc = "cycle_set" /\ Become(t, r)
    BY <1>4 DEF CycleSet, At, innerVars
  <2>2. \A x \in Consumers : x # c => consumers'[x] = consumers[x]
    BY <2>1 DEF TypeOK, ConsumersOK, set_consumer_state, put_consumer
  <2>3. r.pc = "enqueue" /\ r.c = c
    BY DEF AtRest
  <2> HIDE DEF r
  <2> QED  BY <1>1, <2>1, <2>2, <2>3, CrdyMoves DEF CarryPc
<1>5. CASE EnqueueConsumer(c)
  BY <1>1, <1>5, EnqueueCrdy DEF EnqueueConsumer
<1>6. CASE ConsumerEof(c)
  <2>1. /\ UNCHANGED <<consumers, waiting>> /\ task[t].pc = "read"
        /\ task' = [task EXCEPT ![t] = AtRest("end"),
                                ![ConsumerCleanup(c)] = AtRest("cancel")]
    BY <1>6 DEF ConsumerEof, At, consVars, innerVars
  <2>2. task[ConsumerCleanup(c)].pc = "off"
    BY <2>1 DEF CleanupLast
  <2> QED  BY <2>1, <2>2, <1>1, TaskNames, CrdyEof
<1> QED  BY <1>2, <1>3, <1>4, <1>5, <1>6 DEF ConsumerHandlerStep

LEMMA ConsumerCleanupCrdy ==
    ASSUME TypeOK, NoLostCrdy, NEW c \in Consumers, ConsumerCleanupStep(c)
    PROVE  NoLostCrdy'
<1> DEFINE t == ConsumerCleanup(c)
<1>1. t \in Tasks /\ task[t] \in Task
  BY TaskNames, TaskLocals DEF TypeOK
<1>2. CASE MatcherStep(t) \/ Untrack(t)
  BY <1>1, <1>2, MatcherCrdy, SharedCrdy
<1>3. CASE CancelConsumer(c)
  <2> DEFINE r == [task[t] EXCEPT !.pc = "clear"]
  <2>1. Become(t, r) /\ task[t].pc = "cancel" /\ UNCHANGED consumers
    BY <1>3 DEF CancelConsumer, Go, At, consVars
  <2>2. r.pc = "clear"
    BY <1>1 DEF Task
  <2>3. ASSUME NEW x \in Consumers, x # c, InQueue(x)
        PROVE  InQueue(x)'
    <3>1. waiting \in Seq(Consumers)
      BY DEF TypeOK, InnerOK
    <3>2. PICK j \in DOMAIN waiting : waiting[j] = x
      BY <2>3 DEF InQueue
    <3>3. CASE UNCHANGED waiting
      BY <3>2, <3>3 DEF InQueue
    <3>4. CASE ~UNCHANGED waiting
      <4>1. PICK i \in DOMAIN waiting :
                waiting[i] = c /\ waiting' = SwapRemoved(waiting, i)
        BY <1>3, <3>4 DEF CancelConsumer
      <4>2. i \in 1..Len(waiting) /\ j # i
        BY <2>3, <3>1, <3>2, <4>1
      <4>3. \E k \in DOMAIN waiting' : waiting'[k] = waiting[j]
        BY <3>1, <3>2, <4>1, <4>2, SwapRemovedType
      <4> QED  BY <3>2, <4>3 DEF InQueue
    <3> QED  BY <3>3, <3>4
  <2>4. \A x \in Consumers : ~Carries(task[t], x)
    BY <2>1 DEF Carries
  <2> HIDE DEF r
  <2> QED  BY <1>1, <2>1, <2>2, <2>3, <2>4, CrdyKept
<1>4. CASE ClearAssignments(c)
  <2>1. /\ UNCHANGED <<consumers, waiting>> /\ task[t].pc \notin CarryPc
        /\ \E l \in {"peek", "unregister"} : Go(t, l)
    BY <1>4 DEF ClearAssignments, At, CarryPc, consVars, innerVars
  <2> QED  BY <1>1, <2>1, CrdyGo
<1>5. CASE Unregister(c)
  <2>1. /\ remove_consumer(c) /\ UNCHANGED waiting /\ task[t].pc = "unregister"
        /\ GoUntrack(t, consumers[c].assigned, c, "end")
    BY <1>5 DEF Unregister, At, innerVars
  <2>2. /\ \A x \in Consumers : x # c => consumers'[x] = consumers[x]
        /\ consumers'[c].state # "matcher_queue"
    BY <2>1 DEF TypeOK, ConsumersOK, remove_consumer, NoConsumer
  <2>3. PICK r : Become(t, r) /\ r.pc \in {"end", "untrack"}
    BY <1>1, <2>1, GoUntrackPlace
  <2> QED  BY <1>1, <2>1, <2>2, <2>3, CrdyMoves DEF CarryPc
<1> QED  BY <1>2, <1>3, <1>4, <1>5 DEF ConsumerCleanupStep

LEMMA MatchLoopCrdy ==
    ASSUME TypeOK, NoLostCrdy, MatchLoopStep
    PROVE  NoLostCrdy'
<1> DEFINE t == MatchLoop
<1>1. t \in Tasks
  BY TaskNames
<1>2. CASE MatcherStep(t)
  BY <1>1, <1>2, MatcherCrdy
<1>3. CASE Tick
  <2>1. /\ UNCHANGED <<consumers, waiting>> /\ task[t].pc \notin CarryPc
        /\ \E l \in {"tick", "sync_read"} : Go(t, l)
    BY <1>3 DEF Tick, At, CarryPc, consVars, innerVars
  <2> QED  BY <1>1, <2>1, CrdyGo
<1>4. CASE SyncRead \/ SyncRegistry
  <2>1. /\ UNCHANGED <<consumers, waiting>> /\ task[t].pc \notin CarryPc
        /\ \E cand, stale :
             \/ Become(t, [AtRest("sync_registry") EXCEPT !.cand = cand])
             \/ Become(t, [AtRest("sync_apply") EXCEPT !.cand = cand,
                                                       !.stale = stale])
    BY <1>4 DEF SyncRead, SyncRegistry, At, CarryPc, consVars, innerVars
  <2>2. \A cand, stale :
          /\ [AtRest("sync_registry") EXCEPT !.cand = cand].pc
                = "sync_registry"
          /\ [AtRest("sync_apply") EXCEPT !.cand = cand, !.stale = stale].pc
                = "sync_apply"
    BY DEF AtRest
  <2> QED  BY <1>1, <2>1, <2>2, CrdyFramed
<1>5. CASE SyncApply
  <2>1. /\ UNCHANGED <<consumers, waiting>> /\ task[t].pc \notin CarryPc
        /\ Rest(t, "peek")
    BY <1>5 DEF SyncApply, At, CarryPc, consVars
  <2> QED  BY <1>1, <2>1, CrdyRest
<1> QED  BY <1>2, <1>3, <1>4, <1>5 DEF MatchLoopStep

\* The clients do not touch the registry of consumers, the queue or the tasks,
\* except that a new connection enters the registry as "idle".
LEMMA ClientsCrdy ==
    ASSUME TypeOK, NoLostCrdy,
           \/ \E p \in Producers : ProducerClientStep(p)
           \/ \E c \in Consumers : ConsumerClientStep(c)
           \/ UNCHANGED vars
    PROVE  NoLostCrdy'
<1>1. CASE UNCHANGED <<consumers, waiting, task>>
  BY <1>1 DEF NoLostCrdy, At, InQueue
<1>2. ASSUME NEW c \in Consumers, ConsumerConnect(c)
      PROVE  NoLostCrdy'
  <2> DEFINE t == ConsumerHandler(c)
             r == [task[t] EXCEPT !.pc = "read"]
  <2>1. /\ Become(t, r) /\ register_consumer(c) /\ UNCHANGED waiting
        /\ t \in Tasks /\ task[t] \in Task /\ task[t].pc = "off"
    BY <1>2, TaskNames, TaskLocals
    DEF ConsumerConnect, Go, At, innerVars, TypeOK
  <2>2. r.pc = "read"
    BY <2>1 DEF Task
  <2>3. /\ \A x \in Consumers : x # c => consumers'[x] = consumers[x]
        /\ consumers'[c].state # "matcher_queue"
    BY <2>1 DEF TypeOK, ConsumersOK, register_consumer, NoConsumer
  <2> HIDE DEF r
  <2> QED  BY <2>1, <2>2, <2>3, CrdyMoves DEF CarryPc
<1>3. ASSUME NEW p \in Producers, ProducerClientStep(p)
      PROVE  UNCHANGED <<consumers, waiting, task>>
  BY <1>3 DEF ProducerClientStep, Publish, Accumulate, ProducerConnect,
      SendReady, SendHeartbeat, Deliver, ProducerDrop, BusyExpires,
      MasterState, consVars, innerVars
<1>4. ASSUME NEW c \in Consumers, SendCrdy(c) \/ ConsumerDrop(c)
      PROVE  UNCHANGED <<consumers, waiting, task>>
  BY <1>4 DEF SendCrdy, ConsumerDrop, MasterState, consVars, innerVars
<1>5. ASSUME UNCHANGED vars PROVE UNCHANGED <<consumers, waiting, task>>
  BY <1>5 DEF vars, consVars, innerVars
<1> QED  BY <1>1, <1>2, <1>3, <1>4, <1>5 DEF ConsumerClientStep

-----------------------------------------------------------------------------
(* CleanupLast.                                                            *)

\* Only task t moves, from a place where it has something to do.
Moves(t) ==
    /\ task[t].pc # "end"
    /\ \A u \in Tasks : u # t => task'[u] = task[u]

LEMMA MatcherMoves ==
    ASSUME TypeOK, NEW t \in Tasks,
           MatcherStep(t) \/ Untrack(t) \/ PhaseTake(t)
    PROVE  Moves(t) /\ task[t].pc # "off"
<1>1. /\ task[t].pc \notin {"end", "off"}
      /\ \E r : Become(t, r)
  BY DEF MatcherStep, TryMatch, Peek, Rank, TakePair, SendAssign,
         SendAssignLost, SendAssignFails, SendFailedIdle, Requeue,
         MarkAssigned, StaleRead, StaleRelease, StaleIndex, MarkAwaiting,
         Track, Untrack, PhaseTake, GoUntrack, At, Go, Rest
<1> QED  BY <1>1 DEF Become, Moves, TypeOK, TasksOK

\* Which task a step moves.
LEMMA StepMoves ==
    ASSUME TypeOK
    PROVE  /\ \A p \in Producers :
                /\ ProducerClientStep(p) => UNCHANGED task
                /\ ProducerHandlerStep(p)
                    => Moves(ProducerHandler(p)) \/ ProducerEof(p)
                /\ ProducerCleanupStep(p)
                    => /\ Moves(ProducerCleanup(p))
                       /\ task[ProducerCleanup(p)].pc # "off"
           /\ \A c \in Consumers :
                /\ ConsumerClientStep(c)
                    => UNCHANGED task \/ Moves(ConsumerHandler(c))
                /\ ConsumerHandlerStep(c)
                    => Moves(ConsumerHandler(c)) \/ ConsumerEof(c)
                /\ ConsumerCleanupStep(c)
                    => /\ Moves(ConsumerCleanup(c))
                       /\ task[ConsumerCleanup(c)].pc # "off"
           /\ MatchLoopStep => Moves(MatchLoop)
<1>1. ASSUME NEW t \in Tasks, NEW r, Become(t, r), task[t].pc # "end"
      PROVE  Moves(t)
  BY <1>1 DEF Become, Moves, TypeOK, TasksOK
<1>2. ASSUME NEW p \in Producers, ProducerClientStep(p)
      PROVE  UNCHANGED task
  BY <1>2 DEF ProducerClientStep, Publish, Accumulate, ProducerConnect,
      SendReady, SendHeartbeat, Deliver, ProducerDrop, BusyExpires, MasterState
<1>3. ASSUME NEW p \in Producers, ProducerHandlerStep(p)
      PROVE  Moves(ProducerHandler(p)) \/ ProducerEof(p)
  <2> DEFINE t == ProducerHandler(p)
  <2>1. CASE MatcherStep(t) \/ Untrack(t) \/ PhaseTake(t)
    BY <2>1, TaskNames, MatcherMoves
  <2>2. CASE \/ RegisterProducer(p) \/ ReadPrdy(p) \/ ClearStaleBusy(p)
             \/ MarkPrdy(p) \/ EnsureInPool(p) \/ SetReady(p)
             \/ ReadHeartbeat(p) \/ HeartbeatState(p) \/ HeartbeatWaiting(p)
             \/ ReadReport(p) \/ FindAssigned(p) \/ FinishBatch(p)
             \/ DeliveryFailed(p) \/ RecordReport(p) \/ DoneState(p)
             \/ DonePool(p)
    <3>1. task[t].pc # "end" /\ \E r : Become(t, r)
      BY <2>2 DEF RegisterProducer, ReadPrdy, ClearStaleBusy, MarkPrdy,
          EnsureInPool, SetReady, ReadHeartbeat, HeartbeatState,
          HeartbeatWaiting, ReadReport, FindAssigned, FinishBatch,
          DeliveryFailed, RecordReport, DoneState, DonePool, NextFrame,
          GoUntrack, At, Go, Rest
    <3> QED  BY <1>1, <3>1, TaskNames
  <2> QED  BY <1>3, <2>1, <2>2 DEF ProducerHandlerStep
<1>4. ASSUME NEW p \in Producers, ProducerCleanupStep(p)
      PROVE  Moves(ProducerCleanup(p)) /\ task[ProducerCleanup(p)].pc # "off"
  <2> DEFINE t == ProducerCleanup(p)
  <2>1. CASE MatcherStep(t) \/ Untrack(t) \/ PhaseTake(t)
    BY <2>1, TaskNames, MatcherMoves
  <2>2. CASE \/ Unpool(p) \/ TakePending(p) \/ RequeueCheck(p)
             \/ RequeuePhase(p) \/ RequeueConsumer(p) \/ RemoveProducer(p)
    <3>1. task[t].pc \notin {"end", "off"} /\ \E r : Become(t, r)
      BY <2>2 DEF Unpool, TakePending, RequeueCheck, RequeuePhase,
          RequeueConsumer, Enqueue, RemoveProducer, At, Go, Rest
    <3> QED  BY <1>1, <3>1, TaskNames
  <2> QED  BY <1>4, <2>1, <2>2 DEF ProducerCleanupStep
<1>5. ASSUME NEW c \in Consumers, ConsumerClientStep(c)
      PROVE  UNCHANGED task \/ Moves(ConsumerHandler(c))
  <2>1. CASE ConsumerConnect(c)
    <3>1. /\ task[ConsumerHandler(c)].pc # "end"
          /\ \E r : Become(ConsumerHandler(c), r)
      BY <2>1 DEF ConsumerConnect, At, Go
    <3> QED  BY <1>1, <3>1, TaskNames
  <2>2. CASE SendCrdy(c) \/ ConsumerDrop(c)
    BY <2>2 DEF SendCrdy, ConsumerDrop, MasterState
  <2> QED  BY <1>5, <2>1, <2>2 DEF ConsumerClientStep
<1>6. ASSUME NEW c \in Consumers, ConsumerHandlerStep(c)
      PROVE  Moves(ConsumerHandler(c)) \/ ConsumerEof(c)
  <2> DEFINE t == ConsumerHandler(c)
  <2>1. CASE MatcherStep(t) \/ Untrack(t)
    BY <2>1, TaskNames, MatcherMoves
  <2>2. CASE ReadCrdy(c) \/ CycleSet(c) \/ EnqueueConsumer(c)
    <3>1. task[t].pc # "end" /\ \E r : Become(t, r)
      BY <2>2 DEF ReadCrdy, CycleSet, EnqueueConsumer, Enqueue, GoUntrack,
          At, Rest
    <3> QED  BY <1>1, <3>1, TaskNames
  <2> QED  BY <1>6, <2>1, <2>2 DEF ConsumerHandlerStep
<1>7. ASSUME NEW c \in Consumers, ConsumerCleanupStep(c)
      PROVE  Moves(ConsumerCleanup(c)) /\ task[ConsumerCleanup(c)].pc # "off"
  <2> DEFINE t == ConsumerCleanup(c)
  <2>1. CASE MatcherStep(t) \/ Untrack(t)
    BY <2>1, TaskNames, MatcherMoves
  <2>2. CASE CancelConsumer(c) \/ ClearAssignments(c) \/ Unregister(c)
    <3>1. task[t].pc \notin {"end", "off"} /\ \E r : Become(t, r)
      BY <2>2 DEF CancelConsumer, ClearAssignments, Unregister, GoUntrack,
          At, Go
    <3> QED  BY <1>1, <3>1, TaskNames
  <2> QED  BY <1>7, <2>1, <2>2 DEF ConsumerCleanupStep
<1>8. ASSUME MatchLoopStep PROVE Moves(MatchLoop)
  <2>1. CASE MatcherStep(MatchLoop)
    BY <2>1, TaskNames, MatcherMoves
  <2>2. CASE Tick \/ SyncRead \/ SyncRegistry \/ SyncApply
    <3>1. task[MatchLoop].pc # "end" /\ \E r : Become(MatchLoop, r)
      BY <2>2 DEF Tick, SyncRead, SyncRegistry, SyncApply, At, Go, Rest
    <3> QED  BY <1>1, <3>1, TaskNames
  <2> QED  BY <1>8, <2>1, <2>2 DEF MatchLoopStep
<1> QED
  BY <1>2, <1>3, <1>4, <1>5, <1>6, <1>7, <1>8

\* Which task a step of the master moves.
LEMMA NextMoves ==
    ASSUME TypeOK, [Next]_vars
    PROVE  \/ UNCHANGED task
           \/ \E p \in Producers : Moves(ProducerHandler(p)) \/ ProducerEof(p)
           \/ \E c \in Consumers : Moves(ConsumerHandler(c)) \/ ConsumerEof(c)
           \/ Moves(MatchLoop)
           \/ \E p \in Producers : /\ Moves(ProducerCleanup(p))
                                   /\ task[ProducerCleanup(p)].pc # "off"
           \/ \E c \in Consumers : /\ Moves(ConsumerCleanup(c))
                                   /\ task[ConsumerCleanup(c)].pc # "off"
<1>1. UNCHANGED vars => UNCHANGED task
  BY DEF vars
<1> QED  BY <1>1, StepMoves DEF Next

LEMMA CleanupLastStep ==
    ASSUME TypeOK, CleanupLast, [Next]_vars
    PROVE  CleanupLast'
<1>1. /\ \A p, q \in Producers :
            /\ ProducerHandler(p) # ProducerCleanup(q)
            /\ ProducerCleanup(p) = ProducerCleanup(q) => p = q
            /\ ProducerHandler(p) = ProducerHandler(q) => p = q
      /\ \A c, d \in Consumers :
            /\ ConsumerHandler(c) # ConsumerCleanup(d)
            /\ ConsumerCleanup(c) = ConsumerCleanup(d) => c = d
            /\ ConsumerHandler(c) = ConsumerHandler(d) => c = d
      /\ \A p \in Producers, c \in Consumers :
            /\ ProducerHandler(p) # ConsumerHandler(c)
            /\ ProducerHandler(p) # ConsumerCleanup(c)
            /\ ProducerCleanup(p) # ConsumerHandler(c)
            /\ ProducerCleanup(p) # ConsumerCleanup(c)
      /\ \A p \in Producers :
            MatchLoop # ProducerHandler(p) /\ MatchLoop # ProducerCleanup(p)
      /\ \A c \in Consumers :
            MatchLoop # ConsumerHandler(c) /\ MatchLoop # ConsumerCleanup(c)
  BY DEF ProducerHandler, ProducerCleanup, ConsumerHandler, ConsumerCleanup,
         MatchLoop
<1> USE DEF CleanupLast
<1>2. CASE UNCHANGED task
  BY <1>2
<1>3. ASSUME NEW p \in Producers, Moves(ProducerHandler(p))
      PROVE  CleanupLast'
  BY <1>1, <1>3, TaskNames DEF Moves
<1>4. ASSUME NEW c \in Consumers, Moves(ConsumerHandler(c))
      PROVE  CleanupLast'
  BY <1>1, <1>4, TaskNames DEF Moves
<1>5. CASE Moves(MatchLoop)
  BY <1>1, <1>5, TaskNames DEF Moves
<1>6. ASSUME NEW p \in Producers, Moves(ProducerCleanup(p)),
             task[ProducerCleanup(p)].pc # "off"
      PROVE  CleanupLast'
  BY <1>1, <1>6, TaskNames DEF Moves
<1>7. ASSUME NEW c \in Consumers, Moves(ConsumerCleanup(c)),
             task[ConsumerCleanup(c)].pc # "off"
      PROVE  CleanupLast'
  BY <1>1, <1>7, TaskNames DEF Moves
<1>8. ASSUME NEW p \in Producers, ProducerEof(p) PROVE CleanupLast'
  <2>1. /\ task'[ProducerHandler(p)].pc = "end"
        /\ \A u \in Tasks : u # ProducerHandler(p) /\ u # ProducerCleanup(p)
                => task'[u] = task[u]
    BY <1>1, <1>8, TaskNames DEF ProducerEof, AtRest, TypeOK, TasksOK
  <2> QED  BY <1>1, <2>1, TaskNames
<1>9. ASSUME NEW c \in Consumers, ConsumerEof(c) PROVE CleanupLast'
  <2>1. /\ task'[ConsumerHandler(c)].pc = "end"
        /\ \A u \in Tasks : u # ConsumerHandler(c) /\ u # ConsumerCleanup(c)
                => task'[u] = task[u]
    BY <1>1, <1>9, TaskNames DEF ConsumerEof, AtRest, TypeOK, TasksOK
  <2> QED  BY <1>1, <2>1, TaskNames
<1> QED
  BY <1>2, <1>3, <1>4, <1>5, <1>6, <1>7, <1>8, <1>9, NextMoves

-----------------------------------------------------------------------------
\* The inductive invariant.
CrdyInv == TypeOK /\ CleanupLast /\ NoLostCrdy

LEMMA CrdyInit == Init => CrdyInv
<1> SUFFICES ASSUME Init PROVE CleanupLast /\ NoLostCrdy
  BY InitTypes DEF CrdyInv
<1>1. \A t \in Tasks : t # MatchLoop => task[t].pc = "off"
  BY DEF Init, AtRest
<1>2. CleanupLast
  BY <1>1, TaskNames
  DEF CleanupLast, ProducerCleanup, ConsumerCleanup, MatchLoop
<1>3. \A c \in Consumers : consumers[c].state = "none"
  BY DEF Init, ConsumersInit, NoConsumer
<1> QED  BY <1>2, <1>3 DEF NoLostCrdy

LEMMA CrdyNext ==
    ASSUME CrdyInv, [Next]_vars
    PROVE  CrdyInv'
<1>1. TypeOK' /\ CleanupLast'
  BY NextTypes, CleanupLastStep DEF CrdyInv
<1>2. NoLostCrdy'
  BY ProducerHandlerCrdy, ProducerCleanupCrdy, ConsumerHandlerCrdy,
     ConsumerCleanupCrdy, MatchLoopCrdy, ClientsCrdy DEF CrdyInv, Next
<1> QED  BY <1>1, <1>2 DEF CrdyInv

\* No CRDY is lost: a consumer the master shows as queued is in the CRDY queue,
\* in the hands of a running try_match or about to be pushed, whatever the
\* tasks of any number of producers and consumers do.
THEOREM CrdyNotLost == Spec => []NoLostCrdy
<1>1. CrdyInv => NoLostCrdy
  BY DEF CrdyInv
<1> QED  BY <1>1, CrdyInit, CrdyNext, PTL DEF Spec

-----------------------------------------------------------------------------
(* AwaitsSomebody.  Releasing is too generous to be inductive: a task that *)
(* untracks a finished batch counts as well.  Releases names the tasks     *)
(* whose next write to the registry moves the consumer on.                 *)

Will(r, l) == r.pc = l \/ (r.pc = "untrack" /\ r.next = l)

ReleasePc == {"untrack", "cycle_set", "phase_set"}

Releases(t, r, c) ==
    \/ t = ConsumerHandler(c) /\ Will(r, "cycle_set")
    \/ \E p \in Producers : /\ t \in {ProducerHandler(p), ProducerCleanup(p)}
                            /\ r.c = c /\ Will(r, "phase_set")

Awaits ==
    \A c \in Consumers :
        consumers[c].state = "awaiting_batch"
        => consumers[c].assigned # None
           \/ \E t \in Tasks : Releases(t, task[t], c)

\* Awaits survives a step of task t if every consumer that awaits a batch has a
\* producer, is released by t, or is as before and was not released by t.
LEMMA AwaitsKept ==
    ASSUME Awaits, NEW t \in Tasks,
           \A u \in Tasks : u # t => task'[u] = task[u],
           \A c \in Consumers :
                consumers'[c].state = "awaiting_batch"
                => \/ consumers'[c].assigned # None
                   \/ Releases(t, task'[t], c)
                   \/ /\ consumers'[c] = consumers[c]
                      /\ ~Releases(t, task[t], c)
    PROVE  Awaits'
<1> SUFFICES ASSUME NEW c \in Consumers,
                    consumers'[c].state = "awaiting_batch",
                    consumers'[c].assigned = None
             PROVE  \E u \in Tasks : Releases(u, task'[u], c)
  BY DEF Awaits, Releases, Will
<1>1. CASE Releases(t, task'[t], c)
  BY <1>1
<1>2. CASE consumers'[c] = consumers[c] /\ ~Releases(t, task[t], c)
  <2>1. PICK u \in Tasks : Releases(u, task[u], c)
    BY <1>2 DEF Awaits
  <2>2. task'[u] = task[u]
    BY <1>2, <2>1
  <2> QED  BY <2>1, <2>2
<1> QED  BY <1>1, <1>2

LEMMA NotReleasing ==
    ASSUME NEW t, NEW c, task[t].pc \notin ReleasePc
    PROVE  ~Releases(t, task[t], c)
  BY DEF Releases, Will, ReleasePc

LEMMA AwaitsFramed ==
    ASSUME Awaits, NEW t \in Tasks, Moves(t), UNCHANGED consumers,
           task[t].pc \notin ReleasePc
    PROVE  Awaits'
  BY NotReleasing, AwaitsKept DEF Moves

LEMMA MatcherAwaits ==
    ASSUME TypeOK, Awaits, NEW t \in Tasks, MatcherStep(t)
    PROVE  Awaits'
<1>1. Moves(t)
  BY MatcherMoves
<1>2. \A c : ~Releases(t, task[t], c)
  <2>1. task[t].pc \notin ReleasePc
    BY DEF MatcherStep, TryMatch, Peek, Rank, TakePair, SendAssign,
         SendAssignLost, SendAssignFails, SendFailedIdle, Requeue,
         MarkAssigned, StaleRead, StaleRelease, StaleIndex, MarkAwaiting,
         Track, At, ReleasePc
  <2> QED  BY <2>1, NotReleasing
<1>3. CASE StaleRelease(t)
  <2>1. release_stale_entries(task[t].old)
    BY <1>3 DEF StaleRelease
  <2>2. \A c \in Consumers : consumers'[c].state = "awaiting_batch"
                             => consumers'[c] = consumers[c]
    BY <2>1 DEF release_stale_entries
  <2> QED  BY <1>1, <1>2, <2>2, AwaitsKept DEF Moves
<1>4. CASE MarkAwaiting(t)
  <2>1. /\ task[t].p \in Producers /\ task[t].c \in Consumers
        /\ mark_awaiting_batch(task[t].c, task[t].p)
    BY <1>4, TaskLocals DEF MarkAwaiting, At, NeedsPair, TypeOK
  <2>2. task[t].p # None
    BY <2>1, IdAssumption DEF None
  <2>3. \A c \in Consumers : \/ consumers'[c] = consumers[c]
                             \/ consumers'[c].assigned # None
    BY <2>1, <2>2
    DEF mark_awaiting_batch, put_consumer, TypeOK, ConsumersOK
  <2> QED  BY <1>1, <1>2, <2>3, AwaitsKept DEF Moves
<1>5. CASE ~StaleRelease(t) /\ ~MarkAwaiting(t)
  <2>1. UNCHANGED consumers
    BY <1>5 DEF MatcherStep, TryMatch, Peek, Rank, TakePair, SendAssign,
         SendAssignLost, SendAssignFails, SendFailedIdle, Requeue,
         MarkAssigned, StaleRead, StaleIndex, Track, consVars
  <2> QED  BY <1>1, <1>2, <2>1, AwaitsKept DEF Moves
<1> QED  BY <1>3, <1>4, <1>5

\* Where GoUntrack leaves the task.
LEMMA GoUntrackWill ==
    ASSUME TypeOK, NEW t \in Tasks, NEW pid, NEW c, NEW next,
           GoUntrack(t, pid, c, next)
    PROVE  task'[t].c = c /\ Will(task'[t], next)
<1> DEFINE r == [task[t] EXCEPT !.c = c, !.p = pid,
                                !.next = IF pid = None THEN "off" ELSE next,
                                !.pc = IF pid = None THEN next ELSE "untrack"]
<1>1. task[t] \in Task
  BY TaskLocals DEF TypeOK
<1>2. /\ r.c = c
      /\ pid = None => r.pc = next
      /\ pid # None => r.pc = "untrack" /\ r.next = next
  BY <1>1 DEF Task
<1>3. task'[t] = r
  BY DEF GoUntrack, Become, TypeOK, TasksOK
<1> HIDE DEF r
<1> QED  BY <1>2, <1>3 DEF Will

LEMMA UntrackAwaits ==
    ASSUME TypeOK, Awaits, NEW t \in Tasks, Untrack(t)
    PROVE  Awaits'
<1> DEFINE r == [task[t] EXCEPT !.pc = task[t].next, !.next = "off",
                                !.p = None]
<1>1. /\ task[t] \in Task /\ task[t].pc = "untrack"
      /\ UNCHANGED consumers /\ task'[t] = r
  BY TaskLocals DEF Untrack, At, Become, TypeOK, TasksOK
<1>2. r.pc = task[t].next /\ r.c = task[t].c
  BY <1>1 DEF Task
<1> HIDE DEF r
<1>3. Moves(t)
  BY MatcherMoves
<1>4. ASSUME NEW c \in Consumers, Releases(t, task[t], c)
      PROVE  Releases(t, task'[t], c)
  BY <1>1, <1>2, <1>4 DEF Releases, Will
<1> QED  BY <1>1, <1>3, <1>4, AwaitsKept DEF Moves

\* The first lock of set_phase and of begin_cycle takes the producer; the task
\* is then the one that moves the consumer on.
LEMMA PhaseTakeAwaits ==
    ASSUME TypeOK, Awaits, NEW p \in Producers,
           NEW t \in {ProducerHandler(p), ProducerCleanup(p)}, PhaseTake(t)
    PROVE  Awaits'
<1> DEFINE x == task[t].c
<1>1. t \in Tasks
  BY TaskNames
<1>2. /\ take_assigned(x) /\ task[t].pc = "phase_take"
      /\ GoUntrack(t, consumers[x].assigned, x, "phase_set")
  BY DEF PhaseTake, At
<1>3. task'[t].c = x /\ Will(task'[t], "phase_set")
  BY <1>1, <1>2, GoUntrackWill
<1>4. \A c \in Consumers : c # x => consumers'[c] = consumers[c]
  BY <1>2 DEF take_assigned, put_consumer, TypeOK, ConsumersOK
<1>5. Releases(t, task'[t], x)
  BY <1>3 DEF Releases
<1>6. \A c : ~Releases(t, task[t], c)
  BY <1>2, NotReleasing DEF ReleasePc
<1>7. Moves(t)
  BY <1>1, MatcherMoves
<1> QED  BY <1>1, <1>4, <1>5, <1>6, <1>7, AwaitsKept DEF Moves

\* A step of t that takes one consumer out of "awaiting_batch".
LEMMA AwaitsMoved ==
    ASSUME Awaits, NEW t \in Tasks, Moves(t), NEW x \in Consumers,
           \A c \in Consumers : c # x => consumers'[c] = consumers[c],
           consumers'[x].state # "awaiting_batch",
           \A c \in Consumers : Releases(t, task[t], c) => c = x
    PROVE  Awaits'
  BY AwaitsKept DEF Moves

LEMMA SetState ==
    ASSUME TypeOK, NEW x \in Consumers, NEW s \in ConsumerPhase,
           s # "awaiting_batch", set_consumer_state(x, s)
    PROVE  /\ \A c \in Consumers : c # x => consumers'[c] = consumers[c]
           /\ consumers'[x].state # "awaiting_batch"
  BY DEF set_consumer_state, put_consumer, Known, TypeOK, ConsumersOK,
         ConsumerEntry

\* A task of a producer releases the consumer it has at hand, the handler of a
\* consumer its own one.
LEMMA ReleasesOne ==
    ASSUME NEW t \in Tasks
    PROVE  /\ \A p \in Producers, c \in Consumers :
                /\ t \in {ProducerHandler(p), ProducerCleanup(p)}
                /\ Releases(t, task[t], c)
                => c = task[t].c
           /\ \A x \in Consumers, c \in Consumers :
                t = ConsumerHandler(x) /\ Releases(t, task[t], c) => c = x
           /\ \A x \in Consumers, c \in Consumers :
                t = ConsumerCleanup(x) => ~Releases(t, task[t], c)
<1>1. /\ \A p \in Producers, c \in Consumers :
            /\ ProducerHandler(p) # ConsumerHandler(c)
            /\ ProducerHandler(p) # ConsumerCleanup(c)
            /\ ProducerCleanup(p) # ConsumerHandler(c)
            /\ ProducerCleanup(p) # ConsumerCleanup(c)
      /\ \A c, d \in Consumers :
            /\ ConsumerHandler(c) # ConsumerCleanup(d)
            /\ ConsumerHandler(c) = ConsumerHandler(d) => c = d
  BY DEF ProducerHandler, ProducerCleanup, ConsumerHandler, ConsumerCleanup
<1> QED  BY <1>1 DEF Releases

LEMMA ProducerHandlerAwaits ==
    ASSUME TypeOK, CleanupLast, Awaits, NEW p \in Producers,
           ProducerHandlerStep(p)
    PROVE  Awaits'
<1> DEFINE t == ProducerHandler(p)
<1>1. t \in Tasks
  BY TaskNames
<1>2. Moves(t) \/ ProducerEof(p)
  BY StepMoves
<1>3. CASE MatcherStep(t) \/ Untrack(t) \/ PhaseTake(t)
  BY <1>1, <1>3, MatcherAwaits, UntrackAwaits, PhaseTakeAwaits
<1>4. CASE ProducerEof(p)
  <2>1. task[t].pc = "read" /\ task[ProducerCleanup(p)].pc = "off"
    BY <1>4 DEF ProducerEof, At, CleanupLast
  <2>2. /\ UNCHANGED consumers
        /\ \A u \in Tasks : u # t /\ u # ProducerCleanup(p)
                            => task'[u] = task[u]
    BY <1>4 DEF ProducerEof, TypeOK, TasksOK, consVars
  <2>3. \A c : /\ ~Releases(t, task[t], c)
               /\ ~Releases(ProducerCleanup(p), task[ProducerCleanup(p)], c)
    BY <2>1, NotReleasing DEF ReleasePc
  <2>4. ASSUME NEW c \in Consumers, NEW u \in Tasks, Releases(u, task[u], c)
        PROVE  Releases(u, task'[u], c)
    <3>1. u # t /\ u # ProducerCleanup(p)
      BY <2>3, <2>4
    <3>2. task'[u] = task[u]
      BY <2>2, <3>1
    <3> QED  BY <2>4, <3>2
  <2> QED  BY <2>2, <2>4 DEF Awaits
<1>5. CASE \/ RegisterProducer(p) \/ ReadPrdy(p) \/ ClearStaleBusy(p)
           \/ MarkPrdy(p) \/ EnsureInPool(p) \/ SetReady(p)
           \/ ReadHeartbeat(p) \/ HeartbeatState(p) \/ HeartbeatWaiting(p)
           \/ ReadReport(p) \/ FindAssigned(p) \/ RecordReport(p)
           \/ DoneState(p) \/ DonePool(p)
  <2>1. UNCHANGED consumers /\ task[t].pc \notin ReleasePc
    BY <1>5 DEF RegisterProducer, ReadPrdy, ClearStaleBusy, MarkPrdy,
          EnsureInPool, SetReady, ReadHeartbeat, HeartbeatState,
          HeartbeatWaiting, ReadReport, FindAssigned, RecordReport,
          DoneState, DonePool, NextFrame, At, consVars, ReleasePc
  <2>2. CASE Moves(t)
    BY <1>1, <2>1, <2>2, AwaitsFramed
  <2> QED  BY <1>2, <1>4, <2>2
<1>6. CASE FinishBatch(p)
  <2> DEFINE x == task[t].c
  <2>1. task[t].pc = "finish" /\ finish_batch(x, task[t].n)
    BY <1>6 DEF FinishBatch, At
  <2>2. x \in Consumers
    BY <1>1, <2>1, TaskLocals DEF TypeOK, NeedsConsumer
  <2>3. /\ \A c \in Consumers : c # x => consumers'[c] = consumers[c]
        /\ consumers'[x].state # "awaiting_batch"
    BY <2>1, <2>2
    DEF finish_batch, put_consumer, Known, TypeOK, ConsumersOK
  <2>4. CASE Moves(t)
    BY <1>1, <2>2, <2>3, <2>4, ReleasesOne, AwaitsMoved
  <2> QED  BY <1>2, <1>4, <2>4
<1>7. CASE DeliveryFailed(p)
  <2> DEFINE x == task[t].c
  <2>1. task[t].pc = "phase_set" /\ set_consumer_state(x, "delivery_failed")
    BY <1>7 DEF DeliveryFailed, At
  <2>2. x \in Consumers
    BY <1>1, <2>1, TaskLocals DEF TypeOK, NeedsConsumer
  <2>3. /\ \A c \in Consumers : c # x => consumers'[c] = consumers[c]
        /\ consumers'[x].state # "awaiting_batch"
    BY <2>1, <2>2, SetState DEF ConsumerPhase
  <2>4. CASE Moves(t)
    BY <1>1, <2>2, <2>3, <2>4, ReleasesOne, AwaitsMoved
  <2> QED  BY <1>2, <1>4, <2>4
<1> QED  BY <1>3, <1>4, <1>5, <1>6, <1>7 DEF ProducerHandlerStep

LEMMA ProducerCleanupAwaits ==
    ASSUME TypeOK, Awaits, NEW p \in Producers, ProducerCleanupStep(p)
    PROVE  Awaits'
<1> DEFINE t == ProducerCleanup(p)
<1>1. t \in Tasks
  BY TaskNames
<1>2. Moves(t)
  BY StepMoves
<1>3. CASE MatcherStep(t) \/ Untrack(t) \/ PhaseTake(t)
  BY <1>1, <1>3, MatcherAwaits, UntrackAwaits, PhaseTakeAwaits
<1>4. CASE \/ Unpool(p) \/ TakePending(p) \/ RequeueCheck(p)
           \/ RequeueConsumer(p) \/ RemoveProducer(p)
  <2>1. UNCHANGED consumers /\ task[t].pc \notin ReleasePc
    BY <1>4 DEF Unpool, TakePending, RequeueCheck, RequeueConsumer, Enqueue,
                RemoveProducer, At, consVars, ReleasePc
  <2> QED  BY <1>1, <1>2, <2>1, AwaitsFramed
<1>5. CASE RequeuePhase(p)
  <2> DEFINE x == task[t].c
  <2>1. task[t].pc = "phase_set" /\ set_consumer_state(x, "matcher_queue")
    BY <1>5 DEF RequeuePhase, At
  <2>2. x \in Consumers
    BY <1>1, <2>1, TaskLocals DEF TypeOK, NeedsConsumer
  <2>3. /\ \A c \in Consumers : c # x => consumers'[c] = consumers[c]
        /\ consumers'[x].state # "awaiting_batch"
    BY <2>1, <2>2, SetState DEF ConsumerPhase
  <2> QED  BY <1>1, <1>2, <2>2, <2>3, ReleasesOne, AwaitsMoved
<1> QED  BY <1>3, <1>4, <1>5 DEF ProducerCleanupStep

LEMMA ConsumerAwaits ==
    ASSUME TypeOK, CleanupLast, Awaits, NEW c \in Consumers,
           ConsumerHandlerStep(c) \/ ConsumerCleanupStep(c)
    PROVE  Awaits'
<1> DEFINE t == ConsumerHandler(c)
           u == ConsumerCleanup(c)
<1>1. t \in Tasks /\ u \in Tasks
  BY TaskNames
<1>2. CASE MatcherStep(t) \/ Untrack(t) \/ MatcherStep(u) \/ Untrack(u)
  BY <1>1, <1>2, MatcherAwaits, UntrackAwaits
<1>3. CASE ReadCrdy(c)
  <2>1. /\ take_assigned(c) /\ task[t].pc = "read"
        /\ GoUntrack(t, consumers[c].assigned, c, "cycle_set")
    BY <1>3 DEF ReadCrdy, At
  <2>2. Will(task'[t], "cycle_set")
    BY <1>1, <2>1, GoUntrackWill
  <2>3. \A x \in Consumers : x # c => consumers'[x] = consumers[x]
    BY <2>1 DEF take_assigned, put_consumer, TypeOK, ConsumersOK
  <2>4. Releases(t, task'[t], c)
    BY <2>2 DEF Releases
  <2>5. \A x : ~Releases(t, task[t], x)
    BY <2>1, NotReleasing DEF ReleasePc
  <2>6. \A v \in Tasks : v # t => task'[v] = task[v]
    BY <2>1 DEF GoUntrack, Become, TypeOK, TasksOK
  <2> QED  BY <1>1, <2>3, <2>4, <2>5, <2>6, AwaitsKept
<1>4. CASE CycleSet(c)
  <2>1. Moves(t)
    BY <1>1, <1>4 DEF CycleSet, Become, At, Moves, TypeOK, TasksOK
  <2>2. /\ \A x \in Consumers : x # c => consumers'[x] = consumers[x]
        /\ consumers'[c].state # "awaiting_batch"
    BY <1>4, SetState DEF CycleSet, ConsumerPhase
  <2> QED  BY <1>1, <2>1, <2>2, ReleasesOne, AwaitsMoved
<1>5. CASE EnqueueConsumer(c)
  <2>1. Moves(t)
    BY <1>1, <1>5
    DEF EnqueueConsumer, Enqueue, Rest, Become, At, Moves, TypeOK, TasksOK
  <2>2. UNCHANGED consumers /\ task[t].pc \notin ReleasePc
    BY <1>5 DEF EnqueueConsumer, Enqueue, At, consVars, ReleasePc
  <2> QED  BY <1>1, <2>1, <2>2, AwaitsFramed
<1>6. CASE ConsumerEof(c)
  <2>1. task[t].pc = "read" /\ task[u].pc = "off"
    BY <1>6 DEF ConsumerEof, At, CleanupLast
  <2>2. /\ UNCHANGED consumers
        /\ \A v \in Tasks : v # t /\ v # u => task'[v] = task[v]
    BY <1>6 DEF ConsumerEof, TypeOK, TasksOK, consVars
  <2>3. \A x : ~Releases(t, task[t], x) /\ ~Releases(u, task[u], x)
    BY <2>1, NotReleasing DEF ReleasePc
  <2>4. ASSUME NEW x \in Consumers, NEW v \in Tasks, Releases(v, task[v], x)
        PROVE  Releases(v, task'[v], x)
    <3>1. v # t /\ v # u
      BY <2>3, <2>4
    <3>2. task'[v] = task[v]
      BY <2>2, <3>1
    <3> QED  BY <2>4, <3>2
  <2> QED  BY <2>2, <2>4 DEF Awaits
<1>7. CASE CancelConsumer(c) \/ ClearAssignments(c)
  <2>1. Moves(u)
    BY <1>1, <1>7
    DEF CancelConsumer, ClearAssignments, Go, Become, At, Moves, TypeOK, TasksOK
  <2>2. UNCHANGED consumers /\ task[u].pc \notin ReleasePc
    BY <1>7 DEF CancelConsumer, ClearAssignments, At, consVars, ReleasePc
  <2> QED  BY <1>1, <2>1, <2>2, AwaitsFramed
<1>8. CASE Unregister(c)
  <2>1. Moves(u)
    BY <1>1, <1>8
    DEF Unregister, GoUntrack, Become, At, Moves, TypeOK, TasksOK
  <2>2. /\ \A x \in Consumers : x # c => consumers'[x] = consumers[x]
        /\ consumers'[c].state # "awaiting_batch"
    BY <1>8 DEF Unregister, remove_consumer, NoConsumer, TypeOK, ConsumersOK
  <2> QED  BY <1>1, <2>1, <2>2, ReleasesOne, AwaitsMoved
<1> QED
  BY <1>2, <1>3, <1>4, <1>5, <1>6, <1>7, <1>8
  DEF ConsumerHandlerStep, ConsumerCleanupStep

LEMMA OthersAwait ==
    ASSUME TypeOK, Awaits,
           \/ \E p \in Producers : ProducerClientStep(p)
           \/ \E c \in Consumers : ConsumerClientStep(c)
           \/ MatchLoopStep
           \/ UNCHANGED vars
    PROVE  Awaits'
<1>1. CASE UNCHANGED <<consumers, task>>
  BY <1>1 DEF Awaits
<1>2. ASSUME NEW c \in Consumers, ConsumerConnect(c) PROVE Awaits'
  <2> DEFINE t == ConsumerHandler(c)
  <2>1. t \in Tasks
    BY TaskNames
  <2>2. Moves(t)
    BY <1>2, <2>1 DEF ConsumerConnect, Go, Become, At, Moves, TypeOK, TasksOK
  <2>3. /\ \A x \in Consumers : x # c => consumers'[x] = consumers[x]
        /\ consumers'[c].state # "awaiting_batch"
    BY <1>2 DEF ConsumerConnect, register_consumer, NoConsumer, TypeOK,
                ConsumersOK
  <2> QED  BY <2>1, <2>2, <2>3, ReleasesOne, AwaitsMoved
<1>3. ASSUME NEW p \in Producers, ProducerClientStep(p)
      PROVE  UNCHANGED <<consumers, task>>
  BY <1>3 DEF ProducerClientStep, Publish, Accumulate, ProducerConnect,
      SendReady, SendHeartbeat, Deliver, ProducerDrop, BusyExpires,
      MasterState, consVars
<1>4. ASSUME NEW c \in Consumers, SendCrdy(c) \/ ConsumerDrop(c)
      PROVE  UNCHANGED <<consumers, task>>
  BY <1>4 DEF SendCrdy, ConsumerDrop, MasterState, consVars
<1>5. ASSUME UNCHANGED vars PROVE UNCHANGED <<consumers, task>>
  BY <1>5 DEF vars, consVars
<1>6. ASSUME MatchLoopStep PROVE Awaits'
  <2>1. CASE MatcherStep(MatchLoop)
    BY <2>1, TaskNames, MatcherAwaits
  <2>2. CASE Tick \/ SyncRead \/ SyncRegistry \/ SyncApply
    <3>1. UNCHANGED consumers /\ task[MatchLoop].pc \notin ReleasePc
      BY <2>2 DEF Tick, SyncRead, SyncRegistry, SyncApply, At, consVars,
                  ReleasePc
    <3> QED  BY <1>6, <3>1, TaskNames, StepMoves, AwaitsFramed
  <2> QED  BY <1>6, <2>1, <2>2 DEF MatchLoopStep
<1> QED  BY <1>1, <1>2, <1>3, <1>4, <1>5, <1>6 DEF ConsumerClientStep

AwaitsInv == TypeOK /\ CleanupLast /\ Awaits

LEMMA AwaitsInit == Init => AwaitsInv
<1>1. Init => TypeOK /\ CleanupLast
  BY CrdyInit DEF CrdyInv
<1>2. Init => Awaits
  BY DEF Init, ConsumersInit, NoConsumer, Awaits
<1> QED  BY <1>1, <1>2 DEF AwaitsInv

LEMMA AwaitsNext ==
    ASSUME AwaitsInv, [Next]_vars
    PROVE  AwaitsInv'
<1>1. TypeOK' /\ CleanupLast'
  BY NextTypes, CleanupLastStep DEF AwaitsInv
<1>2. Awaits'
  BY ProducerHandlerAwaits, ProducerCleanupAwaits, ConsumerAwaits, OthersAwait
  DEF AwaitsInv, Next
<1> QED  BY <1>1, <1>2 DEF AwaitsInv

\* A consumer shown as "awaiting_batch" has a producer to await or a task that
\* is about to move it on, whatever stale assignments are released and whatever
\* late reports are read, for any number of producers and consumers.
THEOREM NobodyAwaitsInVain == Spec => []AwaitsSomebody
<1>1. AwaitsInv => AwaitsSomebody
  BY DEF AwaitsInv, Awaits, AwaitsSomebody, Releases, Releasing, Will
<1> QED  BY <1>1, AwaitsInit, AwaitsNext, PTL DEF Spec

-----------------------------------------------------------------------------
(* Sets that gain or lose one element.                                     *)

LEMMA CountOne ==
    ASSUME NEW A, NEW B, NEW x, IsFiniteSet(A)
    PROVE  /\ B \subseteq A => /\ Cardinality(B) \in Nat
                               /\ Cardinality(B) <= Cardinality(A)
           /\ B \subseteq A \cup {x} => /\ Cardinality(B) \in Nat
                                        /\ Cardinality(B) <= Cardinality(A) + 1
           /\ x \in A /\ B \subseteq A \ {x}
                => /\ Cardinality(B) \in Nat
                   /\ Cardinality(B) <= Cardinality(A) - 1
           /\ Cardinality(A) \in Nat
<1>1. /\ IsFiniteSet(A \cup {x}) /\ IsFiniteSet(A \ {x})
      /\ Cardinality(A \cup {x}) = IF x \in A THEN Cardinality(A)
                                              ELSE Cardinality(A) + 1
      /\ Cardinality(A \ {x}) = IF x \in A THEN Cardinality(A) - 1
                                           ELSE Cardinality(A)
  BY FS_AddElement, FS_RemoveElement
<1>2. Cardinality(A) \in Nat
  BY FS_CardinalityType
<1>3. ASSUME NEW T, IsFiniteSet(T), B \subseteq T
      PROVE  Cardinality(B) \in Nat /\ Cardinality(B) <= Cardinality(T)
  BY <1>3, FS_Subset, FS_CardinalityType
<1>4. B \subseteq A => Cardinality(B) \in Nat /\ Cardinality(B) <= Cardinality(A)
  BY <1>3
<1>5. ASSUME B \subseteq A \cup {x}
      PROVE  Cardinality(B) \in Nat /\ Cardinality(B) <= Cardinality(A) + 1
  <2>1. /\ Cardinality(B) \in Nat
        /\ Cardinality(B) <= Cardinality(A \cup {x})
    BY <1>1, <1>3, <1>5
  <2> QED  BY <1>1, <1>2, <2>1
<1>6. ASSUME x \in A, B \subseteq A \ {x}
      PROVE  Cardinality(B) \in Nat /\ Cardinality(B) <= Cardinality(A) - 1
  <2>1. Cardinality(B) \in Nat /\ Cardinality(B) <= Cardinality(A \ {x})
    BY <1>1, <1>3, <1>6
  <2> QED  BY <1>1, <1>2, <1>6, <2>1
<1> QED  BY <1>2, <1>4, <1>5, <1>6

LEMMA TasksFinite == IsFiniteSet(Tasks)
<1>1. ASSUME NEW S, IsFiniteSet(S), NEW name
      PROVE  IsFiniteSet({<<name, x>> : x \in S})
  <2> DEFINE T == {<<name, x>> : x \in S}
             f == [x \in S |-> <<name, x>>]
  <2>1. f \in Surjection(S, T)
    BY DEF Surjection
  <2> QED  BY <1>1, <2>1, FS_Surjection
<1>2. /\ IsFiniteSet({ProducerHandler(p) : p \in Producers})
      /\ IsFiniteSet({ProducerCleanup(p) : p \in Producers})
      /\ IsFiniteSet({ConsumerHandler(c) : c \in Consumers})
      /\ IsFiniteSet({ConsumerCleanup(c) : c \in Consumers})
  BY <1>1, IdAssumption DEF ProducerHandler, ProducerCleanup,
      ConsumerHandler, ConsumerCleanup
<1>3. IsFiniteSet({MatchLoop})
  BY FS_Singleton
<1> QED  BY <1>2, <1>3, FS_Union DEF Tasks

-----------------------------------------------------------------------------
(* Open CRDYs.                                                             *)

\* Task t, in state r, has one CRDY of c in its hands that is neither queued
\* nor answered: try_match took it from the queue, or the handler of c has read
\* it and is on its way to push_waiting.
Holds(t, r, c) ==
    \/ r.c = c /\ r.pc \in {"send", "send_failed", "requeue"}
    \/ t = ConsumerHandler(c) /\ r.pc \in {"untrack", "cycle_set", "enqueue"}

Holders(c) == {t \in Tasks : Holds(t, task[t], c)}

\* Every CRDY that was read is in the queue once at most, in the hands of one
\* task at most, or answered; retain and disconnects may lose some, and nothing
\* makes one.
Budget ==
    \A c \in Consumers :
        Occurs(waiting, c) + Cardinality(Holders(c)) + granted[c]
            <= cycles[c] - crdy[c]

\* The handler of a consumer enqueues that consumer.
OwnCrdy ==
    \A c \in Consumers : task[ConsumerHandler(c)].pc = "enqueue"
                         => task[ConsumerHandler(c)].c = c

PullInv == TypeOK /\ CleanupLast /\ OwnCrdy /\ Budget

LEMMA PullTypes ==
    ASSUME TypeOK
    PROVE  /\ waiting \in Seq(Consumers)
           /\ \A c \in Consumers :
                /\ Occurs(waiting, c) \in Nat /\ granted[c] \in Int
                /\ cycles[c] \in Nat /\ crdy[c] \in Nat
                /\ IsFiniteSet(Holders(c)) /\ Cardinality(Holders(c)) \in Nat
<1>1. waiting \in Seq(Consumers)
  BY DEF TypeOK, InnerOK
<1>2. \A c \in Consumers : Occurs(waiting, c) \in Nat
  BY <1>1, OccursType
<1>3. ASSUME NEW c \in Consumers
      PROVE  IsFiniteSet(Holders(c)) /\ Cardinality(Holders(c)) \in Nat
  <2>1. Holders(c) \subseteq Tasks
    BY DEF Holders
  <2> QED  BY <2>1, TasksFinite, FS_Subset, FS_CardinalityType
<1> QED  BY <1>1, <1>2, <1>3 DEF TypeOK, WireOK, ClientsOK

\* What a step does to the open CRDYs: it moves one of them, or none.
Keeps(c)  == Holders(c)' \subseteq Holders(c)
Still(c)  == /\ Keeps(c) /\ Occurs(waiting, c)' <= Occurs(waiting, c)
             /\ granted'[c] <= granted[c]
             /\ cycles[c] - crdy[c] <= cycles'[c] - crdy'[c]
Takes(t, c)   == /\ Holders(c)' \subseteq Holders(c) \cup {t}
                 /\ Occurs(waiting, c)' + 1 <= Occurs(waiting, c)
                 /\ granted'[c] = granted[c]
                 /\ cycles'[c] - crdy'[c] = cycles[c] - crdy[c]
Grants(t, c)  == /\ t \in Holders(c) /\ Holders(c)' \subseteq Holders(c) \ {t}
                 /\ Occurs(waiting, c)' = Occurs(waiting, c)
                 /\ granted'[c] = granted[c] + 1
                 /\ cycles'[c] - crdy'[c] = cycles[c] - crdy[c]
Queues(t, c)  == /\ t \in Holders(c) /\ Holders(c)' \subseteq Holders(c) \ {t}
                 /\ Occurs(waiting, c)' <= Occurs(waiting, c) + 1
                 /\ granted'[c] = granted[c]
                 /\ cycles'[c] - crdy'[c] = cycles[c] - crdy[c]
Reads(t, c)   == /\ Holders(c)' \subseteq Holders(c) \cup {t}
                 /\ Occurs(waiting, c)' = Occurs(waiting, c)
                 /\ granted'[c] = granted[c]
                 /\ cycles'[c] - crdy'[c] = cycles[c] - crdy[c] + 1
Revokes(c)    == /\ Keeps(c)
                 /\ Occurs(waiting, c)' <= Occurs(waiting, c) + 1
                 /\ granted'[c] = granted[c] - 1
                 /\ cycles'[c] - crdy'[c] = cycles[c] - crdy[c]

Moved(t, c) == \/ Still(c) \/ Takes(t, c) \/ Grants(t, c) \/ Queues(t, c)
               \/ Reads(t, c) \/ Revokes(c)

LEMMA BudgetMoved ==
    ASSUME TypeOK, TypeOK', Budget, NEW t,
           \A c \in Consumers : Moved(t, c)
    PROVE  Budget'
<1> SUFFICES ASSUME NEW c \in Consumers
             PROVE  Occurs(waiting', c) + Cardinality(Holders(c)') + granted'[c]
                        <= cycles'[c] - crdy'[c]
  BY DEF Budget
<1> DEFINE n == Occurs(waiting, c)
           h == Cardinality(Holders(c))
           g == granted[c]
           r == cycles[c] - crdy[c]
           n1 == Occurs(waiting', c)
           h1 == Cardinality(Holders(c)')
           g1 == granted'[c]
           r1 == cycles'[c] - crdy'[c]
<1>1. n \in Nat /\ h \in Nat /\ g \in Int /\ r \in Int /\ n + h + g <= r
  BY PullTypes DEF Budget
<1>2. n1 \in Nat /\ h1 \in Nat /\ g1 \in Int /\ r1 \in Int
  <2>1. waiting' \in Seq(Consumers)
    BY DEF TypeOK, InnerOK
  <2>2. Holders(c)' \subseteq Tasks
    BY DEF Holders
  <2>3. h1 \in Nat
    BY <2>2, TasksFinite, FS_Subset, FS_CardinalityType
  <2>4. n1 \in Nat
    BY <2>1, OccursType
  <2> QED  BY <2>3, <2>4 DEF TypeOK, WireOK, ClientsOK
<1>3. IsFiniteSet(Holders(c))
  BY PullTypes
<1>4. /\ Holders(c)' \subseteq Holders(c) => h1 <= h
      /\ Holders(c)' \subseteq Holders(c) \cup {t} => h1 <= h + 1
      /\ t \in Holders(c) /\ Holders(c)' \subseteq Holders(c) \ {t} => h1 <= h - 1
  BY <1>3, CountOne
<1>5. \/ h1 <= h /\ n1 <= n /\ g1 <= g /\ r <= r1
      \/ h1 <= h + 1 /\ n1 + 1 <= n /\ g1 = g /\ r1 = r
      \/ h1 <= h - 1 /\ n1 = n /\ g1 = g + 1 /\ r1 = r
      \/ h1 <= h - 1 /\ n1 <= n + 1 /\ g1 = g /\ r1 = r
      \/ h1 <= h + 1 /\ n1 = n /\ g1 = g /\ r1 = r + 1
      \/ h1 <= h /\ n1 <= n + 1 /\ g1 = g - 1 /\ r1 = r
  BY <1>4 DEF Moved, Still, Keeps, Takes, Grants, Queues, Reads, Revokes
<1> HIDE DEF n, h, g, r, n1, h1, g1, r1
<1>6. n1 + h1 + g1 <= r1
  BY <1>1, <1>2, <1>5
<1> QED  BY <1>6 DEF n1, h1, g1, r1

\* Some task accounts for what the step does to every consumer.
Accounts == \E t : \A c \in Consumers : Moved(t, c)

TakenPc == {"send", "send_failed", "requeue"}
ReadPc  == {"untrack", "cycle_set", "enqueue"}

LEMMA HoldersMoved ==
    ASSUME TypeOK, NEW t \in Tasks, NEW r, Become(t, r), NEW c \in Consumers
    PROVE  /\ Holders(c)' \subseteq Holders(c) \cup {t}
           /\ ~Holds(t, r, c) => Holders(c)' \subseteq Holders(c) \ {t}
           /\ Holds(t, task[t], c) => /\ Holders(c)' \subseteq Holders(c)
                                      /\ t \in Holders(c)
<1>1. task'[t] = r /\ \A u \in Tasks : u # t => task'[u] = task[u]
  BY DEF TypeOK, TasksOK, Become
<1>2. Holders(c)' = {u \in Tasks : Holds(u, task'[u], c)}
  BY DEF Holders, Holds
<1> QED  BY <1>1, <1>2 DEF Holders

\* The task moves no CRDY.
LEMMA PullFramed ==
    ASSUME TypeOK, NEW t \in Tasks, NEW r, Become(t, r),
           UNCHANGED <<waiting, granted, crdy, cycles>>,
           r.pc \in TakenPc => task[t].pc \in TakenPc /\ r.c = task[t].c,
           r.pc \in ReadPc => \/ task[t].pc \in ReadPc
                              \/ \A c \in Consumers : t # ConsumerHandler(c)
    PROVE  Accounts
<1>1. ASSUME NEW c \in Consumers PROVE Still(c)
  <2>1. Holds(t, r, c) => Holds(t, task[t], c)
    BY DEF Holds, TakenPc, ReadPc
  <2>2. Holders(c)' \subseteq Holders(c)
    BY <2>1, HoldersMoved
  <2>3. /\ Occurs(waiting', c) = Occurs(waiting, c)
        /\ granted'[c] = granted[c] /\ cycles'[c] - crdy'[c] = cycles[c] - crdy[c]
    OBVIOUS
  <2> QED  BY <2>2, <2>3, PullTypes DEF Still, Keeps
<1> QED  BY <1>1 DEF Accounts, Moved

LEMMA PullGo ==
    ASSUME TypeOK, NEW t \in Tasks, NEW l, Go(t, l),
           UNCHANGED <<waiting, granted, crdy, cycles>>,
           l \in TakenPc => task[t].pc \in TakenPc, l \notin ReadPc
    PROVE  Accounts
<1>1. task[t] \in Task
  BY TaskLocals DEF TypeOK
<1>2. /\ [task[t] EXCEPT !.pc = l].pc = l
      /\ [task[t] EXCEPT !.pc = l].c = task[t].c
  BY <1>1 DEF Task
<1> QED  BY <1>2, PullFramed DEF Go

LEMMA PullRest ==
    ASSUME TypeOK, NEW t \in Tasks, NEW l, Rest(t, l),
           UNCHANGED <<waiting, granted, crdy, cycles>>,
           l \notin TakenPc, l \notin ReadPc
    PROVE  Accounts
<1>1. AtRest(l).pc = l
  BY DEF AtRest
<1> QED  BY <1>1, PullFramed DEF Rest

-----------------------------------------------------------------------------
(* try_match.                                                              *)

LEMMA MatcherPull ==
    ASSUME TypeOK, NEW t \in Tasks, MatcherStep(t)
    PROVE  Accounts
<1>1. /\ task[t] \in Task
      /\ task[t].pc \in NeedsPair => /\ task[t].p \in Producers
                                     /\ task[t].c \in Consumers
      /\ waiting \in Seq(Consumers)
      /\ Caller(t) \notin TakenPc \cup ReadPc
      /\ UNCHANGED <<crdy, cycles>>
  BY TaskLocals
  DEF TypeOK, InnerOK, Caller, TakenPc, ReadPc, MatcherStep, clientVars
<1>2. CASE Peek(t)
  <2> DEFINE r == [AtRest("rank") EXCEPT !.cand = ready, !.rr = producer_rr]
  <2>1. /\ Rest(t, Caller(t)) \/ Become(t, r)
        /\ UNCHANGED <<waiting, granted>>
    BY <1>2 DEF Peek, innerVars
  <2>2. r.pc = "rank"
    BY DEF AtRest
  <2> HIDE DEF r
  <2> QED  BY <1>1, <2>1, <2>2, PullRest, PullFramed DEF TakenPc, ReadPc
<1>3. CASE Rank(t)
  <2>1. /\ \E p, rr, stale :
              Become(t, [AtRest("take") EXCEPT !.p = p, !.rr = rr,
                                               !.stale = stale])
        /\ UNCHANGED <<waiting, granted>>
    BY <1>3 DEF Rank, innerVars
  <2>2. \A p, rr, stale :
            [AtRest("take") EXCEPT !.p = p, !.rr = rr, !.stale = stale].pc
                = "take"
    BY DEF AtRest
  <2> QED  BY <1>1, <2>1, <2>2, PullFramed DEF TakenPc, ReadPc
<1>4. CASE TakePair(t)
  <2>1. task[t].pc = "take" /\ UNCHANGED granted
    BY <1>4 DEF TakePair, At
  <2>2. CASE task[t].p = None \/ waiting = <<>>
    <3>1. Rest(t, Caller(t)) /\ UNCHANGED waiting
      BY <1>4, <2>2 DEF TakePair
    <3> QED  BY <1>1, <2>1, <3>1, PullRest
  <2>3. CASE ~(task[t].p = None \/ waiting = <<>>)
    <3> DEFINE r == [AtRest("send") EXCEPT !.p = task[t].p, !.c = NextWaiting]
               i == Cursor + 1
               x == waiting[i]
    <3>1. Become(t, r) /\ waiting' = RemovedAt(waiting, i)
      BY <1>4, <2>3 DEF TakePair, take_next_waiting
    <3>2. r.pc = "send" /\ r.c = x
      BY DEF AtRest, NextWaiting
    <3>3. i \in 1..Len(waiting)
      BY <1>1, <2>3 DEF TypeOK, InnerOK, Cursor
    <3> HIDE DEF r, i
    <3>4. PICK f : /\ Reindexes(f, waiting', waiting)
                   /\ \A k \in DOMAIN waiting' : f[k] # i
      BY <1>1, <3>1, <3>3, RemovedReindexes
    <3>5. waiting' \in Seq(Consumers)
      BY <1>1, <3>1, <3>3, RemovedAtType
    <3>6. /\ \A c : Occurs(waiting', c) <= Occurs(waiting, c)
          /\ Occurs(waiting', x) + 1 <= Occurs(waiting, x)
      BY <1>1, <3>3, <3>4, <3>5, OccursReindexed
    <3>7. ASSUME NEW c \in Consumers PROVE Moved(t, c)
      <4>1. CASE c = x
        BY <1>1, <2>1, <3>1, <3>6, <4>1, HoldersMoved DEF Takes, Moved
      <4>2. CASE c # x
        <5>1. ~Holds(t, r, c)
          BY <3>2, <4>2 DEF Holds
        <5>2. Holders(c)' \subseteq Holders(c)
          BY <3>1, <5>1, HoldersMoved
        <5> QED  BY <1>1, <2>1, <3>6, <5>2, PullTypes DEF Still, Keeps, Moved
      <4> QED  BY <4>1, <4>2
    <3> QED  BY <3>7 DEF Accounts
  <2> QED  BY <2>2, <2>3
<1>5. CASE SendAssign(t) \/ SendAssignLost(t)
  <2> DEFINE r == [task[t] EXCEPT !.pc = "mark_assigned"]
             x == task[t].c
  <2>1. /\ Become(t, r) /\ UNCHANGED waiting /\ Grant(x)
        /\ task[t].pc = "send"
    BY <1>5 DEF SendAssign, SendAssignLost, Go, At, innerVars
  <2>2. r.pc = "mark_assigned" /\ x \in Consumers
    BY <1>1, <2>1 DEF Task, NeedsPair
  <2>3. /\ granted'[x] = granted[x] + 1
        /\ \A c \in Consumers : c # x => granted'[c] = granted[c]
    BY <2>1, <2>2 DEF Grant, TypeOK, WireOK
  <2> HIDE DEF r
  <2>4. ASSUME NEW c \in Consumers PROVE Moved(t, c)
    <3>1. Holders(c)' \subseteq Holders(c) \ {t}
      BY <2>1, <2>2, HoldersMoved DEF Holds
    <3>2. CASE c = x
      <4>1. Holds(t, task[t], c)
        BY <2>1, <3>2 DEF Holds
      <4> QED  BY <1>1, <2>1, <2>3, <3>1, <3>2, <4>1, HoldersMoved
               DEF Grants, Moved
    <3>3. CASE c # x
      BY <1>1, <2>1, <2>3, <3>1, <3>3, PullTypes DEF Still, Keeps, Moved
    <3> QED  BY <3>2, <3>3
  <2> QED  BY <2>4 DEF Accounts
<1>6. CASE SendAssignFails(t) \/ SendFailedIdle(t) \/ MarkAssigned(t)
            \/ StaleRelease(t) \/ MarkAwaiting(t)
  <2>1. /\ UNCHANGED <<waiting, granted>>
        /\ \/ Go(t, "send_failed") /\ task[t].pc = "send"
           \/ Go(t, "requeue") /\ task[t].pc = "send_failed"
           \/ Go(t, "stale_read") \/ Go(t, "stale_index") \/ Go(t, "track")
    BY <1>6 DEF SendAssignFails, SendFailedIdle, MarkAssigned, StaleRelease,
                MarkAwaiting, At, innerVars
  <2> QED  BY <1>1, <2>1, PullGo DEF TakenPc, ReadPc
<1>7. CASE Requeue(t)
  <2> DEFINE x == task[t].c
  <2>1. /\ task[t].pc = "requeue" /\ Become(t, AtRest("peek"))
        /\ waiting' = Append(waiting, x) /\ UNCHANGED granted
    BY <1>7 DEF Requeue, At, Rest
  <2>2. x \in Consumers /\ AtRest("peek").pc = "peek"
    BY <1>1, <2>1 DEF NeedsPair, AtRest
  <2>3. ASSUME NEW c \in Consumers PROVE Moved(t, c)
    <3>1. Holders(c)' \subseteq Holders(c) \ {t}
      BY <2>1, <2>2, HoldersMoved DEF Holds
    <3>2. Occurs(waiting', c) = IF c = x THEN Occurs(waiting, c) + 1
                                         ELSE Occurs(waiting, c)
      BY <1>1, <2>1, <2>2, OccursAppended
    <3>3. CASE c = x
      <4>1. Holds(t, task[t], c)
        BY <2>1, <3>3 DEF Holds
      <4> QED  BY <1>1, <2>1, <3>1, <3>2, <3>3, <4>1, HoldersMoved, PullTypes
               DEF Queues, Moved
    <3>4. CASE c # x
      BY <1>1, <2>1, <3>1, <3>2, <3>4, PullTypes DEF Still, Keeps, Moved
    <3> QED  BY <3>3, <3>4
  <2> QED  BY <2>3 DEF Accounts
<1>8. CASE StaleRead(t) \/ StaleIndex(t)
  <2> DEFINE r(l, old) == [task[t] EXCEPT !.old = old, !.pc = l]
  <2>1. /\ \E l \in {"mark_awaiting", "stale_release"} :
                \E old : Become(t, r(l, old))
        /\ UNCHANGED <<waiting, granted>>
    <3>1. [task[t] EXCEPT !.pc = "mark_awaiting", !.old = {}]
                = r("mark_awaiting", {})
      BY <1>1 DEF Task
    <3> QED  BY <1>8, <3>1 DEF StaleRead, StaleIndex, innerVars
  <2>2. \A l, old : r(l, old).pc = l
    BY <1>1 DEF Task
  <2> HIDE DEF r
  <2> QED  BY <1>1, <2>1, <2>2, PullFramed DEF TakenPc, ReadPc
<1>9. CASE Track(t)
  <2>1. Rest(t, "peek") /\ UNCHANGED <<waiting, granted>>
    BY <1>9 DEF Track, innerVars
  <2> QED  BY <1>1, <2>1, PullRest DEF TakenPc, ReadPc
<1> QED
  BY <1>2, <1>3, <1>4, <1>5, <1>6, <1>7, <1>8, <1>9 DEF MatcherStep, TryMatch

-----------------------------------------------------------------------------
(* The handlers and the cleanup tasks.                                     *)

LEMMA SharedPull ==
    ASSUME TypeOK, NEW t \in Tasks,
           \/ Untrack(t)
           \/ PhaseTake(t) /\ \A c \in Consumers : t # ConsumerHandler(c)
    PROVE  Accounts
<1>1. /\ task[t] \in Task
      /\ task[t].pc = "untrack"
         => task[t].next \in {"cycle_set", "phase_set", "record", "end"}
  BY TaskLocals DEF TypeOK
<1>2. CASE Untrack(t)
  <2> DEFINE r == [task[t] EXCEPT !.pc = task[t].next, !.next = "off",
                                  !.p = None]
  <2>1. /\ Become(t, r) /\ UNCHANGED <<waiting, granted, crdy, cycles>>
        /\ task[t].pc = "untrack"
    BY <1>2 DEF Untrack, At, innerVars, envVars, clientVars
  <2>2. r.pc = task[t].next
    BY <1>1 DEF Task
  <2> HIDE DEF r
  <2> QED  BY <1>1, <2>1, <2>2, PullFramed DEF TakenPc, ReadPc
<1>3. CASE PhaseTake(t) /\ \A c \in Consumers : t # ConsumerHandler(c)
  <2>1. /\ UNCHANGED <<waiting, granted, crdy, cycles>>
        /\ GoUntrack(t, consumers[task[t].c].assigned, task[t].c, "phase_set")
    BY <1>3 DEF PhaseTake, innerVars, envVars, clientVars
  <2>2. PICK r : Become(t, r) /\ r.pc \in {"phase_set", "untrack"}
    BY <1>1, <2>1, GoUntrackPlace
  <2> QED  BY <1>3, <2>1, <2>2, PullFramed DEF TakenPc, ReadPc
<1> QED  BY <1>2, <1>3

\* push_waiting: retain loses the other entries of its consumer.
LEMMA EnqueueCount ==
    ASSUME TypeOK, NEW t \in Tasks, NEW next, Enqueue(t, next)
    PROVE  /\ task[t].c \in Consumers
           /\ Occurs(waiting', task[t].c) \in {0, 1}
           /\ \A c \in Consumers : c # task[t].c
                => Occurs(waiting', c) <= Occurs(waiting, c)
<1> DEFINE x == task[t].c
           s == Retained(waiting, x)
<1>1. waiting \in Seq(Consumers) /\ waiting' = Append(s, x) /\ x \in Consumers
  BY TaskLocals
  DEF TypeOK, InnerOK, Enqueue, At, push_waiting, NeedsConsumer
<1>2. s \in Seq(Consumers)
  BY <1>1, RetainedType
<1>3. /\ \E f : Reindexes(f, s, waiting)
      /\ \A k \in DOMAIN s : s[k] # x
  BY <1>1, RetainedReindexes
<1> HIDE DEF s
<1>4. \A c : Occurs(s, c) <= Occurs(waiting, c)
  BY <1>1, <1>2, <1>3, OccursReindexed
<1>5. Occurs(s, x) = 0
  <2>1. Positions(s, x) = {}
    BY <1>3 DEF Positions
  <2> QED  BY <2>1, FS_EmptySet DEF Occurs
<1>6. \A c : Occurs(waiting', c) = IF c = x THEN Occurs(s, c) + 1
                                            ELSE Occurs(s, c)
  BY <1>1, <1>2, OccursAppended
<1>7. Occurs(waiting', x) = 1
  BY <1>5, <1>6
<1> QED  BY <1>1, <1>4, <1>6, <1>7

\* The end of a handler: neither it nor its cleanup takes a CRDY.
LEMMA PullEof ==
    ASSUME TypeOK, NEW t \in Tasks, NEW u \in Tasks,
           NEW l \in {"unpool", "cancel"},
           UNCHANGED <<waiting, granted, crdy, cycles>>,
           task' = [task EXCEPT ![t] = AtRest("end"), ![u] = AtRest(l)]
    PROVE  Accounts
<1>1. /\ \A v \in Tasks : v # t /\ v # u => task'[v] = task[v]
      /\ task'[u] = AtRest(l) /\ (t # u => task'[t] = AtRest("end"))
  BY DEF TypeOK, TasksOK
<1>2. \A v, c : ~Holds(v, AtRest("end"), c) /\ ~Holds(v, AtRest(l), c)
  BY DEF Holds, AtRest
<1>3. ASSUME NEW c \in Consumers PROVE Still(c)
  <2>1. Holders(c)' = {v \in Tasks : Holds(v, task'[v], c)}
    BY DEF Holders, Holds
  <2>2. Holders(c)' \subseteq Holders(c)
    BY <1>1, <1>2, <2>1 DEF Holders
  <2> QED  BY <2>2, PullTypes DEF Still, Keeps
<1> QED  BY <1>3 DEF Accounts, Moved

LEMMA ProducerHandlerPull ==
    ASSUME TypeOK, NEW p \in Producers, ProducerHandlerStep(p)
    PROVE  Accounts
<1> DEFINE t == ProducerHandler(p)
<1>1. /\ t \in Tasks /\ task[t] \in Task
      /\ \A c \in Consumers : t # ConsumerHandler(c)
  BY TaskNames, TaskLocals DEF TypeOK, ProducerHandler, ConsumerHandler
<1>2. CASE MatcherStep(t) \/ Untrack(t) \/ PhaseTake(t)
  BY <1>1, <1>2, MatcherPull, SharedPull
<1>3. CASE RegisterProducer(p) \/ ReadPrdy(p) \/ ClearStaleBusy(p)
            \/ MarkPrdy(p) \/ EnsureInPool(p) \/ SetReady(p)
            \/ ReadHeartbeat(p) \/ HeartbeatState(p) \/ HeartbeatWaiting(p)
            \/ DoneState(p) \/ DonePool(p) \/ DeliveryFailed(p)
  <2>1. /\ UNCHANGED <<waiting, granted, crdy, cycles>>
        /\ \E l \in {"read", "clear_stale_busy", "remark_prdy", "mark_prdy",
                     "pool_prdy", "pool", "set_ready", "peek", "hb_state",
                     "hb_waiting", "done_pool", "record"} : Go(t, l)
    BY <1>3 DEF RegisterProducer, ReadPrdy, ClearStaleBusy, MarkPrdy,
                EnsureInPool, SetReady, ReadHeartbeat, HeartbeatState,
                HeartbeatWaiting, DoneState, DonePool, DeliveryFailed,
                innerVars, envVars, clientVars
  <2> QED  BY <1>1, <2>1, PullGo DEF TakenPc, ReadPc
<1>4. CASE ReadReport(p)
  <2>1. /\ UNCHANGED <<waiting, granted, crdy, cycles>>
        /\ \E l \in {"find", "finish", "phase_take"} : \E c, ok, n :
              Become(t, [AtRest(l) EXCEPT !.c = c, !.ok = ok, !.n = n])
    BY <1>4 DEF ReadReport, innerVars
  <2>2. \A l, c, ok, n :
            [AtRest(l) EXCEPT !.c = c, !.ok = ok, !.n = n].pc = l
    BY DEF AtRest
  <2> QED  BY <1>1, <2>1, <2>2, PullFramed DEF TakenPc, ReadPc
<1>5. CASE FindAssigned(p)
  <2>1. /\ UNCHANGED <<waiting, granted, crdy, cycles>>
        /\ \/ Go(t, "record")
           \/ \E l \in {"finish", "phase_take"} : \E c :
                 Become(t, [task[t] EXCEPT !.c = c, !.pc = l])
    BY <1>5 DEF FindAssigned, innerVars, envVars, clientVars
  <2>2. \A l, c : [task[t] EXCEPT !.c = c, !.pc = l].pc = l
    BY <1>1 DEF Task
  <2> QED  BY <1>1, <2>1, <2>2, PullGo, PullFramed DEF TakenPc, ReadPc
<1>6. CASE FinishBatch(p)
  <2>1. /\ UNCHANGED <<waiting, granted, crdy, cycles>>
        /\ GoUntrack(t, consumers[task[t].c].assigned, task[t].c, "record")
    BY <1>6 DEF FinishBatch, innerVars, envVars, clientVars
  <2>2. PICK r : Become(t, r) /\ r.pc \in {"record", "untrack"}
    BY <1>1, <2>1, GoUntrackPlace
  <2> QED  BY <1>1, <2>1, <2>2, PullFramed DEF TakenPc, ReadPc
<1>7. CASE RecordReport(p)
  <2>1. UNCHANGED <<waiting, granted, crdy, cycles>> /\ Rest(t, "done_state")
    BY <1>7 DEF RecordReport, innerVars, envVars, clientVars
  <2> QED  BY <1>1, <2>1, PullRest DEF TakenPc, ReadPc
<1>8. CASE ProducerEof(p)
  <2>1. /\ UNCHANGED <<waiting, granted, crdy, cycles>>
        /\ task' = [task EXCEPT ![t] = AtRest("end"),
                                ![ProducerCleanup(p)] = AtRest("unpool")]
    BY <1>8 DEF ProducerEof, innerVars, envVars, clientVars
  <2> QED  BY <1>1, <2>1, TaskNames, PullEof
<1> QED
  BY <1>2, <1>3, <1>4, <1>5, <1>6, <1>7, <1>8 DEF ProducerHandlerStep

LEMMA ProducerCleanupPull ==
    ASSUME TypeOK, NEW p \in Producers, ProducerCleanupStep(p)
    PROVE  Accounts
<1> DEFINE t == ProducerCleanup(p)
<1>1. /\ t \in Tasks /\ task[t] \in Task
      /\ \A c \in Consumers : t # ConsumerHandler(c)
  BY TaskNames, TaskLocals DEF TypeOK, ProducerCleanup, ConsumerHandler
<1>2. CASE MatcherStep(t) \/ Untrack(t) \/ PhaseTake(t)
  BY <1>1, <1>2, MatcherPull, SharedPull
<1>3. CASE Unpool(p) \/ RequeueCheck(p)
  <2>1. /\ UNCHANGED <<waiting, granted, crdy, cycles>>
        /\ \E l \in {"take_pending", "phase_take", "remove"} : Go(t, l)
    BY <1>3 DEF Unpool, RequeueCheck, innerVars, envVars, clientVars
  <2> QED  BY <1>1, <2>1, PullGo DEF TakenPc, ReadPc
<1>4. CASE TakePending(p)
  <2>1. /\ UNCHANGED <<waiting, granted, crdy, cycles>>
        /\ \E l \in {"remove", "requeue_check"} : \E c :
              Become(t, [AtRest(l) EXCEPT !.c = c])
    BY <1>4 DEF TakePending, innerVars, envVars, clientVars
  <2>2. \A l, c : [AtRest(l) EXCEPT !.c = c].pc = l
    BY DEF AtRest
  <2> QED  BY <1>1, <2>1, <2>2, PullFramed DEF TakenPc, ReadPc
<1>5. CASE RequeuePhase(p)
  <2> DEFINE r == [task[t] EXCEPT !.pc = "enqueue"]
  <2>1. UNCHANGED <<waiting, granted, crdy, cycles>> /\ Become(t, r)
    BY <1>5 DEF RequeuePhase, Go, innerVars, envVars, clientVars
  <2>2. r.pc = "enqueue"
    BY <1>1 DEF Task
  <2> HIDE DEF r
  <2> QED  BY <1>1, <2>1, <2>2, PullFramed DEF TakenPc, ReadPc
<1>6. CASE RequeueConsumer(p)
  <2> DEFINE x == task[t].c
  <2>1. /\ Enqueue(t, "remove") /\ Revoke(x) /\ Become(t, AtRest("remove"))
        /\ UNCHANGED <<crdy, cycles>>
    BY <1>6 DEF RequeueConsumer, Enqueue, Rest, clientVars
  <2>2. /\ x \in Consumers /\ Occurs(waiting', x) \in {0, 1}
        /\ \A c \in Consumers : c # x
                => Occurs(waiting', c) <= Occurs(waiting, c)
    BY <1>1, <2>1, EnqueueCount
  <2>3. /\ granted'[x] = granted[x] - 1
        /\ \A c \in Consumers : c # x => granted'[c] = granted[c]
    BY <2>1, <2>2 DEF Revoke, TypeOK, WireOK
  <2>4. ASSUME NEW c \in Consumers PROVE Moved(t, c)
    <3>1. ~Holds(t, AtRest("remove"), c)
      BY DEF Holds, AtRest
    <3>2. Holders(c)' \subseteq Holders(c)
      BY <1>1, <2>1, <3>1, HoldersMoved
    <3>3. CASE c = x
      <4>1. Occurs(waiting, x) \in Nat
        BY <2>2, PullTypes
      <4>2. Occurs(waiting', c) <= Occurs(waiting, c) + 1
        BY <2>2, <3>3, <4>1
      <4> QED  BY <2>1, <2>3, <3>2, <3>3, <4>2 DEF Revokes, Keeps, Moved
    <3>4. CASE c # x
      BY <2>1, <2>2, <2>3, <3>2, <3>4, PullTypes DEF Still, Keeps, Moved
    <3> QED  BY <3>3, <3>4
  <2> QED  BY <2>4 DEF Accounts
<1>7. CASE RemoveProducer(p)
  <2>1. UNCHANGED <<waiting, granted, crdy, cycles>> /\ Rest(t, "peek")
    BY <1>7 DEF RemoveProducer, innerVars, envVars, clientVars
  <2> QED  BY <1>1, <2>1, PullRest DEF TakenPc, ReadPc
<1> QED
  BY <1>2, <1>3, <1>4, <1>5, <1>6, <1>7 DEF ProducerCleanupStep

LEMMA ConsumerHandlerPull ==
    ASSUME TypeOK, OwnCrdy, NEW c \in Consumers, ConsumerHandlerStep(c)
    PROVE  Accounts
<1> DEFINE t == ConsumerHandler(c)
<1>1. t \in Tasks /\ task[t] \in Task
  BY TaskNames, TaskLocals DEF TypeOK
<1>2. \A d \in Consumers : t = ConsumerHandler(d) => d = c
  BY DEF ConsumerHandler
<1>3. CASE MatcherStep(t) \/ Untrack(t)
  BY <1>1, <1>3, MatcherPull, SharedPull
<1>4. CASE ReadCrdy(c)
  <2>1. /\ UNCHANGED <<waiting, granted, cycles>>
        /\ crdy[c] > 0 /\ crdy' = [crdy EXCEPT ![c] = @ - 1]
        /\ GoUntrack(t, consumers[c].assigned, c, "cycle_set")
    BY <1>4 DEF ReadCrdy, innerVars
  <2>2. PICK r : Become(t, r) /\ r.pc \in {"cycle_set", "untrack"}
    BY <1>1, <2>1, GoUntrackPlace
  <2>3. /\ cycles'[c] - crdy'[c] = cycles[c] - crdy[c] + 1
        /\ \A d \in Consumers : d # c => crdy'[d] = crdy[d]
    BY <2>1 DEF TypeOK, ClientsOK
  <2>4. ASSUME NEW d \in Consumers PROVE Moved(t, d)
    <3>1. CASE d = c
      BY <1>1, <2>1, <2>2, <2>3, <3>1, HoldersMoved DEF Reads, Moved
    <3>2. CASE d # c
      <4>1. ~Holds(t, r, d)
        BY <1>2, <2>2, <3>2 DEF Holds
      <4>2. Holders(d)' \subseteq Holders(d)
        BY <1>1, <2>2, <4>1, HoldersMoved
      <4> QED  BY <2>1, <2>3, <3>2, <4>2, PullTypes DEF Still, Keeps, Moved
    <3> QED  BY <3>1, <3>2
  <2> QED  BY <2>4 DEF Accounts
<1>5. CASE CycleSet(c)
  <2> DEFINE r == [AtRest("enqueue") EXCEPT !.c = c]
  <2>1. /\ UNCHANGED <<waiting, granted, crdy, cycles>> /\ Become(t, r)
        /\ task[t].pc = "cycle_set"
    BY <1>5 DEF CycleSet, At, innerVars, envVars, clientVars
  <2>2. r.pc = "enqueue"
    BY DEF AtRest
  <2> HIDE DEF r
  <2> QED  BY <1>1, <2>1, <2>2, PullFramed DEF TakenPc, ReadPc
<1>6. CASE EnqueueConsumer(c)
  <2>1. /\ Enqueue(t, "peek") /\ UNCHANGED <<granted, crdy, cycles>>
        /\ Become(t, AtRest("peek")) /\ task[t].pc = "enqueue"
    BY <1>6 DEF EnqueueConsumer, Enqueue, At, Rest, clientVars
  <2>2. task[t].c = c
    BY <2>1 DEF OwnCrdy
  <2>3. /\ Occurs(waiting', c) \in {0, 1}
        /\ \A d \in Consumers : d # c
                => Occurs(waiting', d) <= Occurs(waiting, d)
    BY <1>1, <2>1, <2>2, EnqueueCount
  <2>4. ASSUME NEW d \in Consumers PROVE Moved(t, d)
    <3>1. ~Holds(t, AtRest("peek"), d)
      BY DEF Holds, AtRest
    <3>2. Holders(d)' \subseteq Holders(d) \ {t}
      BY <1>1, <2>1, <3>1, HoldersMoved
    <3>3. CASE d = c
      <4>1. Holds(t, task[t], d)
        BY <2>1, <3>3 DEF Holds
      <4>2. t \in Holders(d)
        BY <1>1, <2>1, <4>1, HoldersMoved
      <4>3. Occurs(waiting, d) \in Nat
        BY PullTypes
      <4>4. Occurs(waiting', d) <= Occurs(waiting, d) + 1
        BY <2>3, <3>3, <4>3
      <4> QED  BY <2>1, <3>2, <4>2, <4>4 DEF Queues, Moved
    <3>4. CASE d # c
      BY <2>1, <2>3, <3>2, <3>4, PullTypes DEF Still, Keeps, Moved
    <3> QED  BY <3>3, <3>4
  <2> QED  BY <2>4 DEF Accounts
<1>7. CASE ConsumerEof(c)
  <2>1. /\ UNCHANGED <<waiting, granted, crdy, cycles>>
        /\ task' = [task EXCEPT ![t] = AtRest("end"),
                                ![ConsumerCleanup(c)] = AtRest("cancel")]
    BY <1>7 DEF ConsumerEof, innerVars, envVars, clientVars
  <2> QED  BY <1>1, <2>1, TaskNames, PullEof
<1> QED  BY <1>3, <1>4, <1>5, <1>6, <1>7 DEF ConsumerHandlerStep

LEMMA ConsumerCleanupPull ==
    ASSUME TypeOK, NEW c \in Consumers, ConsumerCleanupStep(c)
    PROVE  Accounts
<1> DEFINE t == ConsumerCleanup(c)
<1>1. /\ t \in Tasks /\ task[t] \in Task
      /\ \A d \in Consumers : t # ConsumerHandler(d)
  BY TaskNames, TaskLocals DEF TypeOK, ConsumerCleanup, ConsumerHandler
<1>2. CASE MatcherStep(t) \/ Untrack(t)
  BY <1>1, <1>2, MatcherPull, SharedPull
<1>3. CASE CancelConsumer(c)
  <2> DEFINE r == [task[t] EXCEPT !.pc = "clear"]
  <2>1. Become(t, r) /\ UNCHANGED <<granted, crdy, cycles>>
    BY <1>3 DEF CancelConsumer, Go, envVars, clientVars
  <2>2. r.pc = "clear"
    BY <1>1 DEF Task
  <2> HIDE DEF r
  <2>3. ASSUME NEW d \in Consumers
        PROVE  Occurs(waiting', d) <= Occurs(waiting, d)
    <3>1. waiting \in Seq(Consumers) /\ Occurs(waiting, d) \in Nat
      BY PullTypes
    <3>2. CASE UNCHANGED waiting
      BY <3>1, <3>2
    <3>3. CASE ~UNCHANGED waiting
      <4>1. PICK i \in DOMAIN waiting : waiting' = SwapRemoved(waiting, i)
        BY <1>3, <3>3 DEF CancelConsumer
      <4>2. i \in 1..Len(waiting)
        BY <3>1
      <4>3. PICK f : Reindexes(f, waiting', waiting)
        BY <3>1, <4>1, <4>2, SwapReindexes
      <4>4. waiting' \in Seq(Consumers)
        BY <3>1, <4>1, <4>2, SwapRemovedType
      <4> QED  BY <3>1, <4>3, <4>4, OccursReindexed
    <3> QED  BY <3>2, <3>3
  <2>4. ASSUME NEW d \in Consumers PROVE Still(d)
    <3>1. ~Holds(t, r, d)
      BY <2>2 DEF Holds
    <3>2. Holders(d)' \subseteq Holders(d)
      BY <1>1, <2>1, <3>1, HoldersMoved
    <3> QED  BY <2>1, <2>3, <3>2, PullTypes DEF Still, Keeps
  <2> QED  BY <2>4 DEF Accounts, Moved
<1>4. CASE ClearAssignments(c)
  <2>1. /\ UNCHANGED <<waiting, granted, crdy, cycles>>
        /\ \E l \in {"peek", "unregister"} : Go(t, l)
    BY <1>4 DEF ClearAssignments, innerVars, envVars, clientVars
  <2> QED  BY <1>1, <2>1, PullGo DEF TakenPc, ReadPc
<1>5. CASE Unregister(c)
  <2>1. /\ UNCHANGED <<waiting, granted, crdy, cycles>>
        /\ GoUntrack(t, consumers[c].assigned, c, "end")
    BY <1>5 DEF Unregister, innerVars, envVars, clientVars
  <2>2. PICK r : Become(t, r) /\ r.pc \in {"end", "untrack"}
    BY <1>1, <2>1, GoUntrackPlace
  <2> QED  BY <1>1, <2>1, <2>2, PullFramed DEF TakenPc, ReadPc
<1> QED  BY <1>2, <1>3, <1>4, <1>5 DEF ConsumerCleanupStep

LEMMA MatchLoopPull ==
    ASSUME TypeOK, MatchLoopStep
    PROVE  Accounts
<1> DEFINE t == MatchLoop
<1>1. t \in Tasks
  BY TaskNames
<1>2. CASE MatcherStep(t)
  BY <1>1, <1>2, MatcherPull
<1>3. CASE Tick
  <2>1. /\ UNCHANGED <<waiting, granted, crdy, cycles>>
        /\ \E l \in {"tick", "sync_read"} : Go(t, l)
    BY <1>3 DEF Tick, innerVars, envVars, clientVars
  <2> QED  BY <1>1, <2>1, PullGo DEF TakenPc, ReadPc
<1>4. CASE SyncRead \/ SyncRegistry
  <2>1. /\ UNCHANGED <<waiting, granted, crdy, cycles>>
        /\ \E cand, stale :
             \/ Become(t, [AtRest("sync_registry") EXCEPT !.cand = cand])
             \/ Become(t, [AtRest("sync_apply") EXCEPT !.cand = cand,
                                                       !.stale = stale])
    BY <1>4 DEF SyncRead, SyncRegistry, innerVars, envVars, clientVars
  <2>2. \A cand, stale :
          /\ [AtRest("sync_registry") EXCEPT !.cand = cand].pc
                = "sync_registry"
          /\ [AtRest("sync_apply") EXCEPT !.cand = cand, !.stale = stale].pc
                = "sync_apply"
    BY DEF AtRest
  <2> QED  BY <1>1, <2>1, <2>2, PullFramed DEF TakenPc, ReadPc
<1>5. CASE SyncApply
  <2>1. UNCHANGED <<waiting, granted, crdy, cycles>> /\ Rest(t, "peek")
    BY <1>5 DEF SyncApply, envVars, clientVars
  <2> QED  BY <1>1, <2>1, PullRest DEF TakenPc, ReadPc
<1> QED  BY <1>2, <1>3, <1>4, <1>5 DEF MatchLoopStep

\* A new CRDY has been sent and not read; one that is lost with its connection
\* was never answered.
LEMMA ClientsPull ==
    ASSUME TypeOK,
           \/ \E p \in Producers : ProducerClientStep(p)
           \/ \E c \in Consumers : ConsumerClientStep(c)
           \/ UNCHANGED vars
    PROVE  Accounts
<1>1. ASSUME UNCHANGED <<waiting, granted, task>>,
             \A c \in Consumers :
                cycles[c] - crdy[c] <= cycles'[c] - crdy'[c]
      PROVE  Accounts
  <2>1. ASSUME NEW c \in Consumers PROVE Still(c)
    <3>1. Holders(c)' = Holders(c)
      BY <1>1 DEF Holders, Holds
    <3> QED  BY <1>1, <3>1, PullTypes DEF Still, Keeps
  <2> QED  BY <2>1 DEF Accounts, Moved
<1>2. ASSUME NEW c \in Consumers, ConsumerConnect(c)
      PROVE  Accounts
  <2>1. /\ Go(ConsumerHandler(c), "read") /\ ConsumerHandler(c) \in Tasks
        /\ UNCHANGED <<waiting, granted, crdy, cycles>>
    BY <1>2, TaskNames DEF ConsumerConnect, innerVars
  <2> QED  BY <2>1, PullGo DEF TakenPc, ReadPc
<1>3. ASSUME UNCHANGED <<crdy, cycles>>
      PROVE  \A c \in Consumers :
                cycles[c] - crdy[c] <= cycles'[c] - crdy'[c]
  BY <1>3, PullTypes
<1>4. ASSUME NEW p \in Producers, ProducerClientStep(p) PROVE Accounts
  <2>1. UNCHANGED <<waiting, granted, task, crdy, cycles>>
    BY <1>4 DEF ProducerClientStep, Publish, Accumulate, ProducerConnect,
        SendReady, SendHeartbeat, Deliver, ProducerDrop, BusyExpires,
        MasterState, innerVars, clientVars
  <2> QED  BY <1>1, <1>3, <2>1
<1>5. ASSUME NEW c \in Consumers, SendCrdy(c) PROVE Accounts
  <2>1. UNCHANGED <<waiting, granted, task>>
    BY <1>5 DEF SendCrdy, MasterState, innerVars
  <2>2. \A d \in Consumers : cycles[d] - crdy[d] <= cycles'[d] - crdy'[d]
    BY <1>5 DEF SendCrdy, TypeOK, ClientsOK
  <2> QED  BY <1>1, <2>1, <2>2
<1>6. ASSUME NEW c \in Consumers, ConsumerDrop(c) PROVE Accounts
  <2>1. UNCHANGED <<waiting, granted, task>>
    BY <1>6 DEF ConsumerDrop, MasterState, innerVars
  <2>2. \A d \in Consumers : cycles[d] - crdy[d] <= cycles'[d] - crdy'[d]
    BY <1>6 DEF ConsumerDrop, TypeOK, ClientsOK
  <2> QED  BY <1>1, <2>1, <2>2
<1>7. ASSUME UNCHANGED vars PROVE Accounts
  <2>1. UNCHANGED <<waiting, granted, task, crdy, cycles>>
    BY <1>7 DEF vars, innerVars, envVars, clientVars
  <2> QED  BY <1>1, <1>3, <2>1
<1> QED  BY <1>2, <1>4, <1>5, <1>6, <1>7 DEF ConsumerClientStep

-----------------------------------------------------------------------------
(* OwnCrdy.                                                                *)

\* Where a step of try_match leads.
LEMMA MatcherPlace ==
    ASSUME TypeOK, NEW t \in Tasks, MatcherStep(t)
    PROVE  \E r : /\ Become(t, r) /\ r.pc \in MatchPc \cup {Caller(t)}
                  /\ r.pc = "mark_assigned"
                     => SendAssign(t) \/ SendAssignLost(t)
<1> DEFINE Leads == \E r : /\ Become(t, r) /\ r.pc \in MatchPc \cup {Caller(t)}
                           /\ r.pc = "mark_assigned"
                              => SendAssign(t) \/ SendAssignLost(t)
<1>1. task[t] \in Task /\ Caller(t) # "mark_assigned"
  BY TaskLocals DEF TypeOK, Caller
<1>2. ASSUME NEW l \in MatchPc \cup {Caller(t)}, Go(t, l) \/ Rest(t, l),
             l = "mark_assigned" => SendAssign(t) \/ SendAssignLost(t)
      PROVE  Leads
  <2>1. [task[t] EXCEPT !.pc = l].pc = l /\ AtRest(l).pc = l
    BY <1>1 DEF Task, AtRest
  <2>2. \E q : Become(t, q) /\ q.pc = l
    BY <1>2, <2>1 DEF Go, Rest
  <2> QED  BY <1>2, <2>2
<1>3. CASE SendAssign(t) \/ SendAssignLost(t) \/ SendAssignFails(t)
            \/ SendFailedIdle(t) \/ MarkAssigned(t) \/ StaleRelease(t)
            \/ MarkAwaiting(t) \/ Requeue(t) \/ Track(t)
  <2>1. PICK l \in MatchPc : /\ Go(t, l) \/ Rest(t, l)
                             /\ l = "mark_assigned"
                                => SendAssign(t) \/ SendAssignLost(t)
    BY <1>3 DEF SendAssign, SendAssignLost, SendAssignFails, SendFailedIdle,
        MarkAssigned, StaleRelease, MarkAwaiting, Requeue, Track, MatchPc
  <2>2. l \in MatchPc \cup {Caller(t)}
    OBVIOUS
  <2> QED  BY <1>2, <2>1, <2>2
<1>4. CASE Peek(t)
  <2> DEFINE r == [AtRest("rank") EXCEPT !.cand = ready, !.rr = producer_rr]
  <2>1. Rest(t, Caller(t)) \/ Become(t, r)
    BY <1>4 DEF Peek
  <2>2. r.pc = "rank"
    BY DEF AtRest
  <2> HIDE DEF r
  <2> QED  BY <1>1, <1>2, <2>1, <2>2 DEF MatchPc
<1>5. CASE Rank(t)
  <2>1. \E p, rr, stale :
            Become(t, [AtRest("take") EXCEPT !.p = p, !.rr = rr,
                                             !.stale = stale])
    BY <1>5 DEF Rank
  <2>2. \A p, rr, stale :
            [AtRest("take") EXCEPT !.p = p, !.rr = rr, !.stale = stale].pc
                = "take"
    BY DEF AtRest
  <2> QED  BY <2>1, <2>2 DEF MatchPc
<1>6. CASE TakePair(t)
  <2> DEFINE r == [AtRest("send") EXCEPT !.p = task[t].p, !.c = NextWaiting]
  <2>1. Rest(t, Caller(t)) \/ Become(t, r)
    BY <1>6 DEF TakePair
  <2>2. r.pc = "send"
    BY DEF AtRest
  <2> HIDE DEF r
  <2> QED  BY <1>1, <1>2, <2>1, <2>2 DEF MatchPc
<1>7. CASE StaleRead(t) \/ StaleIndex(t)
  <2>1. \E old : \E l \in {"mark_awaiting", "stale_release"} :
            \/ Become(t, [task[t] EXCEPT !.old = old, !.pc = l])
            \/ Become(t, [task[t] EXCEPT !.pc = l, !.old = old])
    BY <1>7 DEF StaleRead, StaleIndex
  <2>2. \A old, l : /\ [task[t] EXCEPT !.old = old, !.pc = l].pc = l
                    /\ [task[t] EXCEPT !.pc = l, !.old = old].pc = l
    BY <1>1 DEF Task
  <2> QED  BY <2>1, <2>2 DEF MatchPc
<1> QED
  BY <1>3, <1>4, <1>5, <1>6, <1>7 DEF MatcherStep, TryMatch

LEMMA OwnCrdyStep ==
    ASSUME TypeOK, OwnCrdy, [Next]_vars
    PROVE  OwnCrdy'
<1>1. ASSUME NEW c \in Consumers,
             ConsumerHandlerStep(c) \/ ConsumerConnect(c)
      PROVE  task'[ConsumerHandler(c)].pc = "enqueue"
             => task'[ConsumerHandler(c)].c = c
  <2> DEFINE t == ConsumerHandler(c)
  <2>1. t \in Tasks /\ task[t] \in Task
    BY TaskNames, TaskLocals DEF TypeOK
  <2>2. \A r : Become(t, r) => task'[t] = r
    BY <2>1 DEF TypeOK, TasksOK, Become
  <2>3. CASE MatcherStep(t)
    <3>1. PICK r : Become(t, r) /\ r.pc \in MatchPc \cup {Caller(t)}
      BY <2>1, <2>3, MatcherPlace
    <3> QED  BY <2>2, <3>1 DEF MatchPc, Caller
  <2>9. CASE Untrack(t)
    <3>1. /\ Become(t, [task[t] EXCEPT !.pc = task[t].next, !.next = "off",
                                       !.p = None])
          /\ task[t].next \in {"cycle_set", "phase_set", "record", "end"}
      BY <2>1, <2>9, TaskLocals DEF Untrack, At, TypeOK
    <3> QED  BY <2>1, <2>2, <3>1 DEF Task
  <2>4. CASE ReadCrdy(c)
    <3>1. PICK r : Become(t, r) /\ r.pc \in {"cycle_set", "untrack"}
      BY <2>1, <2>4, GoUntrackPlace DEF ReadCrdy
    <3> QED  BY <2>2, <3>1
  <2>5. CASE CycleSet(c)
    <3>1. Become(t, [AtRest("enqueue") EXCEPT !.c = c])
      BY <2>5 DEF CycleSet
    <3> QED  BY <2>2, <3>1 DEF AtRest
  <2>6. CASE EnqueueConsumer(c)
    <3>1. Become(t, AtRest("peek"))
      BY <2>6 DEF EnqueueConsumer, Enqueue, Rest
    <3> QED  BY <2>2, <3>1 DEF AtRest
  <2>7. CASE ConsumerEof(c)
    <3>1. task'[t] = AtRest("end")
      BY <2>1, <2>7 DEF ConsumerEof, TypeOK, TasksOK, ConsumerHandler,
                        ConsumerCleanup
    <3> QED  BY <3>1 DEF AtRest
  <2>8. CASE ConsumerConnect(c)
    <3>1. Become(t, [task[t] EXCEPT !.pc = "read"])
      BY <2>8 DEF ConsumerConnect, Go
    <3> QED  BY <2>1, <2>2, <3>1 DEF Task
  <2> QED
    BY <1>1, <2>3, <2>4, <2>5, <2>6, <2>7, <2>8, <2>9 DEF ConsumerHandlerStep
<1>2. ASSUME NEW c \in Consumers, ConsumerHandlerStep(c) \/ ConsumerConnect(c)
      PROVE  OwnCrdy'
  <2>1. \A d \in Consumers : d # c
            => task'[ConsumerHandler(d)] = task[ConsumerHandler(d)]
    <3>1. \A d \in Consumers : /\ ConsumerHandler(d) \in Tasks
                               /\ d # c => ConsumerHandler(d) # ConsumerHandler(c)
                               /\ ConsumerHandler(d) # ConsumerCleanup(c)
      BY TaskNames DEF ConsumerHandler, ConsumerCleanup
    <3>2. \/ UNCHANGED task \/ Moves(ConsumerHandler(c)) \/ ConsumerEof(c)
      BY <1>2, StepMoves DEF ConsumerClientStep
    <3> QED
      BY <3>1, <3>2 DEF Moves, ConsumerEof, TypeOK, TasksOK
  <2> QED  BY <1>1, <1>2, <2>1 DEF OwnCrdy
<1>3. ASSUME \A c \in Consumers :
                task'[ConsumerHandler(c)] = task[ConsumerHandler(c)]
      PROVE  OwnCrdy'
  BY <1>3 DEF OwnCrdy
<1>4. ASSUME NEW u, Moves(u), \A c \in Consumers : ConsumerHandler(c) # u
      PROVE  OwnCrdy'
  BY <1>3, <1>4, TaskNames DEF Moves
<1>5. ASSUME NEW p \in Producers,
             ProducerClientStep(p) \/ ProducerHandlerStep(p)
                \/ ProducerCleanupStep(p)
      PROVE  OwnCrdy'
  <2>1. \A c \in Consumers : /\ ConsumerHandler(c) \in Tasks
                             /\ ConsumerHandler(c) # ProducerHandler(p)
                             /\ ConsumerHandler(c) # ProducerCleanup(p)
    BY TaskNames DEF ConsumerHandler, ProducerHandler, ProducerCleanup
  <2>2. CASE ProducerEof(p)
    BY <1>3, <2>1, <2>2 DEF ProducerEof, TypeOK, TasksOK
  <2> QED  BY <1>3, <1>4, <1>5, <2>1, <2>2, StepMoves
<1>6. ASSUME NEW c \in Consumers,
             SendCrdy(c) \/ ConsumerDrop(c) \/ ConsumerCleanupStep(c)
      PROVE  OwnCrdy'
  <2>1. CASE SendCrdy(c) \/ ConsumerDrop(c)
    BY <1>3, <2>1 DEF SendCrdy, ConsumerDrop, MasterState
  <2>2. \A d \in Consumers : ConsumerHandler(d) # ConsumerCleanup(c)
    BY DEF ConsumerHandler, ConsumerCleanup
  <2> QED  BY <1>4, <1>6, <2>1, <2>2, StepMoves
<1>7. ASSUME MatchLoopStep PROVE OwnCrdy'
  <2>1. \A d \in Consumers : ConsumerHandler(d) # MatchLoop
    BY DEF ConsumerHandler, MatchLoop
  <2> QED  BY <1>4, <1>7, <2>1, StepMoves
<1>8. CASE UNCHANGED vars
  BY <1>3, <1>8 DEF vars
<1> QED
  BY <1>2, <1>5, <1>6, <1>7, <1>8 DEF Next, ConsumerClientStep

LEMMA PullInit == Init => PullInv
<1> SUFFICES ASSUME Init PROVE OwnCrdy /\ Budget
  BY CrdyInit DEF PullInv, CrdyInv
<1>1. \A t \in Tasks : task[t].pc \in {"tick", "off"}
  BY DEF Init, AtRest
<1>2. OwnCrdy
  BY <1>1, TaskNames DEF OwnCrdy
<1>3. ASSUME NEW c \in Consumers
      PROVE  /\ Occurs(waiting, c) = 0 /\ Cardinality(Holders(c)) = 0
             /\ granted[c] = 0 /\ cycles[c] = 0 /\ crdy[c] = 0
  <2>1. Holders(c) = {}
    BY <1>1 DEF Holders, Holds
  <2>2. Positions(waiting, c) = {}
    BY DEF Init, MatchmakerInit, Positions
  <2> QED  BY <2>1, <2>2, FS_EmptySet DEF Occurs, Init, MatchmakerInit
<1> QED  BY <1>2, <1>3 DEF Budget

LEMMA PullNext ==
    ASSUME PullInv, [Next]_vars
    PROVE  PullInv' /\ Accounts
<1>1. TypeOK' /\ CleanupLast' /\ OwnCrdy'
  BY NextTypes, CleanupLastStep, OwnCrdyStep DEF PullInv
<1>2. Accounts
  BY ProducerHandlerPull, ProducerCleanupPull, ConsumerHandlerPull,
     ConsumerCleanupPull, MatchLoopPull, ClientsPull DEF PullInv, Next
<1>3. Budget'
  BY <1>1, <1>2, BudgetMoved DEF PullInv, Accounts
<1> QED  BY <1>1, <1>2, <1>3 DEF PullInv

LEMMA BudgetSuffices == PullInv => PullOnly
  BY PullTypes DEF PullInv, Budget, PullOnly

\* Consumers pull: whatever failed writes, disconnects and repeated CRDYs put
\* back into the queue, the master never answers more CRDY frames of a consumer
\* than it has read from it.
THEOREM ConsumersPull == Spec => []PullOnly
  BY PullInit, PullNext, BudgetSuffices, PTL DEF Spec

-----------------------------------------------------------------------------
(* PullService.  Its GiveBack needs an answered request: the ASGN that the *)
(* cleanup of a producer takes back was counted, and no other cleanup took *)
(* it back before.                                                         *)

\* Task t, in state r, accounts for one ASGN of c: try_match wrote it and has
\* still to call mark_assigned, or the cleanup of the producer took c from the
\* entry and may requeue it.
OwePc == {"requeue_check", "phase_take", "untrack", "phase_set", "enqueue"}

Owes(t, r, c) ==
    /\ r.c = c
    /\ \/ r.pc = "mark_assigned"
       \/ r.pc \in OwePc /\ \E p \in Producers : t = ProducerCleanup(p)

Owing(c) == {t \in Tasks : Owes(t, task[t], c)}

\* Every entry that names a consumer as pending, and every task that owes it,
\* stands for an ASGN of its own that was not taken back.
Covered ==
    \A c \in Consumers :
        Cardinality(AssignedTo(c)) + Cardinality(Owing(c)) <= granted[c]

\* What a step does to the ASGNs of a consumer.
Settled(c)     == /\ AssignedTo(c)' \subseteq AssignedTo(c)
                  /\ Owing(c)' \subseteq Owing(c)
                  /\ granted'[c] = granted[c]
Writes(t, c)   == /\ AssignedTo(c)' \subseteq AssignedTo(c)
                  /\ Owing(c)' \subseteq Owing(c) \cup {t}
                  /\ granted'[c] = granted[c] + 1
Books(t, p, c) == /\ AssignedTo(c)' \subseteq AssignedTo(c) \cup {p}
                  /\ t \in Owing(c) /\ Owing(c)' \subseteq Owing(c) \ {t}
                  /\ granted'[c] = granted[c]
Unbooks(t, p, c) == /\ p \in AssignedTo(c)
                    /\ AssignedTo(c)' \subseteq AssignedTo(c) \ {p}
                    /\ Owing(c)' \subseteq Owing(c) \cup {t}
                    /\ granted'[c] = granted[c]
Returns(t, c)  == /\ AssignedTo(c)' \subseteq AssignedTo(c)
                  /\ t \in Owing(c) /\ Owing(c)' \subseteq Owing(c) \ {t}
                  /\ granted'[c] = granted[c] - 1

Charged == \E t, p : \A c \in Consumers :
                \/ Settled(c) \/ Writes(t, c) \/ Books(t, p, c)
                \/ Unbooks(t, p, c) \/ Returns(t, c)

LEMMA CoverTypes ==
    ASSUME TypeOK, NEW c \in Consumers
    PROVE  /\ IsFiniteSet(AssignedTo(c)) /\ Cardinality(AssignedTo(c)) \in Nat
           /\ IsFiniteSet(Owing(c)) /\ Cardinality(Owing(c)) \in Nat
           /\ granted[c] \in Int
<1>1. AssignedTo(c) \subseteq Producers /\ Owing(c) \subseteq Tasks
  BY DEF AssignedTo, Owing
<1> QED  BY <1>1, IdAssumption, TasksFinite, FS_Subset, FS_CardinalityType
         DEF TypeOK, WireOK

LEMMA CoveredCharged ==
    ASSUME TypeOK, TypeOK', Covered, Charged
    PROVE  Covered'
<1> SUFFICES ASSUME NEW c \in Consumers
             PROVE  Cardinality(AssignedTo(c)') + Cardinality(Owing(c)')
                        <= granted'[c]
  BY DEF Covered
<1> DEFINE a == Cardinality(AssignedTo(c))
           o == Cardinality(Owing(c))
           g == granted[c]
           a1 == Cardinality(AssignedTo(c)')
           o1 == Cardinality(Owing(c)')
           g1 == granted'[c]
<1>1. a \in Nat /\ o \in Nat /\ g \in Int /\ a + o <= g
  BY CoverTypes DEF Covered
<1>2. a1 \in Nat /\ o1 \in Nat /\ g1 \in Int
  <2>1. AssignedTo(c)' \subseteq Producers /\ Owing(c)' \subseteq Tasks
    BY DEF AssignedTo, Owing
  <2>2. a1 \in Nat /\ o1 \in Nat
    BY <2>1, IdAssumption, TasksFinite, FS_Subset, FS_CardinalityType
  <2> QED  BY <2>2 DEF TypeOK, WireOK
<1>3. IsFiniteSet(AssignedTo(c)) /\ IsFiniteSet(Owing(c))
  BY CoverTypes
<1>4. PICK t, p : \/ Settled(c) \/ Writes(t, c) \/ Books(t, p, c)
                  \/ Unbooks(t, p, c) \/ Returns(t, c)
  BY DEF Charged
<1>5. /\ AssignedTo(c)' \subseteq AssignedTo(c) => a1 <= a
      /\ AssignedTo(c)' \subseteq AssignedTo(c) \cup {p} => a1 <= a + 1
      /\ p \in AssignedTo(c) /\ AssignedTo(c)' \subseteq AssignedTo(c) \ {p}
            => a1 <= a - 1
  BY <1>3, CountOne
<1>6. /\ Owing(c)' \subseteq Owing(c) => o1 <= o
      /\ Owing(c)' \subseteq Owing(c) \cup {t} => o1 <= o + 1
      /\ t \in Owing(c) /\ Owing(c)' \subseteq Owing(c) \ {t} => o1 <= o - 1
  BY <1>3, CountOne
<1>7. \/ a1 <= a /\ o1 <= o /\ g1 = g
      \/ a1 <= a /\ o1 <= o + 1 /\ g1 = g + 1
      \/ a1 <= a + 1 /\ o1 <= o - 1 /\ g1 = g
      \/ a1 <= a - 1 /\ o1 <= o + 1 /\ g1 = g
      \/ a1 <= a /\ o1 <= o - 1 /\ g1 = g - 1
  BY <1>4, <1>5, <1>6 DEF Settled, Writes, Books, Unbooks, Returns
<1> HIDE DEF a, o, g, a1, o1, g1
<1>8. a1 + o1 <= g1
  BY <1>1, <1>2, <1>7
<1> QED  BY <1>8 DEF a1, o1, g1

LEMMA OwingMoved ==
    ASSUME TypeOK, NEW t \in Tasks, NEW r, Become(t, r), NEW c \in Consumers
    PROVE  /\ Owing(c)' \subseteq Owing(c) \cup {t}
           /\ ~Owes(t, r, c) => Owing(c)' \subseteq Owing(c) \ {t}
           /\ Owes(t, task[t], c) => /\ Owing(c)' \subseteq Owing(c)
                                     /\ t \in Owing(c)
<1>1. task'[t] = r /\ \A u \in Tasks : u # t => task'[u] = task[u]
  BY DEF TypeOK, TasksOK, Become
<1>2. Owing(c)' = {u \in Tasks : Owes(u, task'[u], c)}
  BY DEF Owing, Owes
<1> QED  BY <1>1, <1>2 DEF Owing

\* No entry of the registry gets a pending consumer.
NoneBooked == \A p \in Producers :
                producers'[p].pending \in {producers[p].pending, None}

LEMMA NoneBookedShrinks ==
    ASSUME NoneBooked, NEW c \in Consumers
    PROVE  AssignedTo(c)' \subseteq AssignedTo(c)
  BY IdAssumption DEF NoneBooked, AssignedTo, None

\* rank_ready_candidates and sync_matcher_ready_state.
LEMMA NoneRanked ==
    ASSUME RegistryOK, NEW cand,
           rank_ready_candidates(cand) \/ sync_matcher_ready_state(cand)
    PROVE  NoneBooked
<1>1. ASSUME NEW e \in ProducerEntry
      PROVE  /\ promote_ready(e).pending = e.pending
             /\ \A s : [e EXCEPT !.prdy = FALSE, !.state = s].pending = e.pending
  BY <1>1 DEF ProducerEntry, promote_ready
<1>2. ASSUME NEW q \in Producers
      PROVE  /\ Pruned(cand)[q].pending = producers[q].pending
             /\ promote_ready(Pruned(cand)[q]).pending = producers[q].pending
  <2>1. /\ Pruned(cand)[q] \in ProducerEntry /\ producers[q] \in ProducerEntry
        /\ \/ Pruned(cand)[q] = producers[q]
           \/ \E s : Pruned(cand)[q] = [producers[q] EXCEPT !.prdy = FALSE,
                                                           !.state = s]
    BY PrunedType DEF Pruned, RegistryOK
  <2>2. \A s : [producers[q] EXCEPT !.prdy = FALSE, !.state = s].pending
                = producers[q].pending
    BY <1>1, <2>1
  <2>3. Pruned(cand)[q].pending = producers[q].pending
    BY <2>1, <2>2
  <2> QED  BY <1>1, <2>1, <2>3
<1> QED  BY <1>2 DEF rank_ready_candidates, sync_matcher_ready_state,
                     transition_entries, NoneBooked

LEMMA NoneCleared ==
    ASSUME RegistryOK, NEW c, clear_assignments_to_consumer(c)
    PROVE  NoneBooked
<1>1. \A p \in Producers : release_busy_entry(producers[p]).pending = None
  BY DEF RegistryOK, ProducerEntry, release_busy_entry
<1> QED  BY <1>1 DEF clear_assignments_to_consumer, transition_entries, NoneBooked

LEMMA RegistryBooks ==
    ASSUME RegistryOK, NEW p \in Producers
    PROVE  /\ UNCHANGED regVars => NoneBooked
           /\ register_producer(p) => NoneBooked
           /\ remove_producer(p) => NoneBooked
           /\ \A s : set_state(p, s) => NoneBooked
           /\ mark_prdy(p) => NoneBooked
           /\ clear_stale_busy(p) => NoneBooked
           /\ take_pending_consumer(p) => NoneBooked
           /\ record_report(p) => NoneBooked
           /\ \A hb : record_heartbeat(p, hb) => NoneBooked
<1>1. \A q \in Producers : producers[q] \in ProducerEntry
  BY DEF RegistryOK
<1>2. ASSUME NEW e, e.pending \in {producers[p].pending, None}, update(p, e)
      PROVE  NoneBooked
  BY <1>2 DEF update, transition_entries, NoneBooked, RegistryOK
<1>3. ASSUME NEW e \in ProducerEntry
      PROVE  /\ \A s : [e EXCEPT !.state = s].pending = e.pending
             /\ [e EXCEPT !.prdy = TRUE].pending = e.pending
             /\ [e EXCEPT !.pending = None].pending = None
             /\ release_busy_entry(e).pending = None
             /\ [release_busy_entry(e) EXCEPT !.prdy = FALSE].pending = None
             /\ \A hb : heartbeat_entry(e, hb).pending \in {e.pending, None}
  BY DEF ProducerEntry, release_busy_entry, promote_ready, heartbeat_entry
<1>5. register_producer(p) \/ remove_producer(p) => NoneBooked
  BY DEF register_producer, remove_producer, transition_entries, NoEntry,
         NoneBooked, RegistryOK
<1>6. UNCHANGED regVars => NoneBooked
  BY DEF regVars, NoneBooked
<1>9. ASSUME NEW s PROVE set_state(p, s) => NoneBooked
  <2> DEFINE e == [producers[p] EXCEPT !.state = s]
  <2>1. e.pending = producers[p].pending /\ (set_state(p, s) => update(p, e))
    BY <1>1, <1>3 DEF set_state
  <2> HIDE DEF e
  <2> QED  BY <1>2, <2>1
<1>10. mark_prdy(p) => NoneBooked
  <2> DEFINE e == [producers[p] EXCEPT !.prdy = TRUE]
  <2>1. e.pending = producers[p].pending /\ (mark_prdy(p) => update(p, e))
    BY <1>1, <1>3 DEF mark_prdy
  <2> HIDE DEF e
  <2> QED  BY <1>2, <2>1
<1>11. take_pending_consumer(p) => NoneBooked
  <2> DEFINE e == [producers[p] EXCEPT !.pending = None]
  <2>1. e.pending = None /\ (take_pending_consumer(p) => update(p, e))
    BY <1>1, <1>3 DEF take_pending_consumer
  <2> HIDE DEF e
  <2> QED  BY <1>2, <2>1
<1>12. clear_stale_busy(p) => NoneBooked
  <2> DEFINE e == IF producers[p].state = "Busy"
                  THEN release_busy_entry(producers[p]) ELSE producers[p]
  <2>1. e.pending \in {producers[p].pending, None}
    BY <1>1, <1>3
  <2> QED  BY <1>2, <2>1 DEF clear_stale_busy
<1>13. record_report(p) => NoneBooked
  <2> DEFINE e == [release_busy_entry(producers[p]) EXCEPT !.prdy = FALSE]
  <2>1. e.pending = None /\ (record_report(p) => update(p, e))
    BY <1>1, <1>3 DEF record_report
  <2> HIDE DEF e
  <2> QED  BY <1>2, <2>1
<1>14. \A hb : record_heartbeat(p, hb) => NoneBooked
  BY <1>1, <1>2, <1>3 DEF record_heartbeat
<1> QED
  BY <1>5, <1>6, <1>9, <1>10, <1>11, <1>12, <1>13, <1>14

-----------------------------------------------------------------------------
(* Absent entries.                                                         *)

\* The calls of the registry's methods.
RegistryCall ==
    \/ UNCHANGED regVars
    \/ \E p \in Producers :
          \/ register_producer(p)
          \/ remove_producer(p) /\ At(ProducerCleanup(p), "remove")
          \/ \E s \in {"Idle", "Ready"} : set_state(p, s)
          \/ mark_prdy(p) \/ clear_stale_busy(p) \/ take_pending_consumer(p)
          \/ record_report(p) \/ \E hb : record_heartbeat(p, hb)
          \/ \E c : mark_assigned(p, c)
          \/ BusyExpires(p)
    \/ \E c \in Consumers : clear_assignments_to_consumer(c)
    \/ \E cand : rank_ready_candidates(cand) \/ sync_matcher_ready_state(cand)

LEMMA MatcherCalls ==
    ASSUME TypeOK, NEW t \in Tasks,
           MatcherStep(t) \/ Untrack(t) \/ PhaseTake(t)
    PROVE  RegistryCall
<1>1. task[t].pc \in NeedsPair => task[t].p \in Producers
  BY TaskLocals DEF TypeOK
<1>2. \/ UNCHANGED regVars
      \/ rank_ready_candidates(task[t].cand)
      \/ set_state(task[t].p, "Idle") /\ task[t].pc = "send_failed"
      \/ mark_assigned(task[t].p, task[t].c) /\ task[t].pc = "mark_assigned"
  BY DEF MatcherStep, TryMatch, Peek, Rank, TakePair, SendAssign,
      SendAssignLost, SendAssignFails, SendFailedIdle, Requeue, MarkAssigned,
      StaleRead, StaleRelease, StaleIndex, MarkAwaiting, Track, At, Untrack,
      PhaseTake
<1>3. PICK p, c, cand : p = task[t].p /\ c = task[t].c /\ cand = task[t].cand
  OBVIOUS
<1>4. \/ UNCHANGED regVars
      \/ rank_ready_candidates(cand)
      \/ set_state(p, "Idle") /\ p \in Producers
      \/ mark_assigned(p, c) /\ p \in Producers
  BY <1>1, <1>2, <1>3 DEF NeedsPair, set_state, mark_assigned,
                          rank_ready_candidates
<1> QED  BY <1>4 DEF RegistryCall

LEMMA StepCalls ==
    ASSUME TypeOK, [Next]_vars
    PROVE  RegistryCall
<1>1. ASSUME NEW p \in Producers, ProducerClientStep(p) PROVE RegistryCall
  BY <1>1 DEF ProducerClientStep, Publish, Accumulate, ProducerConnect,
      SendReady, SendHeartbeat, Deliver, ProducerDrop, MasterState, RegistryCall
<1>2. ASSUME NEW p \in Producers, ProducerHandlerStep(p) PROVE RegistryCall
  <2> DEFINE t == ProducerHandler(p)
  <2>1. CASE MatcherStep(t) \/ Untrack(t) \/ PhaseTake(t)
    BY <2>1, TaskNames, MatcherCalls
  <2>2. CASE ~(MatcherStep(t) \/ Untrack(t) \/ PhaseTake(t))
    <3>1. \/ UNCHANGED regVars \/ register_producer(p) \/ mark_prdy(p)
          \/ clear_stale_busy(p) \/ take_pending_consumer(p)
          \/ record_report(p) \/ \E s \in {"Idle", "Ready"} : set_state(p, s)
          \/ record_heartbeat(p, Head(toMaster[p]))
      BY <1>2, <2>2 DEF ProducerHandlerStep, RegisterProducer, ReadPrdy,
          ClearStaleBusy, MarkPrdy, EnsureInPool, SetReady, ReadHeartbeat,
          HeartbeatState, HeartbeatWaiting, ReadReport, FindAssigned,
          FinishBatch, DeliveryFailed, RecordReport, DoneState, DonePool,
          ProducerEof
    <3>2. PICK hb : hb = Head(toMaster[p])
      OBVIOUS
    <3>3. record_heartbeat(p, Head(toMaster[p])) => record_heartbeat(p, hb)
      BY <3>2 DEF record_heartbeat
    <3> QED  BY <3>1, <3>3 DEF RegistryCall
  <2> QED  BY <2>1, <2>2
<1>3. ASSUME NEW p \in Producers, ProducerCleanupStep(p) PROVE RegistryCall
  <2> DEFINE t == ProducerCleanup(p)
  <2>1. CASE MatcherStep(t) \/ Untrack(t) \/ PhaseTake(t)
    BY <2>1, TaskNames, MatcherCalls
  <2>2. CASE ~(MatcherStep(t) \/ Untrack(t) \/ PhaseTake(t))
    BY <1>3, <2>2 DEF ProducerCleanupStep, Unpool, TakePending, RequeueCheck,
        RequeuePhase, RequeueConsumer, Enqueue, RemoveProducer, RegistryCall
  <2> QED  BY <2>1, <2>2
<1>4. ASSUME NEW c \in Consumers, ConsumerClientStep(c) PROVE RegistryCall
  BY <1>4 DEF ConsumerClientStep, ConsumerConnect, SendCrdy, ConsumerDrop,
              MasterState, RegistryCall
<1>5. ASSUME NEW c \in Consumers, ConsumerHandlerStep(c) PROVE RegistryCall
  BY <1>5, TaskNames, MatcherCalls DEF ConsumerHandlerStep, ReadCrdy, CycleSet,
        EnqueueConsumer, Enqueue, ConsumerEof, RegistryCall
<1>6. ASSUME NEW c \in Consumers, ConsumerCleanupStep(c) PROVE RegistryCall
  BY <1>6, TaskNames, MatcherCalls DEF ConsumerCleanupStep, CancelConsumer,
        ClearAssignments, Unregister, RegistryCall
<1>7. ASSUME MatchLoopStep PROVE RegistryCall
  <2>1. CASE SyncRegistry
    <3>1. PICK cand : cand = task[MatchLoop].cand
      OBVIOUS
    <3>2. sync_matcher_ready_state(cand)
      BY <2>1, <3>1 DEF SyncRegistry, sync_matcher_ready_state
    <3> QED  BY <3>2 DEF RegistryCall
  <2> QED  BY <1>7, <2>1, TaskNames, MatcherCalls DEF MatchLoopStep, Tick,
               SyncRead, SyncApply, RegistryCall
<1>8. ASSUME UNCHANGED vars PROVE RegistryCall
  BY <1>8 DEF vars, RegistryCall
<1> QED
  BY <1>1, <1>2, <1>3, <1>4, <1>5, <1>6, <1>7, <1>8 DEF Next

\* A key that is not in the registry has nothing left of an earlier entry.
Vacant == \A p \in Producers : ~Registered(p) => producers[p] = NoEntry

LEMMA VacantStep ==
    ASSUME RegistryOK, Vacant, RegistryCall
    PROVE  /\ Vacant'
           /\ \A p \in Producers :
                Registered(p) => \/ producers'[p].state # "none"
                                \/ At(ProducerCleanup(p), "remove")
<1> DEFINE Kept(p) == producers'[p].state # "none"
           Left(p) == producers'[p] = producers[p]
           Cleared(p) == /\ producers'[p] = NoEntry
                         /\ At(ProducerCleanup(p), "remove")
<1>1. \A p \in Producers : producers[p] \in ProducerEntry
  BY DEF RegistryOK
<1>2. SUFFICES ASSUME NEW p \in Producers PROVE Kept(p) \/ Left(p) \/ Cleared(p)
  BY DEF Vacant, Registered
<1>3. ASSUME NEW q \in Producers, NEW e, e.state # "none", update(q, e)
      PROVE  Kept(p) \/ Left(p)
  BY <1>3 DEF update, transition_entries, RegistryOK
<1>4. CASE UNCHANGED regVars
  BY <1>4 DEF regVars
<1>5. ASSUME NEW q \in Producers, register_producer(q)
      PROVE  Kept(p) \/ Left(p)
  BY <1>5 DEF register_producer, transition_entries, NoEntry, RegistryOK
<1>6. ASSUME NEW q \in Producers, remove_producer(q),
             At(ProducerCleanup(q), "remove")
      PROVE  Left(p) \/ Cleared(p)
  BY <1>6 DEF remove_producer, RegistryOK
<1>7. ASSUME NEW q \in Producers, NEW s \in {"Idle", "Ready"}, set_state(q, s)
      PROVE  Kept(p) \/ Left(p)
  <2> DEFINE e == [producers[q] EXCEPT !.state = s]
  <2>1. e.state # "none" /\ update(q, e)
    BY <1>1, <1>7 DEF set_state, ProducerEntry
  <2> HIDE DEF e
  <2> QED  BY <1>3, <2>1
<1>8. ASSUME NEW q \in Producers, NEW c, mark_assigned(q, c)
      PROVE  Kept(p) \/ Left(p)
  <2> DEFINE e == [producers[q] EXCEPT !.state = "Busy", !.pending = c,
                                       !.expired = FALSE]
  <2>1. e.state # "none" /\ update(q, e)
    BY <1>1, <1>8 DEF mark_assigned, ProducerEntry
  <2> HIDE DEF e
  <2> QED  BY <1>3, <2>1
<1>9. ASSUME NEW q \in Producers,
             \/ mark_prdy(q) \/ clear_stale_busy(q) \/ take_pending_consumer(q)
             \/ record_report(q) \/ \E hb : record_heartbeat(q, hb)
      PROVE  Kept(p) \/ Left(p)
  <2>1. PICK e : update(q, e) /\ (Registered(q) => e.state # "none")
    <3>1. CASE mark_prdy(q)
      BY <1>1, <3>1 DEF mark_prdy, Registered, ProducerEntry
    <3>2. CASE clear_stale_busy(q)
      <4> DEFINE e == IF producers[q].state = "Busy"
                      THEN release_busy_entry(producers[q]) ELSE producers[q]
      <4>1. release_busy_entry(producers[q]).state = "Idle"
        BY <1>1 DEF release_busy_entry, ProducerEntry
      <4>2. update(q, e) /\ (Registered(q) => e.state # "none")
        BY <3>2, <4>1 DEF clear_stale_busy, Registered
      <4> HIDE DEF e
      <4> QED  BY <4>2
    <3>3. CASE take_pending_consumer(q)
      BY <1>1, <3>3 DEF take_pending_consumer, Registered, ProducerEntry
    <3>4. CASE record_report(q)
      <4> DEFINE e == [release_busy_entry(producers[q]) EXCEPT !.prdy = FALSE]
      <4>1. e.state = "Idle" /\ update(q, e)
        BY <1>1, <3>4 DEF record_report, release_busy_entry, ProducerEntry
      <4> HIDE DEF e
      <4> QED  BY <4>1
    <3>5. ASSUME NEW hb, record_heartbeat(q, hb)
          PROVE  \E e : update(q, e) /\ (Registered(q) => e.state # "none")
      <4>1. Registered(q) => heartbeat_entry(producers[q], hb).state # "none"
        BY <1>1 DEF heartbeat_entry, Registered, ProducerEntry,
                    release_busy_entry, promote_ready
      <4> QED  BY <3>5, <4>1 DEF record_heartbeat
    <3> QED  BY <1>9, <3>1, <3>2, <3>3, <3>4, <3>5
  <2> QED  BY <2>1 DEF update, transition_entries, RegistryOK
<1>10. ASSUME NEW q \in Producers, BusyExpires(q)
       PROVE  Kept(p) \/ Left(p)
  BY <1>1, <1>10 DEF BusyExpires, RegistryOK, ProducerEntry
<1>11. ASSUME NEW c \in Consumers, clear_assignments_to_consumer(c)
       PROVE  Kept(p) \/ Left(p)
  <2>1. p \in AssignedTo(c) => release_busy_entry(producers[p]).state = "Idle"
    BY <1>1 DEF release_busy_entry, ProducerEntry
  <2> QED  BY <1>11, <2>1 DEF clear_assignments_to_consumer, transition_entries
<1>12. ASSUME NEW cand
       PROVE  \/ Pruned(cand)[p].state # "none" \/ Pruned(cand)[p] = producers[p]
  <2>1. CASE Registered(p)
    BY <1>1, <2>1 DEF Pruned, Registered, ProducerEntry
  <2>2. CASE ~Registered(p)
    <3>1. producers[p] = NoEntry
      BY <2>2 DEF Vacant
    <3>2. NoEntry.state = "none" /\ NoEntry.prdy = FALSE
      BY DEF NoEntry
    <3>3. \A e \in ProducerEntry :
              e.state = "none" /\ e.prdy = FALSE
              => [e EXCEPT !.prdy = FALSE,
                           !.state = IF @ = "Ready" THEN "Idle" ELSE @] = e
      BY DEF ProducerEntry
    <3> QED  BY <1>1, <3>1, <3>2, <3>3 DEF Pruned
  <2> QED  BY <2>1, <2>2
<1>13. ASSUME NEW cand,
              rank_ready_candidates(cand) \/ sync_matcher_ready_state(cand)
       PROVE  Kept(p) \/ Left(p)
  <2>1. promote_ready(Pruned(cand)[p]).state = "Ready"
    BY PrunedType DEF promote_ready, ProducerEntry
  <2> QED  BY <1>12, <1>13, <2>1 DEF rank_ready_candidates,
               sync_matcher_ready_state, transition_entries
<1> QED
  BY <1>4, <1>5, <1>6, <1>7, <1>8, <1>9, <1>10, <1>11, <1>13 DEF RegistryCall

-----------------------------------------------------------------------------
(* The steps of PullService.                                               *)

\* A step PullService can take, with the ASGNs accounted for.
PullStep == [Pull!Next]_(Pull!vars)
Serves   == Charged /\ PullStep

LEMMA SameService ==
    ASSUME UNCHANGED <<asgn, granted, crdy, cycles>>
    PROVE  PullStep
  BY DEF PullStep, Pull!vars

LEMMA ChargedFramed ==
    ASSUME TypeOK, NEW t \in Tasks, NEW r, Become(t, r), NoneBooked,
           UNCHANGED granted, r.pc # "mark_assigned",
           r.pc \in OwePc => \/ task[t].pc \in OwePc /\ r.c = task[t].c
                             \/ \A p \in Producers : t # ProducerCleanup(p)
    PROVE  Charged
<1>1. ASSUME NEW c \in Consumers PROVE Settled(c)
  <2>1. Owes(t, r, c) => Owes(t, task[t], c)
    BY DEF Owes
  <2>2. Owing(c)' \subseteq Owing(c)
    BY <2>1, OwingMoved
  <2> QED  BY <2>2, NoneBookedShrinks DEF Settled
<1> QED  BY <1>1 DEF Charged

LEMMA ServesFramed ==
    ASSUME TypeOK, NEW t \in Tasks, NEW r, Become(t, r), NoneBooked,
           UNCHANGED <<asgn, granted, crdy, cycles>>, r.pc # "mark_assigned",
           r.pc \in OwePc => \/ task[t].pc \in OwePc /\ r.c = task[t].c
                             \/ \A p \in Producers : t # ProducerCleanup(p)
    PROVE  Serves
  BY ChargedFramed, SameService DEF Serves

LEMMA ServesGo ==
    ASSUME TypeOK, NEW t \in Tasks, NEW l, Go(t, l), NoneBooked,
           UNCHANGED <<asgn, granted, crdy, cycles>>, l # "mark_assigned",
           l \in OwePc => \/ task[t].pc \in OwePc
                          \/ \A p \in Producers : t # ProducerCleanup(p)
    PROVE  Serves
<1>1. task[t] \in Task
  BY TaskLocals DEF TypeOK
<1>2. /\ [task[t] EXCEPT !.pc = l].pc = l
      /\ [task[t] EXCEPT !.pc = l].c = task[t].c
  BY <1>1 DEF Task
<1> QED  BY <1>2, ServesFramed DEF Go

LEMMA ServesRest ==
    ASSUME TypeOK, NEW t \in Tasks, NEW l, Rest(t, l), NoneBooked,
           UNCHANGED <<asgn, granted, crdy, cycles>>,
           l \notin OwePc, l # "mark_assigned"
    PROVE  Serves
<1>1. AtRest(l).pc = l
  BY DEF AtRest
<1> QED  BY <1>1, ServesFramed DEF Rest

\* credit of PullService, when granted changes at x.
LEMMA CreditChange ==
    ASSUME TypeOK, UNCHANGED <<crdy, cycles>>, NEW x \in Consumers
    PROVE  /\ Grant(x) => [c \in Consumers |-> cycles[c] - crdy[c] - granted[c]]'
             = [[c \in Consumers |-> cycles[c] - crdy[c] - granted[c]]
                EXCEPT ![x] = @ - 1]
           /\ Revoke(x) => [c \in Consumers |-> cycles[c] - crdy[c] - granted[c]]'
             = [[c \in Consumers |-> cycles[c] - crdy[c] - granted[c]]
                EXCEPT ![x] = @ + 1]
<1>1. \A c \in Consumers :
        /\ Grant(x) => granted'[c] = IF c = x THEN granted[c] + 1 ELSE granted[c]
        /\ Revoke(x) => granted'[c] = IF c = x THEN granted[c] - 1 ELSE granted[c]
  BY DEF TypeOK, WireOK, Grant, Revoke
<1>2. \A c \in Consumers : cycles[c] \in Int /\ crdy[c] \in Int /\ granted[c] \in Int
  BY PullTypes
<1>3. \A c \in Consumers :
        LET v == cycles[c] - crdy[c] - granted[c]
            u == cycles'[c] - crdy'[c] - granted'[c]
        IN  /\ Grant(x) => u = IF c = x THEN v - 1 ELSE v
            /\ Revoke(x) => u = IF c = x THEN v + 1 ELSE v
  BY <1>1, <1>2
<1> QED  BY <1>3

\* An ASGN is written: Budget says that it answers a CRDY that is open.
LEMMA AnswerStep ==
    ASSUME PullInv, NEW t \in Tasks,
           SendAssign(t) \/ SendAssignLost(t), UNCHANGED <<crdy, cycles>>
    PROVE  Serves
<1> DEFINE r == [task[t] EXCEPT !.pc = "mark_assigned"]
<1>0. PICK x : x = task[t].c
  OBVIOUS
<1>1. /\ TypeOK /\ task[t] \in Task
      /\ task[t].pc \in NeedsPair => /\ task[t].p \in Producers
                                     /\ task[t].c \in Consumers
  BY TaskLocals DEF PullInv, TypeOK
<1>2. /\ task[t].pc = "send" /\ Grant(x) /\ Become(t, r) /\ UNCHANGED regVars
      /\ \/ asgn' = [asgn EXCEPT ![task[t].p] = Append(@, x)]
         \/ UNCHANGED asgn
  BY <1>0 DEF SendAssign, SendAssignLost, At, Go
<1>3. x \in Consumers /\ task[t].p \in Producers
  BY <1>0, <1>1, <1>2 DEF NeedsPair
<1>4. r.c = x
  BY <1>0, <1>1 DEF Task
<1> HIDE DEF r
<1>5. Charged
  <2>1. /\ granted'[x] = granted[x] + 1
        /\ \A c \in Consumers : c # x => granted'[c] = granted[c]
    BY <1>1, <1>2, <1>3 DEF Grant, TypeOK, WireOK
  <2>2. NoneBooked
    BY <1>1, <1>2, <1>3, RegistryBooks DEF TypeOK
  <2>3. ASSUME NEW c \in Consumers PROVE Settled(c) \/ Writes(t, c)
    <3>1. CASE c = x
      BY <1>1, <1>2, <2>1, <2>2, <3>1, OwingMoved, NoneBookedShrinks DEF Writes
    <3>2. CASE c # x
      <4>1. ~Owes(t, r, c)
        BY <1>4, <3>2 DEF Owes
      <4>2. Owing(c)' \subseteq Owing(c)
        BY <1>1, <1>2, <4>1, OwingMoved
      <4> QED  BY <2>1, <2>2, <3>2, <4>2, NoneBookedShrinks DEF Settled
    <3> QED  BY <3>1, <3>2
  <2> QED  BY <2>3 DEF Charged
<1>6. cycles[x] - crdy[x] - granted[x] > 0
  <2>1. t \in Holders(x)
    BY <1>0, <1>2 DEF Holders, Holds
  <2>2. Cardinality(Holders(x)) \in Nat /\ Cardinality(Holders(x)) # 0
    BY <1>1, <1>3, <2>1, PullTypes, FS_EmptySet
  <2>3. Occurs(waiting, x) + Cardinality(Holders(x)) + granted[x]
            <= cycles[x] - crdy[x]
    BY <1>3 DEF PullInv, Budget
  <2>4. /\ Occurs(waiting, x) \in Nat /\ granted[x] \in Int
        /\ cycles[x] \in Nat /\ crdy[x] \in Nat
    BY <1>1, <1>3, PullTypes
  <2>5. \A n, h \in Nat : \A g, u \in Int : h # 0 /\ n + h + g <= u => u - g > 0
    OBVIOUS
  <2> QED  BY <2>2, <2>3, <2>4, <2>5
<1>7. Pull!Answer(x)
  <2>1. granted' = [granted EXCEPT ![x] = @ + 1]
    BY <1>2 DEF Grant
  <2>2. [c \in Consumers |-> cycles[c] - crdy[c] - granted[c]]'
          = [[c \in Consumers |-> cycles[c] - crdy[c] - granted[c]]
             EXCEPT ![x] = @ - 1]
    BY <1>1, <1>2, <1>3, CreditChange
  <2>3. [c \in Consumers |-> cycles[c] - crdy[c] - granted[c]][x] > 0
    BY <1>3, <1>6
  <2> QED  BY <1>2, <1>3, <2>1, <2>2, <2>3 DEF Pull!Answer
<1> QED  BY <1>3, <1>5, <1>7 DEF Serves, PullStep, Pull!Next

LEMMA MatcherServes ==
    ASSUME PullInv, NEW t \in Tasks, MatcherStep(t)
    PROVE  Serves
<1>1. /\ TypeOK /\ RegistryOK /\ task[t] \in Task
      /\ task[t].pc \in NeedsPair => /\ task[t].p \in Producers
                                     /\ task[t].c \in Consumers
      /\ UNCHANGED <<crdy, cycles>>
  BY TaskLocals DEF PullInv, TypeOK, MatcherStep, clientVars
<1>2. CASE SendAssign(t) \/ SendAssignLost(t)
  BY <1>1, <1>2, AnswerStep
<1>3. CASE MarkAssigned(t)
  <2> DEFINE r == [task[t] EXCEPT !.pc = "stale_read"]
             e == [producers[task[t].p] EXCEPT !.state = "Busy",
                        !.pending = task[t].c, !.expired = FALSE]
  <2>1. /\ task[t].pc = "mark_assigned" /\ Become(t, r) /\ update(task[t].p, e)
        /\ UNCHANGED <<asgn, granted, crdy, cycles>>
    BY <1>1, <1>3 DEF MarkAssigned, At, Go, mark_assigned
  <2>2. task[t].p \in Producers /\ task[t].c \in Consumers
    BY <1>1, <2>1 DEF NeedsPair
  <2>3. r.pc = "stale_read" /\ e.pending = task[t].c
    BY <1>1, <2>2 DEF Task, RegistryOK, ProducerEntry
  <2> HIDE DEF r, e
  <2>4. \A q \in Producers :
            producers'[q].pending =
                IF q = task[t].p /\ Registered(q) THEN task[t].c
                                                  ELSE producers[q].pending
    BY <1>1, <2>1, <2>3 DEF update, transition_entries, RegistryOK
  <2>5. ASSUME NEW c \in Consumers
        PROVE  Settled(c) \/ Books(t, task[t].p, c)
    <3>1. Owing(c)' \subseteq Owing(c) \ {t}
      BY <1>1, <2>1, <2>3, OwingMoved DEF Owes, OwePc
    <3>2. CASE c = task[t].c
      <4>1. t \in Owing(c)
        BY <2>1, <3>2 DEF Owing, Owes
      <4>2. AssignedTo(c)' \subseteq AssignedTo(c) \cup {task[t].p}
        BY <2>4 DEF AssignedTo
      <4> QED  BY <2>1, <3>1, <4>1, <4>2 DEF Books
    <3>3. CASE c # task[t].c
      <4>1. AssignedTo(c)' \subseteq AssignedTo(c)
        BY <2>4, <3>3 DEF AssignedTo
      <4> QED  BY <2>1, <3>1, <4>1 DEF Settled
    <3> QED  BY <3>2, <3>3
  <2>6. PICK p : p = task[t].p
    OBVIOUS
  <2>7. \A c \in Consumers : Settled(c) \/ Books(t, p, c)
    BY <2>5, <2>6 DEF Books
  <2> QED  BY <2>1, <2>7, SameService DEF Serves, Charged
<1>4. CASE /\ ~(SendAssign(t) \/ SendAssignLost(t)) /\ ~MarkAssigned(t)
           /\ MatcherStep(t)
  <2>1. PICK r : /\ Become(t, r) /\ r.pc \in MatchPc \cup {Caller(t)}
                 /\ r.pc # "mark_assigned"
    BY <1>1, <1>4, MatcherPlace
  <2>2. r.pc \notin OwePc
    BY <2>1 DEF MatchPc, Caller, OwePc
  <2>3. /\ UNCHANGED <<asgn, granted>>
        /\ \/ UNCHANGED regVars
           \/ rank_ready_candidates(task[t].cand)
           \/ set_state(task[t].p, "Idle") /\ task[t].pc = "send_failed"
    BY <1>4 DEF MatcherStep, TryMatch, Peek, Rank, TakePair, SendAssignFails,
        SendFailedIdle, Requeue, StaleRead, StaleRelease, StaleIndex,
        MarkAwaiting, Track, At
  <2>4. NoneBooked
    <3>1. CASE UNCHANGED regVars
      BY <3>1 DEF regVars, NoneBooked
    <3>2. CASE rank_ready_candidates(task[t].cand)
      BY <1>1, <3>2, NoneRanked
    <3>3. CASE set_state(task[t].p, "Idle") /\ task[t].pc = "send_failed"
      BY <1>1, <3>3, RegistryBooks DEF NeedsPair
    <3> QED  BY <2>3, <3>1, <3>2, <3>3
  <2> QED  BY <1>1, <2>1, <2>2, <2>3, <2>4, ServesFramed
<1> QED  BY <1>2, <1>3, <1>4

LEMMA SharedServes ==
    ASSUME TypeOK, NEW t \in Tasks, Untrack(t) \/ PhaseTake(t)
    PROVE  Serves
<1>1. /\ task[t] \in Task
      /\ task[t].pc = "untrack"
         => task[t].next \in {"cycle_set", "phase_set", "record", "end"}
  BY TaskLocals DEF TypeOK
<1>2. /\ UNCHANGED <<asgn, granted, crdy, cycles, regVars>>
      /\ task[t].pc \in {"untrack", "phase_take"}
  BY DEF Untrack, PhaseTake, At, envVars, clientVars
<1>3. NoneBooked
  BY <1>2 DEF NoneBooked, regVars
<1>4. \E r : /\ Become(t, r) /\ r.c = task[t].c
             /\ r.pc \in {"untrack", "cycle_set", "phase_set", "record", "end"}
  <2>1. CASE Untrack(t)
    <3> DEFINE r == [task[t] EXCEPT !.pc = task[t].next, !.next = "off",
                                    !.p = None]
    <3>1. Become(t, r) /\ task[t].pc = "untrack"
      BY <2>1 DEF Untrack, At
    <3>2. r.pc = task[t].next /\ r.c = task[t].c
      BY <1>1 DEF Task
    <3> HIDE DEF r
    <3> QED  BY <1>1, <3>1, <3>2
  <2>2. CASE PhaseTake(t)
    <3> DEFINE pid == consumers[task[t].c].assigned
               r == [task[t] EXCEPT !.c = task[t].c, !.p = pid,
                        !.next = IF pid = None THEN "off" ELSE "phase_set",
                        !.pc = IF pid = None THEN "phase_set" ELSE "untrack"]
    <3>1. Become(t, r)
      BY <2>2 DEF PhaseTake, GoUntrack
    <3>2. r.pc \in {"phase_set", "untrack"} /\ r.c = task[t].c
      BY <1>1 DEF Task
    <3> HIDE DEF r
    <3> QED  BY <3>1, <3>2
  <2> QED  BY <2>1, <2>2
<1> QED  BY <1>2, <1>3, <1>4, ServesFramed DEF OwePc

LEMMA ServesEof ==
    ASSUME TypeOK, NEW t \in Tasks, NEW u \in Tasks,
           NEW l \in {"unpool", "cancel"}, UNCHANGED regVars,
           UNCHANGED <<asgn, granted, crdy, cycles>>,
           task' = [task EXCEPT ![t] = AtRest("end"), ![u] = AtRest(l)]
    PROVE  Serves
<1>1. /\ \A v \in Tasks : v # t /\ v # u => task'[v] = task[v]
      /\ task'[u] = AtRest(l) /\ (t # u => task'[t] = AtRest("end"))
  BY DEF TypeOK, TasksOK
<1>2. \A v, c : ~Owes(v, AtRest("end"), c) /\ ~Owes(v, AtRest(l), c)
  BY DEF Owes, AtRest, OwePc
<1>3. NoneBooked
  BY DEF NoneBooked, regVars
<1>4. ASSUME NEW c \in Consumers PROVE Settled(c)
  <2>1. Owing(c)' = {v \in Tasks : Owes(v, task'[v], c)}
    BY DEF Owing, Owes
  <2>2. Owing(c)' \subseteq Owing(c)
    BY <1>1, <1>2, <2>1 DEF Owing
  <2> QED  BY <1>3, <2>2, NoneBookedShrinks DEF Settled
<1> QED  BY <1>4, SameService DEF Serves, Charged

LEMMA ProducerHandlerServes ==
    ASSUME PullInv, NEW p \in Producers, ProducerHandlerStep(p)
    PROVE  Serves
<1> DEFINE t == ProducerHandler(p)
<1>1. /\ TypeOK /\ RegistryOK /\ t \in Tasks /\ task[t] \in Task
      /\ \A q \in Producers : t # ProducerCleanup(q)
  BY TaskNames, TaskLocals
  DEF PullInv, TypeOK, ProducerHandler, ProducerCleanup
<1>2. CASE MatcherStep(t) \/ Untrack(t) \/ PhaseTake(t)
  BY <1>1, <1>2, MatcherServes, SharedServes
<1>3. CASE RegisterProducer(p) \/ ReadPrdy(p) \/ ClearStaleBusy(p)
            \/ MarkPrdy(p) \/ EnsureInPool(p) \/ SetReady(p)
            \/ ReadHeartbeat(p) \/ HeartbeatState(p) \/ HeartbeatWaiting(p)
            \/ DoneState(p) \/ DonePool(p) \/ DeliveryFailed(p)
  <2>1. /\ UNCHANGED <<asgn, granted, crdy, cycles>>
        /\ \E l \in {"read", "clear_stale_busy", "remark_prdy", "mark_prdy",
                     "pool_prdy", "pool", "set_ready", "peek", "hb_state",
                     "hb_waiting", "done_pool", "record"} : Go(t, l)
    BY <1>3 DEF RegisterProducer, ReadPrdy, ClearStaleBusy, MarkPrdy,
                EnsureInPool, SetReady, ReadHeartbeat, HeartbeatState,
                HeartbeatWaiting, DoneState, DonePool, DeliveryFailed,
                envVars, clientVars
  <2>2. \/ UNCHANGED regVars \/ register_producer(p) \/ clear_stale_busy(p)
        \/ mark_prdy(p) \/ \E s : set_state(p, s)
        \/ \E hb : record_heartbeat(p, hb)
    BY <1>3 DEF RegisterProducer, ReadPrdy, ClearStaleBusy, MarkPrdy,
                EnsureInPool, SetReady, ReadHeartbeat, HeartbeatState,
                HeartbeatWaiting, DoneState, DonePool, DeliveryFailed
  <2>3. NoneBooked
    BY <1>1, <2>2, RegistryBooks
  <2> QED  BY <1>1, <2>1, <2>3, ServesGo
<1>4. CASE ReadReport(p)
  <2>1. /\ UNCHANGED <<asgn, granted, crdy, cycles>> /\ take_pending_consumer(p)
        /\ \E l \in {"find", "finish", "phase_take"} : \E c, ok, n :
              Become(t, [AtRest(l) EXCEPT !.c = c, !.ok = ok, !.n = n])
    BY <1>4 DEF ReadReport
  <2>2. \A l, c, ok, n :
            [AtRest(l) EXCEPT !.c = c, !.ok = ok, !.n = n].pc = l
    BY DEF AtRest
  <2>3. NoneBooked
    BY <1>1, <2>1, RegistryBooks
  <2> QED  BY <1>1, <2>1, <2>2, <2>3, ServesFramed
<1>5. CASE FindAssigned(p)
  <2>1. /\ UNCHANGED <<asgn, granted, crdy, cycles>> /\ UNCHANGED regVars
        /\ \/ Go(t, "record")
           \/ \E l \in {"finish", "phase_take"} : \E c :
                 Become(t, [task[t] EXCEPT !.c = c, !.pc = l])
    BY <1>5 DEF FindAssigned, envVars, clientVars
  <2>2. \A l, c : [task[t] EXCEPT !.c = c, !.pc = l].pc = l
    BY <1>1 DEF Task
  <2>3. \/ Go(t, "record")
        \/ \E r : Become(t, r) /\ r.pc \in {"finish", "phase_take"}
    BY <2>1, <2>2
  <2>4. NoneBooked
    BY <1>1, <2>1, RegistryBooks
  <2> QED  BY <1>1, <2>1, <2>3, <2>4, ServesGo, ServesFramed
<1>6. CASE FinishBatch(p)
  <2>1. /\ UNCHANGED <<asgn, granted, crdy, cycles>> /\ UNCHANGED regVars
        /\ GoUntrack(t, consumers[task[t].c].assigned, task[t].c, "record")
    BY <1>6 DEF FinishBatch, envVars, clientVars
  <2>2. PICK r : Become(t, r) /\ r.pc \in {"record", "untrack"}
    BY <1>1, <2>1, GoUntrackPlace
  <2>3. NoneBooked
    BY <1>1, <2>1, RegistryBooks
  <2> QED  BY <1>1, <2>1, <2>2, <2>3, ServesFramed
<1>7. CASE RecordReport(p)
  <2>1. /\ UNCHANGED <<asgn, granted, crdy, cycles>> /\ record_report(p)
        /\ Rest(t, "done_state")
    BY <1>7 DEF RecordReport, envVars, clientVars
  <2>2. NoneBooked
    BY <1>1, <2>1, RegistryBooks
  <2> QED  BY <1>1, <2>1, <2>2, ServesRest DEF OwePc
<1>8. CASE ProducerEof(p)
  <2>1. /\ UNCHANGED <<asgn, granted, crdy, cycles>> /\ UNCHANGED regVars
        /\ task' = [task EXCEPT ![t] = AtRest("end"),
                                ![ProducerCleanup(p)] = AtRest("unpool")]
    BY <1>8 DEF ProducerEof, envVars, clientVars
  <2> QED  BY <1>1, <2>1, TaskNames, ServesEof
<1> QED
  BY <1>2, <1>3, <1>4, <1>5, <1>6, <1>7, <1>8 DEF ProducerHandlerStep

\* The cleanup of a producer gives the request back that its entry stood for.
LEMMA ProducerCleanupServes ==
    ASSUME PullInv, Vacant, Covered, NEW p \in Producers, ProducerCleanupStep(p)
    PROVE  Serves
<1> DEFINE t == ProducerCleanup(p)
<1>1. /\ TypeOK /\ RegistryOK /\ t \in Tasks /\ task[t] \in Task
      /\ task[t].pc \in NeedsConsumer => task[t].c \in Consumers
  BY TaskNames, TaskLocals DEF PullInv, TypeOK
<1>2. CASE MatcherStep(t) \/ Untrack(t) \/ PhaseTake(t)
  BY <1>1, <1>2, MatcherServes, SharedServes
<1>3. CASE Unpool(p) \/ RequeueCheck(p) \/ RequeuePhase(p)
  <2>1. /\ UNCHANGED <<asgn, granted, crdy, cycles>> /\ UNCHANGED regVars
        /\ \/ \E l \in {"take_pending", "remove"} : Go(t, l)
           \/ Go(t, "phase_take") /\ task[t].pc = "requeue_check"
           \/ Go(t, "enqueue") /\ task[t].pc = "phase_set"
    BY <1>3 DEF Unpool, RequeueCheck, RequeuePhase, At, envVars, clientVars
  <2>2. NoneBooked
    BY <1>1, <2>1, RegistryBooks
  <2> QED  BY <1>1, <2>1, <2>2, ServesGo DEF OwePc
<1>4. CASE TakePending(p)
  <2>0. PICK x : x = producers[p].pending
    OBVIOUS
  <2> DEFINE r == [AtRest(IF x = None THEN "remove" ELSE "requeue_check")
                   EXCEPT !.c = x]
             e == [producers[p] EXCEPT !.pending = None]
  <2>1. /\ UNCHANGED <<asgn, granted, crdy, cycles>> /\ Become(t, r)
        /\ update(p, e)
    BY <1>4, <2>0 DEF TakePending, take_pending_consumer, envVars, clientVars
  <2>2. /\ r.pc \in {"remove", "requeue_check"} /\ r.c = x
        /\ r.pc = "requeue_check" => x # None
        /\ e.pending = None
    BY <1>1 DEF AtRest, RegistryOK, ProducerEntry
  <2> HIDE DEF r, e
  <2>3. NoneBooked
    BY <1>1, <1>4, RegistryBooks DEF TakePending
  <2>4. x # None => Registered(p)
    BY <2>0 DEF Vacant, NoEntry
  <2>5. ASSUME NEW c \in Consumers PROVE Settled(c) \/ Unbooks(t, p, c)
    <3>1. CASE c = x
      <4>1. p \in AssignedTo(c) /\ c # None
        BY <2>0, <3>1, IdAssumption DEF AssignedTo, None
      <4>2. producers'[p].pending = None
        BY <1>1, <2>1, <2>2, <2>4, <3>1, <4>1
        DEF update, transition_entries, RegistryOK
      <4>3. AssignedTo(c)' \subseteq AssignedTo(c) \ {p}
        BY <2>3, <4>1, <4>2, NoneBookedShrinks DEF AssignedTo
      <4> QED  BY <1>1, <2>1, <4>1, <4>3, OwingMoved DEF Unbooks
    <3>2. CASE c # x
      <4>1. ~Owes(t, r, c)
        BY <2>2, <3>2 DEF Owes
      <4> QED  BY <1>1, <2>1, <2>3, <4>1, OwingMoved, NoneBookedShrinks
               DEF Settled
    <3> QED  BY <3>1, <3>2
  <2> QED  BY <2>1, <2>5, SameService DEF Serves, Charged
<1>5. CASE RequeueConsumer(p)
  <2>0. PICK x : x = task[t].c
    OBVIOUS
  <2>1. /\ Revoke(x) /\ Become(t, AtRest("remove")) /\ task[t].pc = "enqueue"
        /\ UNCHANGED <<asgn, crdy, cycles>> /\ UNCHANGED regVars
    BY <1>5, <2>0 DEF RequeueConsumer, Enqueue, At, Rest, clientVars
  <2>2. x \in Consumers /\ t \in Owing(x)
    BY <1>1, <2>0, <2>1 DEF NeedsConsumer, Owing, Owes, OwePc
  <2>3. /\ granted'[x] = granted[x] - 1
        /\ \A c \in Consumers : c # x => granted'[c] = granted[c]
    BY <1>1, <2>1, <2>2 DEF Revoke, TypeOK, WireOK
  <2>4. NoneBooked
    BY <1>1, <2>1, RegistryBooks
  <2>5. ASSUME NEW c \in Consumers PROVE Settled(c) \/ Returns(t, c)
    <3>1. ~Owes(t, AtRest("remove"), c)
      BY DEF Owes, AtRest, OwePc
    <3>2. Owing(c)' \subseteq Owing(c) \ {t}
      BY <1>1, <2>1, <3>1, OwingMoved
    <3> QED  BY <2>2, <2>3, <2>4, <3>2, NoneBookedShrinks DEF Settled, Returns
  <2>6. granted[x] > 0
    <3>1. /\ Cardinality(Owing(x)) \in Nat /\ Cardinality(Owing(x)) # 0
          /\ Cardinality(AssignedTo(x)) \in Nat /\ granted[x] \in Int
      BY <1>1, <2>2, CoverTypes, FS_EmptySet
    <3>2. Cardinality(AssignedTo(x)) + Cardinality(Owing(x)) <= granted[x]
      BY <2>2 DEF Covered
    <3>3. \A a, o \in Nat : \A g \in Int : o # 0 /\ a + o <= g => g > 0
      OBVIOUS
    <3> QED  BY <3>1, <3>2, <3>3
  <2>7. Pull!GiveBack(x)
    <3>1. [c \in Consumers |-> cycles[c] - crdy[c] - granted[c]]'
            = [[c \in Consumers |-> cycles[c] - crdy[c] - granted[c]]
               EXCEPT ![x] = @ + 1]
      BY <1>1, <2>1, <2>2, CreditChange
    <3> QED  BY <2>1, <2>6, <3>1 DEF Pull!GiveBack, Revoke
  <2>8. Pull!Next
    BY <2>2, <2>7 DEF Pull!Next
  <2> QED  BY <2>5, <2>8 DEF Serves, Charged, PullStep
<1>6. CASE RemoveProducer(p)
  <2>1. /\ UNCHANGED <<asgn, granted, crdy, cycles>> /\ remove_producer(p)
        /\ Rest(t, "peek")
    BY <1>6 DEF RemoveProducer, envVars, clientVars
  <2>2. NoneBooked
    BY <1>1, <2>1, RegistryBooks
  <2> QED  BY <1>1, <2>1, <2>2, ServesRest DEF OwePc
<1> QED  BY <1>2, <1>3, <1>4, <1>5, <1>6 DEF ProducerCleanupStep

LEMMA ConsumerHandlerServes ==
    ASSUME PullInv, NEW c \in Consumers, ConsumerHandlerStep(c)
    PROVE  Serves
<1> DEFINE t == ConsumerHandler(c)
<1>1. /\ TypeOK /\ RegistryOK /\ t \in Tasks /\ task[t] \in Task
      /\ \A p \in Producers : t # ProducerCleanup(p)
  BY TaskNames, TaskLocals
  DEF PullInv, TypeOK, ConsumerHandler, ProducerCleanup
<1>2. CASE MatcherStep(t) \/ Untrack(t)
  BY <1>1, <1>2, MatcherServes, SharedServes
<1>3. CASE ~(MatcherStep(t) \/ Untrack(t))
  <2>1. UNCHANGED regVars /\ UNCHANGED <<asgn, granted>>
    BY <1>3 DEF ConsumerHandlerStep, ReadCrdy, CycleSet, EnqueueConsumer,
                Enqueue, ConsumerEof, envVars
  <2>2. NoneBooked
    BY <2>1 DEF NoneBooked, regVars
  <2>3. CASE ReadCrdy(c)
    <3>1. /\ UNCHANGED cycles /\ crdy' = [crdy EXCEPT ![c] = @ - 1]
          /\ GoUntrack(t, consumers[c].assigned, c, "cycle_set")
      BY <2>3 DEF ReadCrdy
    <3>2. PICK r : Become(t, r) /\ r.pc \in {"cycle_set", "untrack"}
      BY <1>1, <3>1, GoUntrackPlace
    <3>3. Charged
      BY <1>1, <2>1, <2>2, <3>2, ChargedFramed
    <3>4. Pull!Ask(c)
      <4>1. \A d \in Consumers : cycles'[d] - crdy'[d] - granted'[d]
                = IF d = c THEN cycles[d] - crdy[d] - granted[d] + 1
                           ELSE cycles[d] - crdy[d] - granted[d]
        BY <1>1, <2>1, <3>1 DEF TypeOK, ClientsOK, WireOK
      <4> QED  BY <2>1, <4>1 DEF Pull!Ask
    <3> QED  BY <3>3, <3>4 DEF Serves, PullStep, Pull!Next
  <2>4. CASE CycleSet(c)
    <3> DEFINE r == [AtRest("enqueue") EXCEPT !.c = c]
    <3>1. UNCHANGED <<asgn, granted, crdy, cycles>> /\ Become(t, r)
      BY <2>4 DEF CycleSet, envVars, clientVars
    <3>2. r.pc = "enqueue"
      BY DEF AtRest
    <3> HIDE DEF r
    <3> QED  BY <1>1, <2>2, <3>1, <3>2, ServesFramed
  <2>5. CASE EnqueueConsumer(c)
    <3>1. UNCHANGED <<asgn, granted, crdy, cycles>> /\ Rest(t, "peek")
      BY <2>5 DEF EnqueueConsumer, Enqueue, clientVars
    <3> QED  BY <1>1, <2>2, <3>1, ServesRest DEF OwePc
  <2>6. CASE ConsumerEof(c)
    <3>1. /\ UNCHANGED <<asgn, granted, crdy, cycles>>
          /\ task' = [task EXCEPT ![t] = AtRest("end"),
                                  ![ConsumerCleanup(c)] = AtRest("cancel")]
      BY <2>6 DEF ConsumerEof, envVars, clientVars
    <3> QED  BY <1>1, <2>1, <3>1, TaskNames, ServesEof
  <2> QED  BY <1>3, <2>3, <2>4, <2>5, <2>6 DEF ConsumerHandlerStep
<1> QED  BY <1>2, <1>3

LEMMA ConsumerCleanupServes ==
    ASSUME PullInv, NEW c \in Consumers, ConsumerCleanupStep(c)
    PROVE  Serves
<1> DEFINE t == ConsumerCleanup(c)
<1>1. /\ TypeOK /\ RegistryOK /\ t \in Tasks /\ task[t] \in Task
      /\ \A p \in Producers : t # ProducerCleanup(p)
  BY TaskNames, TaskLocals
  DEF PullInv, TypeOK, ConsumerCleanup, ProducerCleanup
<1>2. CASE MatcherStep(t) \/ Untrack(t)
  BY <1>1, <1>2, MatcherServes, SharedServes
<1>3. CASE CancelConsumer(c) \/ ClearAssignments(c)
  <2>1. /\ UNCHANGED <<asgn, granted, crdy, cycles>>
        /\ \E l \in {"clear", "peek", "unregister"} : Go(t, l)
        /\ UNCHANGED regVars \/ clear_assignments_to_consumer(c)
    BY <1>3 DEF CancelConsumer, ClearAssignments, envVars, clientVars
  <2>2. NoneBooked
    <3>1. CASE UNCHANGED regVars
      BY <3>1 DEF NoneBooked, regVars
    <3>2. CASE clear_assignments_to_consumer(c)
      BY <1>1, <3>2, NoneCleared
    <3> QED  BY <2>1, <3>1, <3>2
  <2> QED  BY <1>1, <2>1, <2>2, ServesGo DEF OwePc
<1>4. CASE Unregister(c)
  <2>1. /\ UNCHANGED <<asgn, granted, crdy, cycles>> /\ UNCHANGED regVars
        /\ GoUntrack(t, consumers[c].assigned, c, "end")
    BY <1>4 DEF Unregister, envVars, clientVars
  <2>2. PICK r : Become(t, r) /\ r.pc \in {"end", "untrack"}
    BY <1>1, <2>1, GoUntrackPlace
  <2>3. NoneBooked
    BY <2>1 DEF NoneBooked, regVars
  <2> QED  BY <1>1, <2>1, <2>2, <2>3, ServesFramed
<1> QED  BY <1>2, <1>3, <1>4 DEF ConsumerCleanupStep

LEMMA MatchLoopServes ==
    ASSUME PullInv, MatchLoopStep
    PROVE  Serves
<1> DEFINE t == MatchLoop
<1>1. TypeOK /\ RegistryOK /\ t \in Tasks
  BY TaskNames DEF PullInv, TypeOK
<1>2. CASE MatcherStep(t)
  BY <1>1, <1>2, MatcherServes
<1>3. CASE Tick \/ SyncApply
  <2>1. /\ UNCHANGED <<asgn, granted, crdy, cycles>> /\ UNCHANGED regVars
        /\ \/ \E l \in {"tick", "sync_read"} : Go(t, l)
           \/ Rest(t, "peek")
    BY <1>3 DEF Tick, SyncApply, envVars, clientVars
  <2>2. NoneBooked
    BY <2>1 DEF NoneBooked, regVars
  <2> QED  BY <1>1, <2>1, <2>2, ServesGo, ServesRest DEF OwePc
<1>4. CASE SyncRead \/ SyncRegistry
  <2>1. /\ UNCHANGED <<asgn, granted, crdy, cycles>>
        /\ \E cand, stale :
             \/ Become(t, [AtRest("sync_registry") EXCEPT !.cand = cand])
             \/ Become(t, [AtRest("sync_apply") EXCEPT !.cand = cand,
                                                       !.stale = stale])
        /\ UNCHANGED regVars \/ sync_matcher_ready_state(task[t].cand)
    BY <1>4 DEF SyncRead, SyncRegistry, envVars, clientVars
  <2>2. \A cand, stale :
          /\ [AtRest("sync_registry") EXCEPT !.cand = cand].pc
                = "sync_registry"
          /\ [AtRest("sync_apply") EXCEPT !.cand = cand, !.stale = stale].pc
                = "sync_apply"
    BY DEF AtRest
  <2>3. NoneBooked
    <3>1. CASE UNCHANGED regVars
      BY <3>1 DEF NoneBooked, regVars
    <3>2. CASE sync_matcher_ready_state(task[t].cand)
      BY <1>1, <3>2, NoneRanked
    <3> QED  BY <2>1, <3>1, <3>2
  <2> QED  BY <1>1, <2>1, <2>2, <2>3, ServesFramed DEF OwePc
<1> QED  BY <1>2, <1>3, <1>4 DEF MatchLoopStep

\* At most one CRDY of a consumer is unread.
OneUnread == \A c \in Consumers : crdy[c] \in {0, 1}

LEMMA OneUnreadStep ==
    ASSUME TypeOK, OneUnread, [Next]_vars
    PROVE  OneUnread'
<1>1. ASSUME UNCHANGED crdy PROVE OneUnread'
  BY <1>1 DEF OneUnread
<1>2. ASSUME NEW c \in Consumers, SendCrdy(c) \/ ConsumerDrop(c) \/ ReadCrdy(c)
      PROVE  OneUnread'
  BY <1>2 DEF SendCrdy, ConsumerDrop, ReadCrdy, OneUnread, TypeOK, ClientsOK
<1>3. ASSUME NEW t, MatcherStep(t) \/ Untrack(t) \/ PhaseTake(t)
      PROVE  UNCHANGED crdy
  BY <1>3 DEF MatcherStep, Untrack, PhaseTake, envVars, clientVars
<1>4. ASSUME NEW p \in Producers, ProducerClientStep(p) PROVE UNCHANGED crdy
  BY <1>4 DEF ProducerClientStep, Publish, Accumulate, ProducerConnect,
      SendReady, SendHeartbeat, Deliver, ProducerDrop, BusyExpires, clientVars
<1>5. ASSUME NEW p \in Producers, ProducerHandlerStep(p) PROVE UNCHANGED crdy
  BY <1>3, <1>5 DEF ProducerHandlerStep, RegisterProducer, ReadPrdy,
      ClearStaleBusy, MarkPrdy, EnsureInPool, SetReady, ReadHeartbeat,
      HeartbeatState, HeartbeatWaiting, ReadReport, FindAssigned, FinishBatch,
      DeliveryFailed, RecordReport, DoneState, DonePool, ProducerEof, envVars,
      clientVars
<1>6. ASSUME NEW p \in Producers, ProducerCleanupStep(p) PROVE UNCHANGED crdy
  BY <1>3, <1>6 DEF ProducerCleanupStep, Unpool, TakePending, RequeueCheck,
      RequeuePhase, RequeueConsumer, Enqueue, RemoveProducer, envVars,
      clientVars
<1>7. ASSUME NEW c \in Consumers,
             \/ ConsumerConnect(c) \/ ConsumerCleanupStep(c)
             \/ ConsumerHandlerStep(c) /\ ~ReadCrdy(c)
      PROVE  UNCHANGED crdy
  BY <1>3, <1>7 DEF ConsumerConnect, ConsumerHandlerStep, ConsumerCleanupStep,
      CycleSet, EnqueueConsumer, Enqueue, ConsumerEof, CancelConsumer,
      ClearAssignments, Unregister, envVars, clientVars
<1>8. ASSUME MatchLoopStep \/ UNCHANGED vars PROVE UNCHANGED crdy
  BY <1>3, <1>8 DEF MatchLoopStep, Tick, SyncRead, SyncRegistry, SyncApply,
                    vars, envVars, clientVars
<1> QED
  BY <1>1, <1>2, <1>4, <1>5, <1>6, <1>7, <1>8 DEF Next, ConsumerClientStep

LEMMA ClientsServe ==
    ASSUME PullInv, OneUnread,
           \/ \E p \in Producers : ProducerClientStep(p)
           \/ \E c \in Consumers : ConsumerClientStep(c)
           \/ UNCHANGED vars
    PROVE  Serves
<1>1. TypeOK /\ RegistryOK
  BY DEF PullInv, TypeOK
<1>2. ASSUME UNCHANGED <<task, granted>>, NoneBooked
      PROVE  Charged
  <2>1. ASSUME NEW c \in Consumers PROVE Settled(c)
    <3>1. Owing(c)' = Owing(c)
      BY <1>2 DEF Owing, Owes
    <3> QED  BY <1>2, <3>1, NoneBookedShrinks DEF Settled
  <2> QED  BY <2>1 DEF Charged
<1>3. ASSUME UNCHANGED regVars PROVE NoneBooked
  BY <1>3 DEF NoneBooked, regVars
<1>4. ASSUME NEW p \in Producers, ProducerClientStep(p) PROVE Serves
  <2>1. UNCHANGED <<task, granted, crdy, cycles>>
    BY <1>4 DEF ProducerClientStep, Publish, Accumulate, ProducerConnect,
        SendReady, SendHeartbeat, Deliver, ProducerDrop, BusyExpires,
        MasterState, clientVars
  <2>2. NoneBooked
    <3>1. CASE BusyExpires(p)
      BY <1>1, <3>1
      DEF BusyExpires, NoneBooked, RegistryOK, ProducerEntry
    <3>2. CASE ~BusyExpires(p)
      BY <1>3, <1>4, <3>2 DEF ProducerClientStep, Publish, Accumulate,
          ProducerConnect, SendReady, SendHeartbeat, Deliver, ProducerDrop,
          MasterState
    <3> QED  BY <3>1, <3>2
  <2>3. \/ UNCHANGED asgn
        \/ asgn[p] # <<>> /\ asgn' = [asgn EXCEPT ![p] = Tail(@)]
        \/ asgn' = [asgn EXCEPT ![p] = <<>>]
    BY <1>4 DEF ProducerClientStep, Publish, Accumulate, ProducerConnect,
        SendReady, SendHeartbeat, Deliver, ProducerDrop, BusyExpires
  <2>4. UNCHANGED asgn \/ Pull!Serve(p) \/ Pull!Lose(p)
    BY <2>1, <2>3 DEF Pull!Serve, Pull!Lose
  <2>5. PullStep
    BY <2>1, <2>4, SameService DEF PullStep, Pull!Next
  <2> QED  BY <1>2, <2>1, <2>2, <2>5 DEF Serves
<1>5. ASSUME NEW c \in Consumers, ConsumerConnect(c) PROVE Serves
  <2>1. /\ Go(ConsumerHandler(c), "read") /\ UNCHANGED regVars
        /\ UNCHANGED <<asgn, granted, crdy, cycles>>
        /\ ConsumerHandler(c) \in Tasks
    BY <1>5, TaskNames DEF ConsumerConnect
  <2> QED  BY <1>1, <1>3, <2>1, ServesGo DEF OwePc
<1>6. ASSUME NEW c \in Consumers, SendCrdy(c) \/ ConsumerDrop(c) PROVE Serves
  <2>1. UNCHANGED <<task, granted, asgn, regVars>>
    BY <1>6 DEF SendCrdy, ConsumerDrop, MasterState
  <2>2. \/ \A d \in Consumers : cycles'[d] - crdy'[d] = cycles[d] - crdy[d]
        \/ \A d \in Consumers : cycles'[d] - crdy'[d]
                = IF d = c THEN cycles[d] - crdy[d] + 1 ELSE cycles[d] - crdy[d]
    <3>1. crdy \in [Consumers -> Nat] /\ cycles \in [Consumers -> Nat]
      BY <1>1 DEF TypeOK, ClientsOK
    <3>2. CASE SendCrdy(c)
      BY <3>1, <3>2 DEF SendCrdy
    <3>3. CASE ConsumerDrop(c)
      <4>1. PICK k \in 0..crdy[c] : crdy' = [crdy EXCEPT ![c] = k]
        BY <3>3 DEF ConsumerDrop
      <4>2. UNCHANGED cycles /\ crdy[c] \in {0, 1}
        BY <3>3 DEF ConsumerDrop, OneUnread
      <4>3. k = crdy[c] \/ k = crdy[c] - 1
        BY <4>2
      <4> QED  BY <3>1, <4>1, <4>2, <4>3
    <3> QED  BY <1>6, <3>2, <3>3
  <2>3. \A d \in Consumers : cycles[d] - crdy[d] \in Int /\ granted[d] \in Int
    BY <1>1, PullTypes
  <2>4. \/ UNCHANGED Pull!vars
        \/ Pull!Ask(c)
    <3>1. CASE \A d \in Consumers : cycles'[d] - crdy'[d] = cycles[d] - crdy[d]
      BY <2>1, <3>1 DEF Pull!vars
    <3>2. CASE \A d \in Consumers : cycles'[d] - crdy'[d]
                = IF d = c THEN cycles[d] - crdy[d] + 1 ELSE cycles[d] - crdy[d]
      <4>1. \A d \in Consumers : cycles'[d] - crdy'[d] - granted'[d]
                = IF d = c THEN cycles[d] - crdy[d] - granted[d] + 1
                           ELSE cycles[d] - crdy[d] - granted[d]
        BY <2>1, <2>3, <3>2
      <4> QED  BY <2>1, <4>1 DEF Pull!Ask
    <3> QED  BY <2>2, <3>1, <3>2
  <2> QED  BY <1>2, <1>3, <2>1, <2>4 DEF Serves, PullStep, Pull!Next
<1>7. ASSUME UNCHANGED vars PROVE Serves
  BY <1>2, <1>3, <1>7, SameService DEF Serves, vars, envVars, clientVars
<1> QED  BY <1>4, <1>5, <1>6, <1>7 DEF ConsumerClientStep

ServiceInv == PullInv /\ Vacant /\ OneUnread /\ Covered

LEMMA ServiceInit == Init => ServiceInv /\ Pull!Init
<1> SUFFICES ASSUME Init PROVE Vacant /\ OneUnread /\ Covered /\ Pull!Init
  BY PullInit DEF ServiceInv
<1>1. Vacant /\ OneUnread
  BY DEF Vacant, OneUnread, Init, RegistryInit
<1>2. Covered
  <2> SUFFICES ASSUME NEW c \in Consumers
               PROVE  Cardinality(AssignedTo(c)) + Cardinality(Owing(c))
                        <= granted[c]
    BY DEF Covered
  <2>1. AssignedTo(c) = {}
    BY IdAssumption DEF AssignedTo, Init, RegistryInit, NoEntry, None
  <2>2. Owing(c) = {}
    BY DEF Owing, Owes, OwePc, Init, AtRest
  <2> QED  BY <2>1, <2>2, FS_EmptySet DEF Init, MatchmakerInit
<1>3. Pull!Init
  BY DEF Pull!Init, Init, MatchmakerInit
<1> QED  BY <1>1, <1>2, <1>3

LEMMA ServiceNext ==
    ASSUME ServiceInv, [Next]_vars
    PROVE  ServiceInv' /\ PullStep
<1>1. PullInv /\ TypeOK /\ RegistryOK /\ Vacant /\ OneUnread /\ Covered
  BY DEF ServiceInv, PullInv, TypeOK
<1>2. PullInv' /\ TypeOK' /\ Vacant' /\ OneUnread'
  BY <1>1, PullNext, NextTypes, StepCalls, VacantStep, OneUnreadStep
<1>3. Serves
  BY <1>1, ProducerHandlerServes, ProducerCleanupServes, ConsumerHandlerServes,
     ConsumerCleanupServes, MatchLoopServes, ClientsServe DEF Next
<1>4. Covered'
  BY <1>1, <1>2, <1>3, CoveredCharged DEF Serves
<1> QED  BY <1>2, <1>3, <1>4 DEF ServiceInv, Serves

\* The master implements PullService: an ASGN is written only for a CRDY that
\* was read and is open, and on_producer_disconnect opens a CRDY again only
\* when it takes back an ASGN that was written for it.
THEOREM MasterIsPullService == Spec => PullSpec
<1>1. Init => Pull!Init
  BY ServiceInit
<1>2. ServiceInv /\ [Next]_vars => ServiceInv'
  BY ServiceNext
<1>3. ServiceInv /\ [Next]_vars => [Pull!Next]_(Pull!vars)
  BY ServiceNext DEF PullStep
<1>4. Init => ServiceInv
  BY ServiceInit
<1> QED  BY <1>1, <1>2, <1>3, <1>4, PTL DEF Spec, PullSpec, Pull!Spec

-----------------------------------------------------------------------------
(* QueuedOnce.  Only the push after a failed ASGN can put a consumer into  *)
(* the queue a second time, and an ASGN fails only when its producer has   *)
(* dropped: an entry with backlog is registered when it is ranked, and     *)
(* only the cleanup of a broken connection removes it before the write.    *)

PairPc == {"take", "send", "send_failed", "requeue"}

\* Only try_match moves a task to the steps from ranking to the failed write.
LEMMA OutsideMatch ==
    ASSUME TypeOK, [Next]_vars, NEW u \in Tasks
    PROVE  \/ task'[u] = task[u]
           \/ task'[u].pc \notin PairPc
           \/ MatcherStep(u)
<1> DEFINE Goal == \/ task'[u] = task[u]
                   \/ task'[u].pc \notin PairPc
                   \/ MatcherStep(u)
<1>1. ASSUME NEW t \in Tasks, NEW r, Become(t, r), r.pc \notin PairPc
      PROVE  Goal
  BY <1>1 DEF Become, TypeOK, TasksOK
<1>2. ASSUME NEW t \in Tasks, NEW l, l \notin PairPc, Go(t, l) \/ Rest(t, l)
      PROVE  Goal
  <2>1. task[t] \in Task
    BY TaskLocals DEF TypeOK
  <2>2. AtRest(l).pc = l /\ [task[t] EXCEPT !.pc = l].pc = l
    BY <2>1 DEF AtRest, Task
  <2> QED  BY <1>1, <1>2, <2>2 DEF Go, Rest
<1>3. ASSUME NEW t \in Tasks, MatcherStep(t) PROVE Goal
  BY <1>3, MatcherMoves DEF Moves
<1>4. ASSUME NEW t \in Tasks, Untrack(t) PROVE Goal
  <2> DEFINE r == [task[t] EXCEPT !.pc = task[t].next, !.next = "off",
                                  !.p = None]
  <2>1. task[t] \in Task /\ task[t].next \in {"cycle_set", "phase_set",
                                              "record", "end"}
    BY <1>4, TaskLocals DEF Untrack, At, TypeOK
  <2>2. Become(t, r)
    BY <1>4 DEF Untrack
  <2>3. r.pc \notin PairPc
    BY <2>1 DEF Task, PairPc
  <2> HIDE DEF r
  <2> QED  BY <1>1, <2>2, <2>3
<1>5. ASSUME NEW t \in Tasks, NEW pid, NEW c,
             NEW next \in {"cycle_set", "phase_set", "record", "end"},
             GoUntrack(t, pid, c, next)
      PROVE  Goal
  <2>1. task[t] \in Task
    BY TaskLocals DEF TypeOK
  <2>2. PICK r : Become(t, r) /\ r.pc \in {next, "untrack"}
    BY <1>5, <2>1, GoUntrackPlace
  <2> QED  BY <1>1, <2>2 DEF PairPc
<1>6. ASSUME NEW t \in Tasks, PhaseTake(t) PROVE Goal
  <2>1. PICK pid, c : pid = consumers[task[t].c].assigned /\ c = task[t].c
    OBVIOUS
  <2>2. GoUntrack(t, pid, c, "phase_set")
    BY <1>6, <2>1 DEF PhaseTake, GoUntrack
  <2> QED  BY <1>5, <2>2
<1>7. CASE UNCHANGED task
  BY <1>7
<1>8. ASSUME NEW p \in Producers, ProducerHandlerStep(p) PROVE Goal
  <2> DEFINE t == ProducerHandler(p)
  <2>1. t \in Tasks /\ ProducerCleanup(p) \in Tasks
    BY TaskNames
  <2>2. CASE MatcherStep(t) \/ Untrack(t) \/ PhaseTake(t)
    BY <1>3, <1>4, <1>6, <2>1, <2>2
  <2>3. CASE \/ RegisterProducer(p) \/ ReadPrdy(p) \/ ClearStaleBusy(p)
             \/ MarkPrdy(p) \/ EnsureInPool(p) \/ SetReady(p)
             \/ ReadHeartbeat(p) \/ HeartbeatState(p) \/ HeartbeatWaiting(p)
             \/ DeliveryFailed(p) \/ RecordReport(p) \/ DoneState(p)
             \/ DonePool(p)
    <3>1. \E l \in {"read", "clear_stale_busy", "remark_prdy", "mark_prdy",
                    "pool_prdy", "pool", "set_ready", "peek", "hb_state",
                    "hb_waiting", "record", "done_state", "done_pool"} :
             Go(t, l) \/ Rest(t, l)
      BY <2>3 DEF RegisterProducer, ReadPrdy, ClearStaleBusy, MarkPrdy,
          EnsureInPool, SetReady, ReadHeartbeat, HeartbeatState,
          HeartbeatWaiting, DeliveryFailed, RecordReport, DoneState, DonePool
    <3> QED  BY <1>2, <2>1, <3>1 DEF PairPc
  <2>4. CASE ReadReport(p)
    <3>1. PICK c, ok, n, l :
            /\ l \in {"find", "finish", "phase_take"}
            /\ Become(t, [AtRest(l) EXCEPT !.c = c, !.ok = ok, !.n = n])
      BY <2>4 DEF ReadReport
    <3> DEFINE r == [AtRest(l) EXCEPT !.c = c, !.ok = ok, !.n = n]
    <3>2. Become(t, r) /\ r.pc \notin PairPc
      BY <3>1 DEF AtRest, PairPc
    <3> HIDE DEF r
    <3> QED  BY <1>1, <2>1, <3>2
  <2>5. CASE FindAssigned(p)
    <3>1. \/ Go(t, "record")
          \/ \E c : \E l \in {"finish", "phase_take"} :
                Become(t, [task[t] EXCEPT !.c = c, !.pc = l])
      BY <2>5 DEF FindAssigned
    <3>2. task[t] \in Task
      BY <2>1, TaskLocals DEF TypeOK
    <3>3. \A c, l : [task[t] EXCEPT !.c = c, !.pc = l].pc = l
      BY <3>2 DEF Task
    <3>4. CASE Go(t, "record")
      BY <1>2, <2>1, <3>4 DEF PairPc
    <3>5. ASSUME NEW c, NEW l \in {"finish", "phase_take"},
                 Become(t, [task[t] EXCEPT !.c = c, !.pc = l])
          PROVE  Goal
      <4> DEFINE r == [task[t] EXCEPT !.c = c, !.pc = l]
      <4>1. Become(t, r) /\ r.pc \notin PairPc
        BY <3>3, <3>5 DEF PairPc
      <4> HIDE DEF r
      <4> QED  BY <1>1, <2>1, <4>1
    <3> QED  BY <3>1, <3>4, <3>5
  <2>6. CASE FinishBatch(p)
    <3>1. PICK pid, c : pid = consumers[task[t].c].assigned /\ c = task[t].c
      OBVIOUS
    <3>2. GoUntrack(t, pid, c, "record")
      BY <2>6, <3>1 DEF FinishBatch, GoUntrack
    <3> QED  BY <1>5, <2>1, <3>2
  <2>7. CASE ProducerEof(p)
    <3>1. \/ task'[u] = task[u] \/ task'[u] = AtRest("end")
          \/ task'[u] = AtRest("unpool")
      BY <2>1, <2>7 DEF ProducerEof, TypeOK, TasksOK
    <3> QED  BY <3>1 DEF AtRest, PairPc
  <2> QED
    BY <1>8, <2>2, <2>3, <2>4, <2>5, <2>6, <2>7 DEF ProducerHandlerStep
<1>9. ASSUME NEW p \in Producers, ProducerCleanupStep(p) PROVE Goal
  <2> DEFINE t == ProducerCleanup(p)
  <2>1. t \in Tasks
    BY TaskNames
  <2>2. CASE MatcherStep(t) \/ Untrack(t) \/ PhaseTake(t)
    BY <1>3, <1>4, <1>6, <2>1, <2>2
  <2>3. CASE \/ Unpool(p) \/ RequeueCheck(p) \/ RequeuePhase(p)
             \/ RequeueConsumer(p) \/ RemoveProducer(p)
    <3>1. \E l \in {"take_pending", "phase_take", "remove", "enqueue",
                    "peek"} : Go(t, l) \/ Rest(t, l)
      BY <2>3 DEF Unpool, RequeueCheck, RequeuePhase, RequeueConsumer,
          Enqueue, RemoveProducer
    <3> QED  BY <1>2, <2>1, <3>1 DEF PairPc
  <2>4. CASE TakePending(p)
    <3>1. PICK l \in {"remove", "requeue_check"} : \E c :
            Become(t, [AtRest(l) EXCEPT !.c = c])
      BY <2>4 DEF TakePending
    <3>2. \A c : [AtRest(l) EXCEPT !.c = c].pc = l
      BY DEF AtRest
    <3> QED  BY <1>1, <2>1, <3>1, <3>2 DEF PairPc
  <2> QED  BY <1>9, <2>2, <2>3, <2>4 DEF ProducerCleanupStep
<1>10. ASSUME NEW c \in Consumers, ConsumerHandlerStep(c) PROVE Goal
  <2> DEFINE t == ConsumerHandler(c)
  <2>1. t \in Tasks /\ ConsumerCleanup(c) \in Tasks
    BY TaskNames
  <2>2. CASE MatcherStep(t) \/ Untrack(t)
    BY <1>3, <1>4, <2>1, <2>2
  <2>3. CASE ReadCrdy(c)
    <3>1. PICK pid : pid = consumers[c].assigned
      OBVIOUS
    <3>2. GoUntrack(t, pid, c, "cycle_set")
      BY <2>3, <3>1 DEF ReadCrdy, GoUntrack
    <3> QED  BY <1>5, <2>1, <3>2
  <2>4. CASE CycleSet(c)
    <3>1. Become(t, [AtRest("enqueue") EXCEPT !.c = c])
      BY <2>4 DEF CycleSet
    <3>2. [AtRest("enqueue") EXCEPT !.c = c].pc = "enqueue"
      BY DEF AtRest
    <3> QED  BY <1>1, <2>1, <3>1, <3>2 DEF PairPc
  <2>5. CASE EnqueueConsumer(c)
    BY <1>2, <2>1, <2>5 DEF EnqueueConsumer, Enqueue, PairPc
  <2>6. CASE ConsumerEof(c)
    <3>1. \/ task'[u] = task[u] \/ task'[u] = AtRest("end")
          \/ task'[u] = AtRest("cancel")
      BY <2>1, <2>6 DEF ConsumerEof, TypeOK, TasksOK
    <3> QED  BY <3>1 DEF AtRest, PairPc
  <2> QED
    BY <1>10, <2>2, <2>3, <2>4, <2>5, <2>6 DEF ConsumerHandlerStep
<1>11. ASSUME NEW c \in Consumers, ConsumerCleanupStep(c) PROVE Goal
  <2> DEFINE t == ConsumerCleanup(c)
  <2>1. t \in Tasks
    BY TaskNames
  <2>2. CASE MatcherStep(t) \/ Untrack(t)
    BY <1>3, <1>4, <2>1, <2>2
  <2>3. CASE CancelConsumer(c) \/ ClearAssignments(c)
    <3>1. \E l \in {"clear", "peek", "unregister"} : Go(t, l)
      BY <2>3 DEF CancelConsumer, ClearAssignments
    <3> QED  BY <1>2, <2>1, <3>1 DEF PairPc
  <2>4. CASE Unregister(c)
    <3>1. PICK pid : pid = consumers[c].assigned
      OBVIOUS
    <3>2. GoUntrack(t, pid, c, "end")
      BY <2>4, <3>1 DEF Unregister, GoUntrack
    <3> QED  BY <1>5, <2>1, <3>2
  <2> QED  BY <1>11, <2>2, <2>3, <2>4 DEF ConsumerCleanupStep
<1>12. ASSUME MatchLoopStep PROVE Goal
  <2> DEFINE t == MatchLoop
  <2>1. t \in Tasks
    BY TaskNames
  <2>2. CASE Tick \/ SyncApply
    <3>1. \E l \in {"tick", "sync_read", "peek"} : Go(t, l) \/ Rest(t, l)
      BY <2>2 DEF Tick, SyncApply
    <3> QED  BY <1>2, <2>1, <3>1 DEF PairPc
  <2>3. CASE SyncRead \/ SyncRegistry
    <3>1. \E cand, stale :
             \/ Become(t, [AtRest("sync_registry") EXCEPT !.cand = cand])
             \/ Become(t, [AtRest("sync_apply") EXCEPT !.cand = cand,
                                                       !.stale = stale])
      BY <2>3 DEF SyncRead, SyncRegistry
    <3>2. \A cand, stale :
          /\ [AtRest("sync_registry") EXCEPT !.cand = cand].pc
                = "sync_registry"
          /\ [AtRest("sync_apply") EXCEPT !.cand = cand, !.stale = stale].pc
                = "sync_apply"
      BY DEF AtRest
    <3> QED  BY <1>1, <2>1, <3>1, <3>2 DEF PairPc
  <2> QED  BY <1>3, <1>12, <2>1, <2>2, <2>3 DEF MatchLoopStep
<1>13. ASSUME NEW c \in Consumers, ConsumerClientStep(c) PROVE Goal
  <2>1. UNCHANGED task \/ Go(ConsumerHandler(c), "read")
    BY <1>13 DEF ConsumerClientStep, ConsumerConnect, SendCrdy, ConsumerDrop,
                 MasterState
  <2> QED  BY <1>2, <1>7, <2>1, TaskNames DEF PairPc
<1>14. ASSUME NEW p \in Producers, ProducerClientStep(p) PROVE Goal
  BY <1>7, <1>14, StepMoves
<1>15. ASSUME UNCHANGED vars PROVE Goal
  BY <1>7, <1>15 DEF vars
<1> HIDE DEF Goal
<1>16. Goal
  BY <1>8, <1>9, <1>10, <1>11, <1>12, <1>13, <1>14, <1>15 DEF Next
<1> QED  BY <1>16 DEF Goal

\* What a broken connection implies.
Gone == \A p \in dropped : client[p].link = "gone"

CleanupDropped ==
    \A p \in Producers : task[ProducerCleanup(p)].pc # "off" => p \in dropped

\* A connection that is broken stays broken.
LEMMA DroppedStep ==
    ASSUME TypeOK, Gone, [Next]_vars
    PROVE  dropped \subseteq dropped' /\ Gone'
<1>1. client \in [Producers -> Client] /\ dropped \subseteq Producers
  BY DEF TypeOK, ClientsOK, WireOK
<1>2. CASE UNCHANGED <<client, dropped>>
  BY <1>2 DEF Gone
<1>3. ASSUME NEW t, MatcherStep(t) \/ Untrack(t) \/ PhaseTake(t)
      PROVE  UNCHANGED <<client, dropped>>
  BY <1>3 DEF MatcherStep, Untrack, PhaseTake, envVars, clientVars
<1>4. ASSUME NEW p \in Producers, ProducerClientStep(p)
      PROVE  dropped \subseteq dropped' /\ Gone'
  <2>1. CASE SendHeartbeat(p) \/ BusyExpires(p)
    BY <1>2, <2>1 DEF SendHeartbeat, BusyExpires, clientVars
  <2>2. CASE ProducerDrop(p)
    BY <1>1, <2>2 DEF ProducerDrop, Gone, Client
  <2>3. CASE \/ Publish(p) \/ Accumulate(p) \/ ProducerConnect(p)
             \/ SendReady(p) \/ Deliver(p)
    <3>1. /\ UNCHANGED dropped /\ client[p].link # "gone"
          /\ \A q \in Producers : q # p => client'[q] = client[q]
      BY <1>1, <2>3 DEF Publish, Accumulate, ProducerConnect, SendReady,
                        Deliver, Client
    <3> QED  BY <1>1, <3>1 DEF Gone
  <2> QED  BY <1>4, <2>1, <2>2, <2>3 DEF ProducerClientStep
<1>5. ASSUME NEW p \in Producers, ProducerHandlerStep(p)
      PROVE  UNCHANGED <<client, dropped>>
  BY <1>3, <1>5 DEF ProducerHandlerStep, RegisterProducer, ReadPrdy,
      ClearStaleBusy, MarkPrdy, EnsureInPool, SetReady, ReadHeartbeat,
      HeartbeatState, HeartbeatWaiting, ReadReport, FindAssigned, FinishBatch,
      DeliveryFailed, RecordReport, DoneState, DonePool, ProducerEof, envVars,
      clientVars
<1>6. ASSUME NEW p \in Producers, ProducerCleanupStep(p)
      PROVE  UNCHANGED <<client, dropped>>
  BY <1>3, <1>6 DEF ProducerCleanupStep, Unpool, TakePending, RequeueCheck,
      RequeuePhase, RequeueConsumer, Enqueue, RemoveProducer, envVars,
      clientVars
<1>7. ASSUME NEW c \in Consumers,
             \/ ConsumerClientStep(c) \/ ConsumerCleanupStep(c)
             \/ ConsumerHandlerStep(c)
      PROVE  UNCHANGED <<client, dropped>>
  BY <1>3, <1>7 DEF ConsumerClientStep, ConsumerConnect, SendCrdy,
      ConsumerDrop, ConsumerHandlerStep, ConsumerCleanupStep, ReadCrdy,
      CycleSet, EnqueueConsumer, Enqueue, ConsumerEof, CancelConsumer,
      ClearAssignments, Unregister, envVars, clientVars
<1>8. ASSUME MatchLoopStep \/ UNCHANGED vars
      PROVE  UNCHANGED <<client, dropped>>
  BY <1>3, <1>8 DEF MatchLoopStep, Tick, SyncRead, SyncRegistry, SyncApply,
                    vars, envVars, clientVars
<1> QED  BY <1>2, <1>4, <1>5, <1>6, <1>7, <1>8 DEF Next

LEMMA CleanupDroppedStep ==
    ASSUME TypeOK, CleanupDropped, dropped \subseteq dropped', [Next]_vars
    PROVE  CleanupDropped'
<1>1. \A p \in Producers :
        /\ ProducerCleanup(p) \in Tasks
        /\ ProducerCleanup(p) # MatchLoop
        /\ \A q \in Producers :
                /\ ProducerCleanup(p) # ProducerHandler(q)
                /\ ProducerCleanup(p) = ProducerCleanup(q) => p = q
        /\ \A c \in Consumers : /\ ProducerCleanup(p) # ConsumerHandler(c)
                                /\ ProducerCleanup(p) # ConsumerCleanup(c)
  BY TaskNames DEF ProducerHandler, ProducerCleanup, ConsumerHandler,
                   ConsumerCleanup, MatchLoop
<1>2. SUFFICES ASSUME NEW p \in Producers
               PROVE  \/ task'[ProducerCleanup(p)] = task[ProducerCleanup(p)]
                      \/ p \in dropped
  BY DEF CleanupDropped
<1>3. ASSUME NEW q \in Producers, ProducerEof(q)
      PROVE  \/ task'[ProducerCleanup(p)] = task[ProducerCleanup(p)]
             \/ p \in dropped
  <2>1. q \in dropped
    BY <1>3 DEF ProducerEof
  <2>2. p # q => task'[ProducerCleanup(p)] = task[ProducerCleanup(p)]
    BY <1>1, <1>3 DEF ProducerEof, TypeOK, TasksOK
  <2> QED  BY <2>1, <2>2
<1>4. ASSUME NEW c \in Consumers, ConsumerEof(c)
      PROVE  task'[ProducerCleanup(p)] = task[ProducerCleanup(p)]
  BY <1>1, <1>4 DEF ConsumerEof, TypeOK, TasksOK
<1>5. ASSUME NEW u, Moves(u), ProducerCleanup(p) # u
      PROVE  task'[ProducerCleanup(p)] = task[ProducerCleanup(p)]
  BY <1>1, <1>5 DEF Moves
<1>6. ASSUME NEW q \in Producers, Moves(ProducerCleanup(q)),
             task[ProducerCleanup(q)].pc # "off"
      PROVE  \/ task'[ProducerCleanup(p)] = task[ProducerCleanup(p)]
             \/ p \in dropped
  BY <1>1, <1>5, <1>6 DEF CleanupDropped
<1> QED  BY <1>1, <1>3, <1>4, <1>5, <1>6, NextMoves

\* The producer of a running try_match is registered or has dropped, and its
\* ASGN has failed only if one has.
Backed(r) ==
    /\ r.pc \in {"take", "send"} /\ r.p # None
       => Registered(r.p) \/ r.p \in dropped
    /\ r.pc \in {"send_failed", "requeue"} => dropped # {}

AllBacked == \A t \in Tasks : Backed(task[t])

\* The candidates that are ranked are registered.
LEMMA TierRegistered ==
    ASSUME Vacant, NEW cand \in SUBSET Producers, NEW p \in Tier(cand)
    PROVE  Registered(p)
<1>1. p \in Producers /\ entry_has_backlog(producers[p])
  BY DEF Tier, StaleAmong
<1>2. ~entry_has_backlog(NoEntry)
  BY DEF entry_has_backlog, NoEntry
<1> QED  BY <1>1, <1>2 DEF Vacant

LEMMA BackedStep ==
    ASSUME TypeOK, Vacant, CleanupDropped, AllBacked,
           dropped \subseteq dropped', [Next]_vars
    PROVE  AllBacked'
<1>1. /\ task \in [Tasks -> Task] /\ RegistryOK
      /\ \A t \in Tasks : task[t] \in Task
  BY TaskLocals DEF TypeOK, TasksOK
<1>2. \A p \in Producers : Registered(p) \/ p \in dropped
                           => Registered(p)' \/ p \in dropped'
  BY <1>1, StepCalls, VacantStep DEF CleanupDropped, Registered, At
<1> SUFFICES ASSUME NEW t \in Tasks PROVE Backed(task[t])'
  BY DEF AllBacked
<1>3. CASE task'[t] = task[t]
  <2>1. task[t].p \in Producers \cup {None}
    BY TaskLocals DEF TypeOK
  <2> QED  BY <1>2, <1>3, <2>1 DEF AllBacked, Backed
<1>4. CASE task'[t].pc \notin PairPc
  BY <1>4 DEF Backed, PairPc
<1>5. CASE MatcherStep(t)
  <2>1. \A r : Become(t, r) => task'[t] = r
    BY <1>1 DEF Become
  <2>2. CASE Rank(t)
    <3>1. PICK cand, rr : cand = task[t].cand /\ rr = task[t].rr
      OBVIOUS
    <3>2. cand \in SUBSET Producers /\ rr \in Nat
      BY <3>1, TaskLocals DEF TypeOK
    <3>3. PickFrom(Tier(cand), rr) \in Tier(cand) \cup {None}
      <4>1. Tier(cand) \in SUBSET Producers
        BY <3>2 DEF Tier
      <4> QED  BY <3>2, <4>1, PickType
    <3> DEFINE r == [AtRest("take") EXCEPT !.p = PickFrom(Tier(cand), rr),
                                           !.rr = NextRR(Tier(cand), rr),
                                           !.stale = StaleAmong(cand)]
    <3>4. Become(t, r)
      BY <2>2, <3>1 DEF Rank
    <3>5. r.pc = "take" /\ r.p = PickFrom(Tier(cand), rr)
      BY DEF AtRest
    <3> HIDE DEF r
    <3>6. r.p # None => Registered(r.p) /\ r.p \in Producers
      <4>1. Tier(cand) \in SUBSET Producers
        BY <3>2 DEF Tier
      <4> QED  BY <3>2, <3>3, <3>5, <4>1, TierRegistered
    <3> QED  BY <1>2, <2>1, <3>4, <3>5, <3>6 DEF Backed
  <2>3. CASE TakePair(t)
    <3> DEFINE r == [AtRest("send") EXCEPT !.p = task[t].p, !.c = NextWaiting]
    <3>1. Become(t, r) \/ Rest(t, Caller(t))
      BY <2>3 DEF TakePair
    <3>2. task[t].pc = "take" /\ task[t].p \in Producers \cup {None}
      BY <2>3, TaskLocals DEF TakePair, At, TypeOK
    <3>3. r.pc = "send" /\ r.p = task[t].p
      BY DEF AtRest
    <3>4. AtRest(Caller(t)).pc \notin PairPc
      BY DEF AtRest, Caller, PairPc
    <3> HIDE DEF r
    <3>5. CASE Rest(t, Caller(t))
      BY <1>4, <2>1, <3>4, <3>5 DEF Rest
    <3>6. CASE Become(t, r)
      BY <1>2, <2>1, <3>2, <3>3, <3>6 DEF AllBacked, Backed
    <3> QED  BY <3>1, <3>5, <3>6
  <2>4. CASE SendAssignFails(t) \/ SendFailedIdle(t)
    <3>1. /\ task[t].pc \in {"send", "send_failed"}
          /\ task[t].pc = "send" => /\ Registered(task[t].p)
                                        => task[t].p \in dropped
                                    /\ task[t].p # None
      <4>1. task[t].pc = "send" => task[t].p # None
        BY TaskLocals, IdAssumption DEF TypeOK, NeedsPair, None
      <4> QED  BY <2>4, <4>1 DEF SendAssignFails, SendFailedIdle, At
    <3>2. dropped # {}
      BY <3>1 DEF AllBacked, Backed
    <3>3. \E l \in {"send_failed", "requeue"} : Go(t, l)
      BY <2>4 DEF SendAssignFails, SendFailedIdle
    <3>4. \A l : [task[t] EXCEPT !.pc = l].pc = l
      BY <1>1 DEF Task
    <3>5. task'[t].pc \in {"send_failed", "requeue"}
      BY <2>1, <3>3, <3>4 DEF Go
    <3> QED  BY <3>2, <3>5 DEF Backed
  <2>5. CASE \/ Peek(t) \/ SendAssign(t) \/ SendAssignLost(t) \/ Requeue(t)
             \/ MarkAssigned(t) \/ StaleRead(t) \/ StaleRelease(t)
             \/ StaleIndex(t) \/ MarkAwaiting(t) \/ Track(t)
    <3>1. ASSUME NEW l, l \notin PairPc, Go(t, l) \/ Rest(t, l)
          PROVE  task'[t].pc \notin PairPc
      <4>1. [task[t] EXCEPT !.pc = l].pc = l /\ AtRest(l).pc = l
        BY <1>1 DEF Task, AtRest
      <4> QED  BY <2>1, <3>1, <4>1 DEF Go, Rest
    <3>2. CASE \/ SendAssign(t) \/ SendAssignLost(t) \/ Requeue(t)
               \/ MarkAssigned(t) \/ StaleRelease(t) \/ MarkAwaiting(t)
               \/ Track(t)
      <4>1. \E l \in {"mark_assigned", "peek", "stale_read", "stale_index",
                      "track"} : Go(t, l) \/ Rest(t, l)
        BY <3>2 DEF SendAssign, SendAssignLost, Requeue, MarkAssigned,
                    StaleRelease, MarkAwaiting, Track
      <4> QED  BY <1>4, <3>1, <4>1 DEF PairPc
    <3>3. CASE Peek(t)
      <4> DEFINE r == [AtRest("rank") EXCEPT !.cand = ready, !.rr = producer_rr]
      <4>1. Rest(t, Caller(t)) \/ Become(t, r)
        BY <3>3 DEF Peek
      <4>2. r.pc = "rank" /\ Caller(t) \notin PairPc
        BY DEF AtRest, Caller, PairPc
      <4> HIDE DEF r
      <4> QED  BY <1>4, <2>1, <3>1, <4>1, <4>2 DEF PairPc
    <3>4. CASE StaleRead(t) \/ StaleIndex(t)
      <4>1. ASSUME NEW l, NEW old
            PROVE  /\ [task[t] EXCEPT !.old = old, !.pc = l].pc = l
                   /\ [task[t] EXCEPT !.pc = l, !.old = old].pc = l
        BY <1>1 DEF Task
      <4>2. ASSUME StaleRead(t)
            PROVE  task'[t].pc \in {"mark_awaiting", "stale_release"}
        <5> DEFINE old == StaleAwaiting(task[t].p, task[t].c)
                   l   == IF old = {} THEN "mark_awaiting" ELSE "stale_release"
        <5>1. Become(t, [task[t] EXCEPT !.old = old, !.pc = l])
          BY <4>2 DEF StaleRead
        <5>2. l \in {"mark_awaiting", "stale_release"}
          OBVIOUS
        <5> HIDE DEF l, old
        <5>3. task'[t] = [task[t] EXCEPT !.old = old, !.pc = l]
          BY <2>1, <5>1
        <5> QED  BY <4>1, <5>2, <5>3
      <4>3. ASSUME StaleIndex(t)
            PROVE  task'[t].pc \in {"mark_awaiting", "stale_release"}
        <5>1. Become(t, [task[t] EXCEPT !.pc = "mark_awaiting", !.old = {}])
          BY <4>3 DEF StaleIndex
        <5>2. task'[t] = [task[t] EXCEPT !.pc = "mark_awaiting", !.old = {}]
          BY <2>1, <5>1
        <5> QED  BY <4>1, <5>2
      <4>4. task'[t].pc \in {"mark_awaiting", "stale_release"}
        BY <3>4, <4>2, <4>3
      <4> QED  BY <1>4, <4>4 DEF PairPc
    <3> QED  BY <2>5, <3>2, <3>3, <3>4
  <2> QED  BY <1>5, <2>2, <2>3, <2>4, <2>5 DEF MatcherStep, TryMatch
<1> QED  BY <1>3, <1>4, <1>5, OutsideMatch

\* What a step does to the queue.
LEMMA QueueStep ==
    ASSUME TypeOK, [Next]_vars
    PROVE  \/ UNCHANGED waiting
           \/ \E x \in Consumers : push_waiting(x)
           \/ take_next_waiting /\ waiting # <<>>
           \/ \E t \in Tasks : Requeue(t)
           \/ \E i \in DOMAIN waiting : waiting' = SwapRemoved(waiting, i)
<1> DEFINE Goal == \/ UNCHANGED waiting
                   \/ \E x \in Consumers : push_waiting(x)
                   \/ take_next_waiting /\ waiting # <<>>
                   \/ \E t \in Tasks : Requeue(t)
                   \/ \E i \in DOMAIN waiting :
                        waiting' = SwapRemoved(waiting, i)
<1>1. ASSUME NEW t \in Tasks, MatcherStep(t) \/ Untrack(t) \/ PhaseTake(t)
      PROVE  Goal
  <2>1. CASE TakePair(t)
    BY <2>1 DEF TakePair
  <2>2. CASE Requeue(t)
    BY <2>2
  <2>3. CASE ~TakePair(t) /\ ~Requeue(t)
    BY <1>1, <2>3 DEF MatcherStep, TryMatch, Peek, Rank, SendAssign,
      SendAssignLost, SendAssignFails, SendFailedIdle, MarkAssigned,
      StaleRead, StaleRelease, StaleIndex, MarkAwaiting, Track, Untrack,
      PhaseTake, innerVars
  <2> QED  BY <2>1, <2>2, <2>3
<1>2. ASSUME NEW t \in Tasks, NEW l, Enqueue(t, l) PROVE Goal
  <2>1. PICK x : x = task[t].c
    OBVIOUS
  <2>2. x \in Consumers /\ push_waiting(x)
    BY <1>2, <2>1, TaskLocals
    DEF Enqueue, At, NeedsConsumer, TypeOK, push_waiting
  <2> QED  BY <2>2
<1>3. ASSUME NEW p \in Producers, ProducerClientStep(p) PROVE Goal
  BY <1>3 DEF ProducerClientStep, Publish, Accumulate, ProducerConnect,
      SendReady, SendHeartbeat, Deliver, ProducerDrop, BusyExpires,
      MasterState, innerVars
<1>4. ASSUME NEW p \in Producers, ProducerHandlerStep(p) PROVE Goal
  <2>1. CASE \/ MatcherStep(ProducerHandler(p)) \/ Untrack(ProducerHandler(p))
             \/ PhaseTake(ProducerHandler(p))
    BY <1>1, <2>1, TaskNames
  <2>2. CASE ~(\/ MatcherStep(ProducerHandler(p)) \/ Untrack(ProducerHandler(p))
               \/ PhaseTake(ProducerHandler(p)))
    BY <1>4, <2>2 DEF ProducerHandlerStep, RegisterProducer, ReadPrdy,
      ClearStaleBusy, MarkPrdy, EnsureInPool, SetReady, ReadHeartbeat,
      HeartbeatState, HeartbeatWaiting, ReadReport, FindAssigned, FinishBatch,
      DeliveryFailed, RecordReport, DoneState, DonePool, ProducerEof, innerVars
  <2> QED  BY <2>1, <2>2
<1>5. ASSUME NEW p \in Producers, ProducerCleanupStep(p) PROVE Goal
  <2>1. CASE \/ MatcherStep(ProducerCleanup(p)) \/ Untrack(ProducerCleanup(p))
             \/ PhaseTake(ProducerCleanup(p)) \/ RequeueConsumer(p)
    BY <1>1, <1>2, <2>1, TaskNames DEF RequeueConsumer
  <2>2. CASE \/ Unpool(p) \/ TakePending(p) \/ RequeueCheck(p)
             \/ RequeuePhase(p) \/ RemoveProducer(p)
    BY <2>2 DEF Unpool, TakePending, RequeueCheck, RequeuePhase,
                RemoveProducer, innerVars
  <2> QED  BY <1>5, <2>1, <2>2 DEF ProducerCleanupStep
<1>6. ASSUME NEW c \in Consumers,
             ConsumerClientStep(c) \/ ConsumerHandlerStep(c)
      PROVE  Goal
  <2>1. CASE \/ MatcherStep(ConsumerHandler(c)) \/ Untrack(ConsumerHandler(c))
             \/ EnqueueConsumer(c)
    BY <1>1, <1>2, <2>1, TaskNames DEF EnqueueConsumer
  <2>2. CASE \/ ConsumerClientStep(c) \/ ReadCrdy(c) \/ CycleSet(c)
             \/ ConsumerEof(c)
    BY <2>2 DEF ConsumerClientStep, ConsumerConnect, SendCrdy, ConsumerDrop,
                ReadCrdy, CycleSet, ConsumerEof, MasterState, innerVars
  <2> QED  BY <1>6, <2>1, <2>2 DEF ConsumerHandlerStep
<1>7. ASSUME NEW c \in Consumers, ConsumerCleanupStep(c) PROVE Goal
  <2>1. CASE MatcherStep(ConsumerCleanup(c)) \/ Untrack(ConsumerCleanup(c))
    BY <1>1, <2>1, TaskNames
  <2>2. CASE CancelConsumer(c)
    BY <2>2 DEF CancelConsumer
  <2>3. CASE ClearAssignments(c) \/ Unregister(c)
    BY <2>3 DEF ClearAssignments, Unregister, innerVars
  <2> QED  BY <1>7, <2>1, <2>2, <2>3 DEF ConsumerCleanupStep
<1>8. ASSUME MatchLoopStep \/ UNCHANGED vars PROVE Goal
  <2>1. CASE MatcherStep(MatchLoop)
    BY <1>1, <2>1, TaskNames
  <2>2. CASE Tick \/ SyncRead \/ SyncRegistry \/ SyncApply \/ UNCHANGED vars
    BY <2>2 DEF Tick, SyncRead, SyncRegistry, SyncApply, vars, innerVars
  <2> QED  BY <1>8, <2>1, <2>2 DEF MatchLoopStep
<1> HIDE DEF Goal
<1>9. Goal
  BY <1>3, <1>4, <1>5, <1>6, <1>7, <1>8 DEF Next
<1> QED  BY <1>9 DEF Goal

OnceInv ==
    /\ TypeOK /\ Vacant /\ Gone /\ CleanupDropped /\ AllBacked
    /\ dropped = {} => Distinct(waiting)

LEMMA OnceInit == Init => OnceInv
<1> SUFFICES ASSUME Init PROVE OnceInv
  OBVIOUS
<1>1. TypeOK /\ Vacant
  BY ServiceInit DEF ServiceInv, PullInv
<1>2. dropped = {} /\ waiting = <<>>
  BY DEF Init, MatchmakerInit
<1>3. \A t \in Tasks : /\ task[t].pc \in {"off", "tick"}
                       /\ t # MatchLoop => task[t].pc = "off"
  BY DEF Init, AtRest
<1>4. CleanupDropped
  BY <1>3, TaskNames DEF CleanupDropped, ProducerCleanup, MatchLoop
<1>5. AllBacked
  BY <1>3 DEF AllBacked, Backed
<1> QED  BY <1>1, <1>2, <1>4, <1>5 DEF OnceInv, Gone, Distinct

LEMMA OnceNext ==
    ASSUME OnceInv, [Next]_vars
    PROVE  OnceInv'
<1>1. /\ TypeOK /\ RegistryOK /\ Vacant /\ Gone /\ CleanupDropped /\ AllBacked
      /\ waiting \in Seq(Consumers) /\ consumer_rr \in Nat
      /\ dropped = {} => Distinct(waiting)
  BY DEF OnceInv, TypeOK, InnerOK
<1>2. TypeOK' /\ Vacant' /\ Gone' /\ dropped \subseteq dropped'
  BY <1>1, NextTypes, StepCalls, VacantStep, DroppedStep
<1>3. CleanupDropped' /\ AllBacked'
  BY <1>1, <1>2, CleanupDroppedStep, BackedStep
<1>4. ASSUME dropped' = {} PROVE Distinct(waiting)'
  <2>1. dropped = {} /\ Distinct(waiting)
    BY <1>1, <1>2, <1>4
  <2>2. CASE UNCHANGED waiting
    BY <2>1, <2>2 DEF Distinct
  <2>3. ASSUME NEW x \in Consumers, push_waiting(x) PROVE Distinct(waiting)'
    <3> DEFINE s == Retained(waiting, x)
    <3>1. s \in Seq(Consumers)
      BY <1>1, RetainedType
    <3>2. Distinct(s) /\ \A i \in DOMAIN s : s[i] # x
      BY <1>1, <2>1, RetainedReindexes, DistinctQueues
    <3>3. waiting' = Append(s, x)
      BY <2>3 DEF push_waiting
    <3> HIDE DEF s
    <3>4. Distinct(Append(s, x))
      BY <2>3, <3>1, <3>2, DistinctQueues
    <3> QED  BY <3>3, <3>4
  <2>4. CASE take_next_waiting /\ waiting # <<>>
    <3>1. PICK i : i = Cursor + 1
      OBVIOUS
    <3>2. i \in 1..Len(waiting) /\ waiting' = RemovedAt(waiting, i)
      BY <1>1, <2>4, <3>1 DEF take_next_waiting, Cursor
    <3>3. Distinct(RemovedAt(waiting, i))
      BY <1>1, <2>1, <3>2, RemovedReindexes, DistinctQueues
    <3> QED  BY <3>2, <3>3
  <2>5. ASSUME NEW t \in Tasks, Requeue(t) PROVE FALSE
    BY <1>1, <2>1, <2>5 DEF Requeue, At, AllBacked, Backed
  <2>6. ASSUME NEW i \in DOMAIN waiting, waiting' = SwapRemoved(waiting, i)
        PROVE  Distinct(waiting)'
    <3>1. i \in 1..Len(waiting)
      BY <1>1
    <3>2. Distinct(SwapRemoved(waiting, i))
      BY <1>1, <2>1, <3>1, SwapReindexes, DistinctQueues
    <3> QED  BY <2>6, <3>2
  <2> QED  BY <1>1, <2>2, <2>3, <2>4, <2>5, <2>6, QueueStep
<1> QED  BY <1>2, <1>3, <1>4 DEF OnceInv

\* While no producer has gone, a consumer is in the CRDY queue at most once,
\* however often it sends CRDY and however its assignments are released.
THEOREM ConsumersQueueOnce == Spec => []QueuedOnce
<1>1. OnceInv => QueuedOnce
  BY DEF OnceInv, TypeOK, WireOK, Gone, Distinct, QueuedOnce
<1> QED  BY <1>1, OnceInit, OnceNext, PTL DEF Spec
=============================================================================
