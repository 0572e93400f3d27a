--------------------------- MODULE OrderingProofs ---------------------------
(* What sorting, taking a subsequence, scanning a frame and joining sequences *)
(* do, for every sequence.                                                    *)
EXTENDS Ordering, SequencesExt, FiniteSetTheorems, TLAPS

\* Which members are before which is a strict total order.
StrictOrder(members, before) ==
    /\ before \in [members -> SUBSET members]
    /\ \A i \in members : i \notin before[i]
    /\ \A i, j \in members : i # j => i \in before[j] \/ j \in before[i]
    /\ \A i \in members : \A j \in before[i] : before[j] \subseteq before[i]

\* Every member has a rank of its own, and the ranks are 1 to their number.
LEMMA RankedOrders ==
  ASSUME NEW members, IsFiniteSet(members), NEW before, StrictOrder(members, before)
  PROVE  LET order == Ranked(members, before)
             ranks == 1..Cardinality(members)
         IN  /\ order \in [ranks -> members]
             /\ \A i \in members : \E k \in ranks : order[k] = i
             /\ \A k, l \in ranks : k < l => order[k] \in before[order[l]]
<1> DEFINE n == Cardinality(members)
           order == Ranked(members, before)
           rank == [i \in members |-> Cardinality(before[i]) + 1]
<1>1. n \in Nat /\ IsFiniteSet(1..n) /\ Cardinality(1..n) = n
  BY FS_CardinalityType, FS_Interval, SMT
<1>2. ASSUME NEW i \in members
      PROVE  /\ IsFiniteSet(before[i])
             /\ Cardinality(before[i]) \in Nat
             /\ rank[i] \in 1..n
  <2>1. before[i] \in SUBSET members /\ before[i] # members
    BY DEF StrictOrder
  <2>2. IsFiniteSet(before[i]) /\ Cardinality(before[i]) <= n /\ Cardinality(before[i]) # n
    BY <2>1, FS_Subset, SMT
  <2> QED BY <1>1, <2>2, FS_CardinalityType, SMT
<1>3. ASSUME NEW i \in members, NEW j \in before[i]
      PROVE  j \in members /\ rank[j] < rank[i]
  <2>1. j \in members /\ before[j] \in SUBSET before[i] /\ before[j] # before[i]
    BY DEF StrictOrder
  <2>2. Cardinality(before[j]) <= Cardinality(before[i]) /\ Cardinality(before[j]) # Cardinality(before[i])
    BY <1>2, <2>1, FS_Subset, SMT
  <2> QED BY <1>2, <2>1, <2>2, SMT
<1>4. \A i, j \in members : rank[i] = rank[j] => i = j
  <2> SUFFICES ASSUME NEW i \in members, NEW j \in members, i # j
               PROVE  rank[i] # rank[j]
    OBVIOUS
  <2>1. rank[i] \in Int /\ rank[j] \in Int
    BY <1>2
  <2>2. i \in before[j] \/ j \in before[i]
    BY DEF StrictOrder
  <2>3. rank[i] < rank[j] \/ rank[j] < rank[i]
    BY <1>3, <2>2
  <2> QED BY <2>1, <2>3, SMT
<1>5. rank \in Surjection(members, 1..n)
  <2>1. rank \in Injection(members, 1..n)
    BY <1>2, <1>4 DEF Injection, IsInjective
  <2> QED BY <1>1, <2>1, FS_Injection
<1>6. ASSUME NEW k \in 1..n
      PROVE  order[k] \in members /\ rank[order[k]] = k
  <2>1. PICK i \in members : rank[i] = k
    BY <1>5 DEF Surjection
  <2>2. Cardinality(before[i]) = k - 1
    BY <1>1, <1>2, <2>1, SMT
  <2>3. order[k] = CHOOSE m \in members : Cardinality(before[m]) = k - 1
    BY DEF Ranked
  <2>4. order[k] \in members /\ Cardinality(before[order[k]]) = k - 1
    BY <2>2, <2>3
  <2> QED BY <1>1, <1>2, <2>4, SMT
<1>7. order \in [1..n -> members]
  BY <1>6 DEF Ranked
<1>8. ASSUME NEW i \in members PROVE \E k \in 1..n : order[k] = i
  <2>1. rank[i] \in 1..n
    BY <1>2
  <2>2. order[rank[i]] = i
    BY <1>4, <1>6, <2>1
  <2> QED BY <2>1, <2>2
<1>9. ASSUME NEW k \in 1..n, NEW l \in 1..n, k < l
      PROVE  order[k] \in before[order[l]]
  <2>1. order[k] # order[l]
    <3>1. k # l
      BY <1>1, <1>9, SMT
    <3> QED BY <1>6, <3>1
  <2>2. order[l] \notin before[order[k]]
    <3> SUFFICES ASSUME order[l] \in before[order[k]] PROVE FALSE
      OBVIOUS
    <3>1. rank[order[l]] < rank[order[k]]
      BY <1>3, <1>6
    <3>2. rank[order[l]] = l /\ rank[order[k]] = k
      BY <1>6
    <3>3. l < k
      BY <3>1, <3>2
    <3> QED BY <1>1, <1>9, <3>3, SMT
  <2> QED BY <1>6, <2>1, <2>2 DEF StrictOrder
<1> QED BY <1>7, <1>8, <1>9

-----------------------------------------------------------------------------
\* A subsequence has the elements at the indices, in the order of the indices.
LEMMA SubsequenceKeeps ==
  ASSUME NEW V, NEW s \in Seq(V), NEW indices \in SUBSET DOMAIN s
  PROVE  \E place \in [1..Cardinality(indices) -> indices] :
            /\ Cardinality(indices) \in Nat
            /\ \A i \in indices : \E k \in 1..Cardinality(indices) : place[k] = i
            /\ \A k, l \in 1..Cardinality(indices) : k < l => place[k] < place[l]
            /\ Subsequence(s, indices) = [k \in 1..Cardinality(indices) |-> s[place[k]]]
            /\ Subsequence(s, indices) \in Seq(V)
<1> DEFINE before == [i \in indices |-> {j \in indices : j < i}]
           place == Ranked(indices, before)
<1>1. Len(s) \in Nat /\ DOMAIN s = 1..Len(s) /\ indices \subseteq 1..Len(s)
  OBVIOUS
<1>2. IsFiniteSet(indices)
  <2>1. IsFiniteSet(1..Len(s))
    BY <1>1, FS_Interval
  <2> QED BY <1>1, <2>1, FS_Subset
<1>3. StrictOrder(indices, before)
  BY <1>1 DEF StrictOrder
<1>4. /\ place \in [1..Cardinality(indices) -> indices]
      /\ \A i \in indices : \E k \in 1..Cardinality(indices) : place[k] = i
      /\ \A k, l \in 1..Cardinality(indices) : k < l => place[k] \in before[place[l]]
  BY <1>2, <1>3, RankedOrders
<1>5. \A k, l \in 1..Cardinality(indices) : k < l => place[k] < place[l]
  BY <1>4
<1>6. Subsequence(s, indices) = [k \in 1..Cardinality(indices) |-> s[place[k]]]
  BY DEF Subsequence
<1>7. Cardinality(indices) \in Nat
  BY <1>2, FS_CardinalityType
<1> HIDE DEF place
<1>8. Subsequence(s, indices) \in Seq(V)
  <2> DEFINE n == Cardinality(indices)
  <2>1. \A k \in 1..n : s[place[k]] \in V
    BY <1>1, <1>4
  <2>2. Subsequence(s, indices) \in [1..n -> V]
    BY <1>6, <2>1
  <2> HIDE DEF n
  <2>3. [1..n -> V] \subseteq Seq(V)
    BY <1>7 DEF n
  <2> QED BY <2>2, <2>3
<1> QED BY <1>4, <1>5, <1>6, <1>7, <1>8

\* Keys are compared from the left, and that orders them.
LEMMA KeysOrdered ==
  ASSUME NEW D \in SUBSET Int, NEW key \in [D -> Int \X Int]
  PROVE  StrictOrder(D, [i \in D |-> Preceding(key, i)])
<1>1. \A i \in D : key[i][1] \in Int /\ key[i][2] \in Int
  OBVIOUS
<1> DEFINE before == [i \in D |-> Preceding(key, i)]
<1>2. ASSUME NEW i \in D
      PROVE  before[i] = {j \in D : \/ Below(key[j], key[i])
                                    \/ ~Below(key[i], key[j]) /\ j < i}
  BY DEF Preceding
<1>3. before \in [D -> SUBSET D]
  BY <1>2
<1>4. \A i \in D : i \notin before[i]
  BY <1>1, <1>2 DEF Below
<1>5. \A i, j \in D : i # j => i \in before[j] \/ j \in before[i]
  BY <1>1, <1>2 DEF Below
<1>6. ASSUME NEW i \in D, NEW j \in before[i], NEW k \in before[j]
      PROVE  k \in before[i]
  <2>1. j \in D /\ k \in D
    BY <1>3
  <2> QED BY <1>1, <1>2, <2>1 DEF Below
<1> QED BY <1>3, <1>4, <1>5, <1>6 DEF StrictOrder

\* A sorted sequence has the elements of the one it comes from, each where its
\* key belongs.
THEOREM SortKeeps ==
  ASSUME NEW V, NEW s \in Seq(V), NEW key \in [DOMAIN s -> Int \X Int]
  PROVE  \E place \in [DOMAIN s -> DOMAIN s] :
            /\ \A i \in DOMAIN s : \E k \in DOMAIN s : place[k] = i
            /\ \A k, l \in DOMAIN s : k < l => place[k] \in Preceding(key, place[l])
            /\ Rearranged(s, key) = [k \in DOMAIN s |-> s[place[k]]]
            /\ Rearranged(s, key) \in Seq(V)
<1> DEFINE before == [i \in DOMAIN s |-> Preceding(key, i)]
           place == Ranked(DOMAIN s, before)
<1>1. Len(s) \in Nat /\ DOMAIN s = 1..Len(s)
  OBVIOUS
<1>2. IsFiniteSet(DOMAIN s) /\ Cardinality(DOMAIN s) = Len(s)
  <2>1. /\ IsFiniteSet(1..Len(s))
        /\ Cardinality(1..Len(s)) = IF 1 > Len(s) THEN 0 ELSE Len(s) - 1 + 1
    BY <1>1, FS_Interval
  <2>2. Cardinality(1..Len(s)) = Len(s)
    BY <1>1, <2>1
  <2> QED BY <1>1, <2>1, <2>2
<1>3. StrictOrder(DOMAIN s, before)
  BY <1>1, KeysOrdered, DOMAIN s \in SUBSET Int
<1>4. /\ place \in [DOMAIN s -> DOMAIN s]
      /\ \A i \in DOMAIN s : \E k \in DOMAIN s : place[k] = i
      /\ \A k, l \in DOMAIN s : k < l => place[k] \in before[place[l]]
  <2> DEFINE n == Cardinality(DOMAIN s)
  <2>1. 1..n = DOMAIN s
    BY <1>1, <1>2
  <2>2. /\ place \in [1..n -> DOMAIN s]
        /\ \A i \in DOMAIN s : \E k \in 1..n : place[k] = i
        /\ \A k, l \in 1..n : k < l => place[k] \in before[place[l]]
    BY <1>2, <1>3, RankedOrders
  <2> QED BY <2>1, <2>2
<1>5. Rearranged(s, key) = [k \in DOMAIN s |-> s[place[k]]]
  BY DEF Rearranged
<1> HIDE DEF place
<1>6. Rearranged(s, key) \in Seq(V)
  <2>1. \A k \in 1..Len(s) : s[place[k]] \in V
    BY <1>1, <1>4
  <2>2. Rearranged(s, key) \in [1..Len(s) -> V]
    BY <1>1, <1>5, <2>1
  <2> QED BY <1>1, <2>2
<1> QED BY <1>4, <1>5, <1>6

-----------------------------------------------------------------------------
\* Induction over the natural numbers, for a set of them.
LEMMA Induction ==
  ASSUME NEW S, 0 \in S, \A n \in Nat : n \in S => n + 1 \in S
  PROVE  Nat \subseteq S
<1> DEFINE rest == Nat \ S
<1> SUFFICES ASSUME rest # {} PROVE FALSE
  OBVIOUS
<1>1. PICK n \in rest : \A m \in rest : ~ (<<m, n>> \in OpToRel(<, Nat))
  BY WFMin, NatLessThanWellFounded
<1>2. n \in Nat \ {0}
  OBVIOUS
<1>3. n - 1 \in Nat /\ n - 1 < n /\ (n - 1) + 1 = n
  BY <1>2
<1>4. <<n - 1, n>> \in OpToRel(<, Nat)
  BY <1>2, <1>3 DEF OpToRel
<1>5. n - 1 \in S
  BY <1>1, <1>3, <1>4
<1> QED BY <1>1, <1>3, <1>5

\* Of some natural numbers there is a least one.
LEMMA LeastExists ==
  ASSUME NEW T \in SUBSET Nat, T # {}
  PROVE  \E n \in T : \A m \in T : n <= m
<1>1. PICK n \in T : \A m \in T : ~ (<<m, n>> \in OpToRel(<, Nat))
  BY WFMin, NatLessThanWellFounded
<1>2. \A m \in T : ~ (m < n)
  BY <1>1 DEF OpToRel
<1> QED BY <1>2

\* Induction up to a bound.
LEMMA InductionUpTo ==
  ASSUME NEW n \in Nat, NEW S, 0 \in S, \A m \in 1..n : m - 1 \in S => m \in S
  PROVE  0..n \subseteq S
<1> DEFINE T == S \cup {m \in Nat : m > n}
<1>1. \A m \in Nat : m \in T => m + 1 \in T
  <2> SUFFICES ASSUME NEW m \in Nat, m \in S, m + 1 <= n PROVE m + 1 \in S
    OBVIOUS
  <2>1. m + 1 \in 1..n /\ (m + 1) - 1 = m
    OBVIOUS
  <2> QED BY <2>1
<1>2. Nat \subseteq T
  BY <1>1, Induction, 0 \in T
<1> QED BY <1>2

\* A scan: a value for each prefix, each computed from the one before.
Scans(scan, n, base, step) ==
    scan[0] = base /\ \A i \in 1..n : scan[i] = step[<<i, scan[i - 1]>>]

LEMMA ScanExists ==
  ASSUME NEW V, NEW n \in Nat, NEW base \in V, NEW step \in [(1..n) \X V -> V]
  PROVE  \E scan \in [0..n -> V] : Scans(scan, n, base, step)
<1> DEFINE S == {m \in Nat : m <= n => \E scan \in [0..m -> V] : Scans(scan, m, base, step)}
<1>1. 0 \in S
  <2>1. [i \in 0..0 |-> base] \in [0..0 -> V] /\ Scans([i \in 0..0 |-> base], 0, base, step)
    BY DEF Scans
  <2> QED BY <2>1
<1>2. ASSUME NEW m \in Nat, m \in S, m + 1 <= n
      PROVE  m + 1 \in S
  <2>1. PICK scan \in [0..m -> V] : Scans(scan, m, base, step)
    BY <1>2
  <2> DEFINE longer == [i \in 0..(m + 1) |-> IF i <= m THEN scan[i] ELSE step[<<m + 1, scan[m]>>]]
  <2>2. step[<<m + 1, scan[m]>>] \in V
    BY <1>2
  <2>3. longer \in [0..(m + 1) -> V]
    BY <2>2
  <2>4. longer[0] = base
    BY <2>1 DEF Scans
  <2>5. ASSUME NEW i \in 1..(m + 1)
        PROVE  longer[i] = step[<<i, longer[i - 1]>>]
    <3>1. CASE i \in 1..m
      <4>1. longer[i] = scan[i] /\ longer[i - 1] = scan[i - 1]
        BY <3>1
      <4> QED BY <3>1, <4>1, <2>1 DEF Scans
    <3>2. CASE i = m + 1
      <4>1. longer[i] = step[<<m + 1, scan[m]>>] /\ longer[i - 1] = scan[m]
        BY <3>2
      <4> QED BY <3>2, <4>1
    <3> QED BY <3>1, <3>2
  <2>6. Scans(longer, m + 1, base, step)
    BY <2>4, <2>5 DEF Scans
  <2> QED BY <2>3, <2>6
<1>3. Nat \subseteq S
  <2>1. \A m \in Nat : m \in S /\ ~(m + 1 <= n) => m + 1 \in S
    OBVIOUS
  <2> HIDE DEF S
  <2>2. \A m \in Nat : m \in S => m + 1 \in S
    BY <1>2, <2>1
  <2> QED BY <1>1, <2>2, Induction
<1>4. n \in S
  BY <1>3
<1> QED BY <1>4

-----------------------------------------------------------------------------
\* Where each element of the first m of some sequences, joined, comes from: the
\* sequence and the index in it, in their order, and none is left out.
Joins(seqs, m, joined, at) ==
    /\ at \in [DOMAIN joined -> (1..m) \X Nat]
    /\ \A k \in DOMAIN joined : /\ at[k][2] \in DOMAIN seqs[at[k][1]]
                               /\ joined[k] = seqs[at[k][1]][at[k][2]]
    /\ \A i \in 1..m : \A j \in DOMAIN seqs[i] : \E k \in DOMAIN joined : at[k] = <<i, j>>
    /\ \A k, l \in DOMAIN joined : k < l => Below(at[k], at[l])

LEMMA Pairs ==
  ASSUME NEW A, NEW B
  PROVE  \A x \in A \X B : x = <<x[1], x[2]>> /\ x[1] \in A /\ x[2] \in B
  OBVIOUS

LEMMA JoinOne ==
  ASSUME NEW V, NEW seqs \in Seq(Seq(V)), NEW m \in Nat, m + 1 \in DOMAIN seqs,
         NEW joined \in Seq(V), NEW at, Joins(seqs, m, joined, at)
  PROVE  \E more : Joins(seqs, m + 1, joined \o seqs[m + 1], more)
<1> DEFINE next == seqs[m + 1]
           longer == joined \o next
           more == [k \in DOMAIN longer |-> IF k <= Len(joined) THEN at[k]
                                            ELSE <<m + 1, k - Len(joined)>>]
<1>1. /\ next \in Seq(V) /\ longer \in Seq(V)
      /\ Len(next) \in Nat /\ Len(joined) \in Nat /\ Len(longer) = Len(joined) + Len(next)
      /\ DOMAIN next = 1..Len(next) /\ DOMAIN joined = 1..Len(joined)
      /\ DOMAIN longer = 1..(Len(joined) + Len(next))
  OBVIOUS
<1>2. ASSUME NEW k \in DOMAIN longer, k <= Len(joined)
      PROVE  k \in DOMAIN joined /\ longer[k] = joined[k] /\ more[k] = at[k]
  BY <1>1, <1>2
<1>3. ASSUME NEW k \in DOMAIN longer, ~(k <= Len(joined))
      PROVE  /\ k - Len(joined) \in DOMAIN next /\ longer[k] = next[k - Len(joined)]
             /\ more[k] = <<m + 1, k - Len(joined)>>
  BY <1>1, <1>3
<1> HIDE DEF longer, more
<1>4. ASSUME NEW k \in DOMAIN joined
      PROVE  /\ at[k] = <<at[k][1], at[k][2]>> /\ at[k][1] \in 1..m /\ at[k][2] \in Nat
             /\ at[k][2] \in DOMAIN seqs[at[k][1]] /\ joined[k] = seqs[at[k][1]][at[k][2]]
  <2>1. at \in [DOMAIN joined -> (1..m) \X Nat]
    BY DEF Joins
  <2>2. at[k] \in (1..m) \X Nat
    BY <2>1, Zenon
  <2>3. at[k] = <<at[k][1], at[k][2]>> /\ at[k][1] \in 1..m /\ at[k][2] \in Nat
    BY <2>2, Pairs
  <2>4. at[k][2] \in DOMAIN seqs[at[k][1]] /\ joined[k] = seqs[at[k][1]][at[k][2]]
    BY Zenon DEF Joins
  <2> QED BY <2>3, <2>4
<1>5. more \in [DOMAIN longer -> (1..(m + 1)) \X Nat]
  <2>1. more = [k \in DOMAIN longer |-> more[k]]
    BY DEF more
  <2>2. ASSUME NEW k \in DOMAIN longer
        PROVE  more[k] \in (1..(m + 1)) \X Nat
    <3>1. CASE k <= Len(joined)
      <4>1. more[k] = <<at[k][1], at[k][2]>> /\ at[k][1] \in 1..m /\ at[k][2] \in Nat
        BY <1>2, <1>4, <3>1
      <4>2. at[k][1] \in 1..(m + 1)
        BY <4>1
      <4> QED BY <4>1, <4>2
    <3>2. CASE ~(k <= Len(joined))
      <4>1. k - Len(joined) \in Nat /\ m + 1 \in 1..(m + 1)
        BY <1>1, <1>3, <3>2
      <4>2. <<m + 1, k - Len(joined)>> \in (1..(m + 1)) \X Nat
        BY <4>1
      <4>3. more[k] = <<m + 1, k - Len(joined)>>
        BY <1>3, <3>2
      <4> QED BY <4>2, <4>3
    <3> QED BY <3>1, <3>2
  <2> QED BY <2>1, <2>2
<1>6. ASSUME NEW k \in DOMAIN longer
      PROVE  more[k][2] \in DOMAIN seqs[more[k][1]] /\ longer[k] = seqs[more[k][1]][more[k][2]]
  <2>1. CASE k <= Len(joined)
    BY <1>2, <1>4, <2>1
  <2>2. CASE ~(k <= Len(joined))
    <3>1. more[k][1] = m + 1 /\ more[k][2] = k - Len(joined)
      BY <1>3, <2>2
    <3> QED BY <1>3, <2>2, <3>1
  <2> QED BY <2>1, <2>2
<1>7. ASSUME NEW i \in 1..(m + 1), NEW j \in DOMAIN seqs[i]
      PROVE  \E k \in DOMAIN longer : more[k] = <<i, j>>
  <2>1. CASE i \in 1..m
    <3>1. PICK k \in DOMAIN joined : at[k] = <<i, j>>
      BY <1>7, <2>1 DEF Joins
    <3>2. k \in DOMAIN longer /\ k <= Len(joined)
      BY <1>1
    <3> QED BY <1>2, <3>1, <3>2
  <2>2. CASE i = m + 1
    <3>1. j \in 1..Len(next)
      BY <1>1, <1>7, <2>2
    <3>2. j + Len(joined) \in DOMAIN longer /\ ~(j + Len(joined) <= Len(joined))
      BY <1>1, <3>1
    <3>3. (j + Len(joined)) - Len(joined) = j
      BY <1>1, <3>1
    <3> QED BY <1>3, <2>2, <3>2, <3>3
  <2> QED BY <2>1, <2>2
<1>8. ASSUME NEW k \in DOMAIN longer, NEW l \in DOMAIN longer, k < l
      PROVE  Below(more[k], more[l])
  <2>1. CASE l <= Len(joined)
    <3>1. k <= Len(joined)
      BY <1>1, <1>8, <2>1
    <3> QED BY <1>2, <1>8, <2>1, <3>1 DEF Joins
  <2>2. CASE k <= Len(joined) /\ ~(l <= Len(joined))
    <3>1. more[k][1] \in 1..m /\ more[l][1] = m + 1
      BY <1>2, <1>3, <1>4, <2>2
    <3> QED BY <3>1 DEF Below
  <2>3. CASE ~(k <= Len(joined))
    <3>1. ~(l <= Len(joined))
      BY <1>1, <1>8, <2>3
    <3>2. /\ more[k][1] = m + 1 /\ more[l][1] = m + 1
          /\ more[k][2] = k - Len(joined) /\ more[l][2] = l - Len(joined)
      BY <1>3, <2>3, <3>1
    <3>3. more[k][2] < more[l][2]
      BY <1>1, <1>8, <3>2
    <3> QED BY <3>2, <3>3 DEF Below
  <2> QED BY <2>1, <2>2, <2>3
<1>9. Joins(seqs, m + 1, longer, more)
  BY <1>5, <1>6, <1>7, <1>8 DEF Joins
<1> QED BY <1>9 DEF longer

LEMMA FlattenJoins ==
  ASSUME NEW V, NEW seqs \in Seq(Seq(V))
  PROVE  FlattenSeq(seqs) \in Seq(V) /\ \E at : Joins(seqs, Len(seqs), FlattenSeq(seqs), at)
<1> DEFINE n == Len(seqs)
<1>1. n \in Nat /\ DOMAIN seqs = 1..n /\ \A i \in 1..n : seqs[i] \in Seq(V)
  OBVIOUS
<1>2. CASE n = 0
  <2>1. FlattenSeq(seqs) = <<>> /\ seqs = <<>>
    BY <1>2 DEF FlattenSeq
  <2>2. Joins(seqs, 0, <<>>, <<>>)
    BY <2>1 DEF Joins
  <2> QED BY <1>2, <2>1, <2>2
<1>3. CASE n # 0
  <2> DEFINE Flattens(f) == f = [i \in 1..n |-> IF i = 1 THEN seqs[i] ELSE f[i - 1] \o seqs[i]]
             step == [p \in (1..(n - 1)) \X Seq(V) |-> p[2] \o seqs[p[1] + 1]]
             flatten == CHOOSE f : Flattens(f)
  <2>1. n - 1 \in Nat /\ 1 \in 1..n
    BY <1>1, <1>3
  <2>2. step \in [(1..(n - 1)) \X Seq(V) -> Seq(V)]
    <3>1. ASSUME NEW p \in (1..(n - 1)) \X Seq(V)
          PROVE  p[2] \o seqs[p[1] + 1] \in Seq(V)
      <4>1. p[1] + 1 \in 1..n /\ p[2] \in Seq(V)
        BY <1>1
      <4> QED BY <1>1, <4>1
    <3> QED BY <3>1
  <2>3. PICK scan \in [0..(n - 1) -> Seq(V)] : Scans(scan, n - 1, seqs[1], step)
    BY <1>1, <2>1, <2>2, ScanExists
  <2> DEFINE found == [i \in 1..n |-> scan[i - 1]]
  <2>4. Flattens(found)
    <3>1. ASSUME NEW i \in 1..n
          PROVE  found[i] = IF i = 1 THEN seqs[i] ELSE found[i - 1] \o seqs[i]
      <4>1. CASE i = 1
        BY <2>3, <4>1 DEF Scans
      <4>2. CASE i # 1
        <5>1. i - 1 \in 1..(n - 1) /\ i - 1 \in 1..n /\ (i - 1) - 1 \in 0..(n - 1) /\ (i - 1) + 1 = i
          BY <1>1, <4>2
        <5>2. scan[i - 1] = step[<<i - 1, scan[(i - 1) - 1]>>]
          BY <2>3, <5>1 DEF Scans
        <5>3. scan[(i - 1) - 1] \in Seq(V)
          BY <5>1
        <5>4. step[<<i - 1, scan[(i - 1) - 1]>>] = scan[(i - 1) - 1] \o seqs[(i - 1) + 1]
          BY <5>1, <5>3
        <5> QED BY <4>2, <5>1, <5>2, <5>4
      <4> QED BY <4>1, <4>2
    <3> QED BY <3>1
  <2>5. Flattens(flatten)
    <3> HIDE DEF Flattens, found
    <3> QED BY <2>4
  <2>6. FlattenSeq(seqs) = flatten[n]
    BY <1>3 DEF FlattenSeq
  <2>7. \A i \in 1..n : flatten[i] = IF i = 1 THEN seqs[i] ELSE flatten[i - 1] \o seqs[i]
    BY <2>5
  <2> HIDE DEF flatten
  <2> DEFINE S == {i \in Nat : i \in 1..n => /\ flatten[i] \in Seq(V)
                                             /\ \E at : Joins(seqs, i, flatten[i], at)}
  <2>8. 0 \in S
    OBVIOUS
  <2>9. ASSUME NEW i \in 1..n, i - 1 \in S
        PROVE  i \in S
    <3>1. CASE i = 1
      <4>1. flatten[1] = seqs[1] /\ seqs[1] \in Seq(V) /\ seqs[1] = <<>> \o seqs[1]
        BY <1>1, <2>1, <2>7
      <4>2. Joins(seqs, 0, <<>>, <<>>)
        BY DEF Joins
      <4>3. <<>> \in Seq(V) /\ 0 + 1 \in DOMAIN seqs
        BY <1>1, <2>1
      <4>4. \E at : Joins(seqs, 0 + 1, <<>> \o seqs[0 + 1], at)
        BY <4>2, <4>3, JoinOne
      <4> QED BY <3>1, <4>1, <4>4
    <3>2. CASE i # 1
      <4>1. i - 1 \in 1..n /\ i - 1 \in Nat /\ (i - 1) + 1 = i /\ i \in Nat
        BY <1>1, <3>2
      <4>2. flatten[i] = flatten[i - 1] \o seqs[i] /\ seqs[i] \in Seq(V)
        BY <1>1, <2>7, <3>2
      <4>3. flatten[i - 1] \in Seq(V) /\ \E at : Joins(seqs, i - 1, flatten[i - 1], at)
        BY <2>9, <4>1
      <4>4. PICK at : Joins(seqs, i - 1, flatten[i - 1], at)
        BY <4>3
      <4>5. \E more : Joins(seqs, (i - 1) + 1, flatten[i - 1] \o seqs[(i - 1) + 1], more)
        BY <1>1, <4>1, <4>3, <4>4, JoinOne
      <4>6. flatten[i] \in Seq(V)
        BY <4>2, <4>3
      <4>7. \E more : Joins(seqs, i, flatten[i], more)
        BY <4>1, <4>2, <4>5
      <4> QED BY <4>6, <4>7
    <3> QED BY <3>1, <3>2
  <2>10. n \in S
    <3> HIDE DEF S
    <3>1. 0..n \subseteq S
      BY <1>1, <2>8, <2>9, InductionUpTo
    <3> QED BY <1>1, <3>1
  <2> QED BY <1>1, <1>3, <2>6, <2>10
<1> QED BY <1>2, <1>3

-----------------------------------------------------------------------------
\* The elements of a finite set one after the other.
LEMMA SetToSeqKeeps ==
  ASSUME NEW T, IsFiniteSet(T)
  PROVE  /\ SetToSeq(T) \in Seq(T)
         /\ \A x \in T : \E k \in DOMAIN SetToSeq(T) : SetToSeq(T)[k] = x
<1> DEFINE n == Cardinality(T)
           seq == SetToSeq(T)
<1>1. n \in Nat /\ ExistsBijection(1..n, T)
  BY FS_CardinalityType
<1>2. IsFiniteSet(1..n) /\ Cardinality(1..n) = n
  BY <1>1, FS_Interval, SMT
<1>3. \E f \in [1..n -> T] : IsInjective(f)
  BY <1>1 DEF ExistsBijection, Bijection, Injection
<1>4. seq = CHOOSE f \in [1..n -> T] : IsInjective(f)
  BY DEF SetToSeq
<1> HIDE DEF seq, n
<1>5. seq \in [1..n -> T] /\ IsInjective(seq)
  BY <1>3, <1>4
<1>6. seq \in Injection(1..n, T)
  BY <1>5 DEF Injection
<1>7. seq \in Surjection(1..n, T)
  BY <1>2, <1>6, FS_Injection DEF n
<1>8. seq \in Seq(T) /\ DOMAIN seq = 1..n
  BY <1>1, <1>5
<1> QED BY <1>7, <1>8 DEF Surjection, seq

\* A subsequence begins and ends with the elements at the first and the last of
\* its indices.
LEMMA SubsequenceEnds ==
  ASSUME NEW V, NEW s \in Seq(V), NEW indices \in SUBSET DOMAIN s
  PROVE  /\ Subsequence(s, indices) = <<>> <=> indices = {}
         /\ indices # {} =>
               \E first, last \in indices :
                  /\ \A i \in indices : first <= i /\ i <= last
                  /\ Subsequence(s, indices)[1] = s[first]
                  /\ Last(Subsequence(s, indices)) = s[last]
<1> DEFINE n == Cardinality(indices)
           part == Subsequence(s, indices)
<1>1. PICK place \in [1..n -> indices] :
         /\ n \in Nat
         /\ \A i \in indices : \E k \in 1..n : place[k] = i
         /\ \A k, l \in 1..n : k < l => place[k] < place[l]
         /\ part = [k \in 1..n |-> s[place[k]]]
         /\ part \in Seq(V)
  BY SubsequenceKeeps
<1>2. indices \subseteq Nat
  OBVIOUS
<1> HIDE DEF n, part
<1>3. DOMAIN part = 1..n /\ Len(part) = n
  BY <1>1
<1>4. CASE n = 0
  <2>1. indices = {}
    BY <1>1, <1>4
  <2>2. part = <<>>
    BY <1>1, <1>3, <1>4
  <2> QED BY <2>1, <2>2 DEF part
<1>5. CASE n # 0
  <2>1. 1 \in 1..n /\ n \in 1..n
    BY <1>1, <1>5
  <2>2. place[1] \in indices /\ place[n] \in indices /\ part[1] = s[place[1]] /\ part[n] = s[place[n]]
    BY <1>1, <2>1
  <2>3. ASSUME NEW i \in indices
        PROVE  place[1] <= i /\ i <= place[n]
    <3>1. PICK k \in 1..n : place[k] = i
      BY <1>1
    <3>2. k = 1 \/ place[1] < place[k]
      BY <1>1, <2>1, <3>1
    <3>3. k = n \/ place[k] < place[n]
      BY <1>1, <2>1, <3>1
    <3>4. i \in Int /\ place[1] \in Int /\ place[n] \in Int
      BY <1>2, <2>2
    <3> QED BY <3>1, <3>2, <3>3, <3>4
  <2>4. Last(part) = s[place[n]]
    BY <1>3, <2>2 DEF Last
  <2>5. part # <<>>
    BY <1>3, <1>5
  <2> QED BY <2>2, <2>3, <2>4, <2>5 DEF part
<1> QED BY <1>4, <1>5

\* A sequence sorted by the first part of its keys.
LEMMA SortOrders ==
  ASSUME NEW V, NEW s \in Seq(V), NEW key \in [DOMAIN s -> Int \X Int]
  PROVE  \E place \in [DOMAIN s -> DOMAIN s] :
            /\ Rearranged(s, key) \in Seq(V)
            /\ Rearranged(s, key) = [k \in DOMAIN s |-> s[place[k]]]
            /\ \A i \in DOMAIN s : \E k \in DOMAIN s : place[k] = i
            /\ \A k, l \in DOMAIN s : k <= l => key[place[k]][1] <= key[place[l]][1]
<1>1. PICK place \in [DOMAIN s -> DOMAIN s] :
         /\ \A i \in DOMAIN s : \E k \in DOMAIN s : place[k] = i
         /\ \A k, l \in DOMAIN s : k < l => place[k] \in Preceding(key, place[l])
         /\ Rearranged(s, key) = [k \in DOMAIN s |-> s[place[k]]]
         /\ Rearranged(s, key) \in Seq(V)
  BY SortKeeps
<1>2. \A i \in DOMAIN s : key[i][1] \in Int /\ key[i][2] \in Int
  OBVIOUS
<1>3. ASSUME NEW k \in DOMAIN s, NEW l \in DOMAIN s, k <= l
      PROVE  key[place[k]][1] <= key[place[l]][1]
  <2>1. place[k] \in DOMAIN s /\ place[l] \in DOMAIN s
    OBVIOUS
  <2>2. key[place[k]][1] \in Int /\ key[place[l]][1] \in Int
    BY <1>2, <2>1
  <2>3. CASE k = l
    BY <2>2, <2>3
  <2>4. CASE k # l
    <3>1. k < l
      BY <1>3, <2>4
    <3>2. \/ Below(key[place[k]], key[place[l]])
          \/ ~Below(key[place[l]], key[place[k]])
      BY <1>1, <3>1 DEF Preceding
    <3> QED BY <2>2, <3>2 DEF Below
  <2> QED BY <2>3, <2>4
<1> QED BY <1>1, <1>3

\* The least and the greatest of some numbers.
LEMMA MinLeast ==
  ASSUME NEW T \in SUBSET Nat, T # {}
  PROVE  Min(T) \in T /\ \A m \in T : Min(T) <= m
  BY LeastExists DEF Min

LEMMA MaxIs ==
  ASSUME NEW T \in SUBSET Int, NEW x \in T, \A y \in T : y <= x
  PROVE  Max(T) = x
<1>1. \A z \in T : (\A y \in T : z >= y) => z = x
  OBVIOUS
<1>2. \A y \in T : x >= y
  OBVIOUS
<1> QED BY <1>1, <1>2 DEF Max

LEMMA GreatestExists ==
  ASSUME NEW n \in Nat, NEW T \in SUBSET (0..n), T # {}
  PROVE  \E g \in T : \A m \in T : m <= g
<1> DEFINE back == {n - m : m \in T}
<1>1. back \in SUBSET Nat /\ back # {}
  <2>1. \A m \in T : n - m \in Nat
    OBVIOUS
  <2>2. PICK m \in T : TRUE
    OBVIOUS
  <2>3. n - m \in back
    OBVIOUS
  <2> QED BY <2>1, <2>3
<1>2. PICK l \in back : \A m \in back : l <= m
  <2> HIDE DEF back
  <2> QED BY <1>1, LeastExists
<1>3. PICK g \in T : l = n - g
  OBVIOUS
<1>4. ASSUME NEW m \in T
      PROVE  m <= g
  <2>1. n - m \in back
    OBVIOUS
  <2>2. n - g <= n - m
    BY <1>2, <1>3, <2>1
  <2>3. n \in Int /\ m \in Int /\ g \in Int
    OBVIOUS
  <2> QED BY <2>2, <2>3
<1> QED BY <1>4
=============================================================================
