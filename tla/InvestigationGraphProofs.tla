----------------------- MODULE InvestigationGraphProofs -----------------------
(* What a run of the agent graph keeps of the evidence, and what of it the      *)
(* report rests on, for any agents, flights, texts and citations.              *)
EXTENDS InvestigationGraph, OrderingProofs

-----------------------------------------------------------------------------
(* Sorting and deduplication of anomalies. *)

ElementsOf(s) == {s[i] : i \in DOMAIN s}
KeysOf(s) == {Key(s[i]) : i \in DOMAIN s}
First(s, i) == \A j \in 1..(i - 1) : Key(s[j]) # Key(s[i])
Distinct(s) == \A i, j \in DOMAIN s : i < j => Key(s[i]) # Key(s[j])

LEMMA Ranks ==
  ASSUME NEW a \in Anomalies
  PROVE  /\ a.time \in Int /\ Rank[a.severity] \in 0..3 /\ a.severity \in Severities
         /\ (Rank[a.severity] = 0 <=> a.severity = "FATAL")
  BY DEF Anomalies, Rank, Severities

\* Deduplication keeps the first anomaly of each key, and nothing else.
LEMMA DeduplicatedKeeps ==
  ASSUME NEW s \in Seq(Anomalies)
  PROVE  LET t == Deduplicated(s) IN
         /\ t \in Seq(Anomalies) /\ Distinct(t)
         /\ \A k \in DOMAIN t : \E i \in DOMAIN s : First(s, i) /\ t[k] = s[i]
         /\ \A i \in DOMAIN s : First(s, i) => \E k \in DOMAIN t : t[k] = s[i]
         /\ KeysOf(t) = KeysOf(s)
<1> DEFINE firsts == {i \in DOMAIN s : \A j \in 1..(i - 1) : Key(s[j]) # Key(s[i])}
           t == Subsequence(s, firsts)
           n == Cardinality(firsts)
<1>1. Deduplicated(s) = t
  BY DEF Deduplicated
<1>2. Len(s) \in Nat /\ DOMAIN s = 1..Len(s) /\ firsts \subseteq DOMAIN s
  OBVIOUS
<1>3. PICK place \in [1..n -> firsts] :
         /\ n \in Nat
         /\ \A i \in firsts : \E k \in 1..n : place[k] = i
         /\ \A k, l \in 1..n : k < l => place[k] < place[l]
         /\ t = [k \in 1..n |-> s[place[k]]]
         /\ t \in Seq(Anomalies)
  BY <1>2, SubsequenceKeeps
<1> HIDE DEF t, n
<1>4. \A i : i \in firsts <=> i \in DOMAIN s /\ First(s, i)
  BY DEF First
<1> HIDE DEF firsts
<1>5. DOMAIN t = 1..n /\ \A k \in 1..n : place[k] \in firsts /\ t[k] = s[place[k]]
  BY <1>3
<1>6. ASSUME NEW i \in DOMAIN t, NEW j \in DOMAIN t, i < j
      PROVE  Key(t[i]) # Key(t[j])
  <2>1. place[i] < place[j] /\ place[i] \in 1..Len(s) /\ place[j] \in 1..Len(s)
    BY <1>2, <1>3, <1>4, <1>5, <1>6
  <2>2. place[i] \in 1..(place[j] - 1)
    BY <1>2, <2>1
  <2>3. Key(s[place[i]]) # Key(s[place[j]])
    BY <1>4, <1>5, <2>2 DEF First
  <2> QED BY <1>5, <2>3
<1>7. \A k \in DOMAIN t : \E i \in DOMAIN s : First(s, i) /\ t[k] = s[i]
  BY <1>4, <1>5
<1>8. \A i \in DOMAIN s : First(s, i) => \E k \in DOMAIN t : t[k] = s[i]
  BY <1>3, <1>4, <1>5
<1>9. ASSUME NEW i \in DOMAIN s
      PROVE  \E f \in DOMAIN s : First(s, f) /\ Key(s[f]) = Key(s[i])
  <2> DEFINE same == {j \in DOMAIN s : Key(s[j]) = Key(s[i])}
  <2>1. same \in SUBSET Nat /\ same # {}
    BY <1>2
  <2>2. PICK f \in same : \A j \in same : f <= j
    BY <2>1, LeastExists
  <2>3. ASSUME NEW j \in 1..(f - 1) PROVE Key(s[j]) # Key(s[f])
    <3>1. j \in DOMAIN s /\ ~(f <= j)
      BY <1>2, <2>1
    <3> QED BY <2>2, <3>1
  <2> QED BY <2>2, <2>3 DEF First
<1>10. KeysOf(t) = KeysOf(s)
  BY <1>7, <1>8, <1>9 DEF KeysOf
<1> QED BY <1>1, <1>3, <1>6, <1>7, <1>8, <1>10 DEF Distinct

\* Where no key occurs twice, every anomaly is the first.
LEMMA DistinctFirst ==
  ASSUME NEW s \in Seq(Anomalies), Distinct(s), NEW i \in DOMAIN s
  PROVE  First(s, i)
<1>1. DOMAIN s = 1..Len(s) /\ Len(s) \in Nat
  OBVIOUS
<1>2. \A j \in 1..(i - 1) : j \in DOMAIN s /\ j < i
  BY <1>1
<1> QED BY <1>2 DEF Distinct, First

\* A sort keeps the anomalies, and their keys apart.
LEMMA SortedKeeps ==
  ASSUME NEW s \in Seq(Anomalies), NEW key \in [DOMAIN s -> Int \X Int]
  PROVE  LET t == Rearranged(s, key) IN
         /\ t \in Seq(Anomalies) /\ DOMAIN t = DOMAIN s
         /\ ElementsOf(t) = ElementsOf(s) /\ KeysOf(t) = KeysOf(s)
         /\ Distinct(s) => Distinct(t)
<1> DEFINE t == Rearranged(s, key)
<1>1. PICK place \in [DOMAIN s -> DOMAIN s] :
            /\ \A i \in DOMAIN s : \E k \in DOMAIN s : place[k] = i
            /\ \A k, l \in DOMAIN s : k < l => place[k] \in Preceding(key, place[l])
            /\ t = [k \in DOMAIN s |-> s[place[k]]]
            /\ t \in Seq(Anomalies)
  BY SortKeeps
<1> HIDE DEF t
<1>2. DOMAIN t = DOMAIN s /\ \A k \in DOMAIN s : t[k] = s[place[k]] /\ place[k] \in DOMAIN s
  BY <1>1
<1>3. ElementsOf(t) = ElementsOf(s) /\ KeysOf(t) = KeysOf(s)
  <2>1. \A k \in DOMAIN t : \E i \in DOMAIN s : t[k] = s[i]
    BY <1>2
  <2>2. \A i \in DOMAIN s : \E k \in DOMAIN t : t[k] = s[i]
    BY <1>1, <1>2
  <2> QED BY <2>1, <2>2 DEF ElementsOf, KeysOf
<1>4. ASSUME Distinct(s), NEW i \in DOMAIN t, NEW j \in DOMAIN t, i < j
      PROVE  Key(t[i]) # Key(t[j])
  <2>1. place[i] \in DOMAIN s /\ place[j] \in DOMAIN s /\ place[i] # place[j]
    <3>1. place[i] \in Preceding(key, place[j])
      BY <1>1, <1>2, <1>4
    <3>2. DOMAIN s \in SUBSET Int
      OBVIOUS
    <3>3. StrictOrder(DOMAIN s, [k \in DOMAIN s |-> Preceding(key, k)])
      BY <3>2, KeysOrdered
    <3>4. place[j] \notin Preceding(key, place[j])
      BY <1>2, <3>3 DEF StrictOrder
    <3> QED BY <1>2, <3>1, <3>4
  <2>2. place[i] < place[j] \/ place[j] < place[i]
    BY <2>1
  <2> QED BY <1>2, <1>4, <2>1, <2>2 DEF Distinct
<1>5. Distinct(s) => Distinct(t)
  BY <1>4 DEF Distinct
<1> QED BY <1>1, <1>2, <1>3, <1>5 DEF t

LEMMA KeysTyped ==
  ASSUME NEW s \in Seq(Anomalies)
  PROVE  /\ [i \in DOMAIN s |-> EarlierFirst(s[i])] \in [DOMAIN s -> Int \X Int]
         /\ [i \in DOMAIN s |-> EarlierThenSeverer(s[i])] \in [DOMAIN s -> Int \X Int]
         /\ [i \in DOMAIN s |-> SevererThenEarlier(s[i])] \in [DOMAIN s -> Int \X Int]
         /\ [i \in DOMAIN s |-> SevererThenLater(s[i])] \in [DOMAIN s -> Int \X Int]
<1>1. ASSUME NEW i \in DOMAIN s
      PROVE  s[i].time \in Int /\ Rank[s[i].severity] \in Int
  <2>1. s[i] \in Anomalies
    OBVIOUS
  <2> QED BY <2>1, Ranks
<1> QED BY <1>1 DEF EarlierFirst, EarlierThenSeverer, SevererThenEarlier, SevererThenLater

\* sorted(unique_anomalies, key=timestamp).
LEMMA EarlierFirstSorts ==
  ASSUME NEW s \in Seq(Anomalies), NEW t, t = SortBy(s, EarlierFirst)
  PROVE  \A i, j \in DOMAIN t : i < j => t[i].time <= t[j].time
<1> DEFINE key == [i \in DOMAIN s |-> EarlierFirst(s[i])]
<1>1. key \in [DOMAIN s -> Int \X Int]
  BY KeysTyped
<1>2. PICK place \in [DOMAIN s -> DOMAIN s] :
            /\ \A i \in DOMAIN s : \E k \in DOMAIN s : place[k] = i
            /\ \A k, l \in DOMAIN s : k < l => place[k] \in Preceding(key, place[l])
            /\ Rearranged(s, key) = [k \in DOMAIN s |-> s[place[k]]]
            /\ Rearranged(s, key) \in Seq(Anomalies)
  <2> HIDE DEF key
  <2> QED BY <1>1, SortKeeps
<1>3. t = [k \in DOMAIN s |-> s[place[k]]]
  BY <1>2 DEF SortBy
<1>4. \A i \in DOMAIN s : s[i].time \in Int /\ key[i][1] = s[i].time
  <2>1. \A i \in DOMAIN s : s[i] \in Anomalies
    OBVIOUS
  <2> QED BY <2>1, Ranks DEF EarlierFirst
<1> HIDE DEF key
<1>5. ASSUME NEW i \in DOMAIN t, NEW j \in DOMAIN t, i < j
      PROVE  t[i].time <= t[j].time
  <2>1. place[i] \in Preceding(key, place[j]) /\ place[i] \in DOMAIN s /\ place[j] \in DOMAIN s
    BY <1>2, <1>3, <1>5
  <2>2. key[place[i]][1] <= key[place[j]][1]
    BY <1>4, <2>1 DEF Preceding, Below
  <2> QED BY <1>3, <1>4, <2>1, <2>2
<1> QED BY <1>5

\* The anomaly that a root cause is anchored to is one of the severest.
LEMMA TopSeverest ==
  ASSUME NEW s \in Seq(Anomalies), s # <<>>
  PROVE  \E i \in DOMAIN s : /\ Top(s) = s[i]
                             /\ \A j \in DOMAIN s : Rank[s[i].severity] <= Rank[s[j].severity]
<1> DEFINE key == [i \in DOMAIN s |-> SevererThenLater(s[i])]
<1>1. key \in [DOMAIN s -> Int \X Int]
  BY KeysTyped
<1>2. PICK place \in [DOMAIN s -> DOMAIN s] :
            /\ \A i \in DOMAIN s : \E k \in DOMAIN s : place[k] = i
            /\ \A k, l \in DOMAIN s : k < l => place[k] \in Preceding(key, place[l])
            /\ Rearranged(s, key) = [k \in DOMAIN s |-> s[place[k]]]
            /\ Rearranged(s, key) \in Seq(Anomalies)
  <2> HIDE DEF key
  <2> QED BY <1>1, SortKeeps
<1>3. Len(s) \in Nat /\ DOMAIN s = 1..Len(s) /\ 1 \in DOMAIN s
  OBVIOUS
<1>4. \A i \in DOMAIN s : Rank[s[i].severity] \in Int /\ key[i][1] = Rank[s[i].severity]
  <2>1. \A i \in DOMAIN s : s[i] \in Anomalies
    OBVIOUS
  <2> QED BY <2>1, Ranks DEF SevererThenLater
<1>5. Top(s) = s[place[1]]
  <2>1. Top(s) = Head(Rearranged(s, key))
    BY DEF Top, SortBy
  <2>2. Head(Rearranged(s, key)) = Rearranged(s, key)[1]
    <3> HIDE DEF key
    <3> QED BY <1>2, <1>3
  <2> QED BY <1>2, <1>3, <2>1, <2>2
<1> HIDE DEF key
<1>6. ASSUME NEW j \in DOMAIN s
      PROVE  Rank[s[place[1]].severity] <= Rank[s[j].severity]
  <2>1. PICK k \in DOMAIN s : place[k] = j
    BY <1>2
  <2>2. CASE k = 1
    BY <1>4, <2>1, <2>2
  <2>3. CASE k # 1
    <3>1. place[1] \in Preceding(key, j) /\ place[1] \in DOMAIN s
      <4>1. 1 < k
        BY <1>3, <2>3
      <4> QED BY <1>2, <1>3, <2>1, <4>1
    <3> QED BY <1>4, <3>1 DEF Preceding, Below
  <2> QED BY <2>2, <2>3
<1> QED BY <1>3, <1>5, <1>6

\* For each of the anomalies there is a first one of its key, and it is as severe.
SeverestFirst(s, all) ==
    \A a \in all : \E i \in DOMAIN s :
        First(s, i) /\ Key(s[i]) = Key(a) /\ Rank[s[i].severity] <= Rank[a.severity]

\* The parse phase saves what its rules emit, and of a rule that fires at two
\* severities at one time the severer first.
LEMMA Parses ==
  ASSUME log \in Logs
  PROVE  LET s == ParsePhase(log) IN
         s \in Seq(Anomalies) /\ ElementsOf(s) = Parsed /\ SeverestFirst(s, Parsed)
<1> DEFINE seqs == [i \in DOMAIN RuleOrder |-> log.emits[RuleOrder[i]]]
           flat == FlattenSeq(seqs)
           key == [i \in DOMAIN flat |-> EarlierThenSeverer(flat[i])]
           s == ParsePhase(log)
<1>1. seqs \in Seq(Seq(Anomalies)) /\ DOMAIN seqs = DOMAIN RuleOrder /\ DOMAIN seqs = 1..Len(seqs)
  <2>1. \A i \in DOMAIN RuleOrder : log.emits[RuleOrder[i]] \in Seq(Anomalies)
    BY GraphAssumption
  <2>2. Len(RuleOrder) \in Nat /\ DOMAIN RuleOrder = 1..Len(RuleOrder)
    BY GraphAssumption
  <2> QED BY <2>1, <2>2
<1>2. flat \in Seq(Anomalies) /\ \E at : Joins(seqs, Len(seqs), flat, at)
  <2> HIDE DEF seqs
  <2> QED BY <1>1, FlattenJoins
<1>3. ElementsOf(flat) = Parsed
  <2>1. PICK at : Joins(seqs, Len(seqs), flat, at)
    BY <1>2
  <2> HIDE DEF flat
  <2>2. Parsed = UNION {ElementsOf(seqs[i]) : i \in DOMAIN seqs}
    BY <1>1 DEF Parsed, Emitted, ElementsOf
  <2> HIDE DEF seqs
  <2>3. \A k \in DOMAIN flat : \E i \in DOMAIN seqs : \E j \in DOMAIN seqs[i] : flat[k] = seqs[i][j]
    BY <1>1, <2>1 DEF Joins
  <2>4. ASSUME NEW i \in DOMAIN seqs, NEW j \in DOMAIN seqs[i]
        PROVE  \E k \in DOMAIN flat : flat[k] = seqs[i][j]
    <3>1. PICK k \in DOMAIN flat : at[k] = <<i, j>>
      BY <1>1, <2>1 DEF Joins
    <3>2. flat[k] = seqs[at[k][1]][at[k][2]]
      BY <2>1 DEF Joins
    <3> QED BY <3>1, <3>2
  <2> QED BY <2>2, <2>3, <2>4 DEF ElementsOf
<1>4. key \in [DOMAIN flat -> Int \X Int]
  BY <1>2, KeysTyped
<1>5. s = Rearranged(flat, key)
  BY DEF ParsePhase, SortBy
<1> HIDE DEF flat, seqs, s
<1>6. s \in Seq(Anomalies) /\ DOMAIN s = DOMAIN flat /\ ElementsOf(s) = Parsed
  <2> HIDE DEF key
  <2> QED BY <1>2, <1>3, <1>4, <1>5, SortedKeeps
<1>7. PICK place \in [DOMAIN flat -> DOMAIN flat] :
         /\ \A i \in DOMAIN flat : \E k \in DOMAIN flat : place[k] = i
         /\ \A k, l \in DOMAIN flat : k < l => place[k] \in Preceding(key, place[l])
         /\ s = [k \in DOMAIN flat |-> flat[place[k]]]
  <2> HIDE DEF key
  <2>1. \E place \in [DOMAIN flat -> DOMAIN flat] :
         /\ \A i \in DOMAIN flat : \E k \in DOMAIN flat : place[k] = i
         /\ \A k, l \in DOMAIN flat : k < l => place[k] \in Preceding(key, place[l])
         /\ Rearranged(flat, key) = [k \in DOMAIN flat |-> flat[place[k]]]
         /\ Rearranged(flat, key) \in Seq(Anomalies)
    BY <1>2, <1>4, SortKeeps
  <2> QED BY <1>5, <2>1
<1>8. ASSUME NEW i \in DOMAIN flat
      PROVE  /\ flat[i].time \in Int /\ Rank[flat[i].severity] \in Int
             /\ key[i][1] = flat[i].time /\ key[i][2] = Rank[flat[i].severity]
  <2>1. flat[i] \in Anomalies
    BY <1>2
  <2> QED BY <2>1, Ranks DEF EarlierThenSeverer
<1> HIDE DEF key
<1>9. ASSUME NEW a \in Parsed
      PROVE  \E i \in DOMAIN s :
               First(s, i) /\ Key(s[i]) = Key(a) /\ Rank[s[i].severity] <= Rank[a.severity]
  <2>1. PICK k \in DOMAIN s : s[k] = a
    BY <1>6 DEF ElementsOf
  <2> DEFINE same == {i \in DOMAIN s : Key(s[i]) = Key(a)}
  <2>2. DOMAIN s = 1..Len(s) /\ Len(s) \in Nat /\ k \in same
    BY <1>6, <2>1
  <2>3. same \in SUBSET Nat /\ same # {}
    BY <2>2
  <2>4. PICK i \in same : \A j \in same : i <= j
    BY <2>3, LeastExists
  <2>5. First(s, i)
    <3>1. ASSUME NEW j \in 1..(i - 1) PROVE Key(s[j]) # Key(s[i])
      <4>1. j \in DOMAIN s /\ ~(i <= j)
        BY <2>2, <2>3
      <4> QED BY <2>4, <4>1
    <3> QED BY <3>1 DEF First
  <2>6. Rank[s[i].severity] <= Rank[a.severity]
    <3>1. /\ i \in DOMAIN flat /\ k \in DOMAIN flat /\ i <= k
          /\ place[i] \in DOMAIN flat /\ place[k] \in DOMAIN flat
          /\ s[i] = flat[place[i]] /\ a = flat[place[k]] /\ s[i].time = a.time
      BY <1>6, <1>7, <2>1, <2>2, <2>4 DEF Key
    <3>2. CASE i = k
      BY <1>8, <2>1, <3>1, <3>2
    <3>3. CASE i < k
      <4>1. place[i] \in Preceding(key, place[k])
        BY <1>7, <3>1, <3>3
      <4> QED BY <1>8, <3>1, <4>1 DEF Preceding, Below
    <3> QED BY <2>2, <3>1, <3>2, <3>3
  <2> QED BY <2>4, <2>5, <2>6
<1> QED BY <1>6, <1>9 DEF SeverestFirst, s

-----------------------------------------------------------------------------
(* What the crash investigator does to the factors that its model offers. *)

\* A factor that cites something for each domain it claims, and one that has been
\* cut down to the evidence there is.
Covered(f) == \A d \in FactorClaims(f.text) : f.cited \cap Evidence[d] # {}
Supported(f) == f.cited \subseteq EvidenceIds /\ Covered(f)

Sorted ==
    /\ \A f \in factors : Supported(f)
    /\ \A f \in offered : f \in questions \/ \E g \in factors : g.text = f.text
    /\ factors \cap questions = {}

\* There are no factors before the crash investigator has run, and no report
\* before the writer has.
Pending ==
    /\ pc \notin {"writer", "done"} => offered = {} /\ factors = {} /\ questions = {}
    /\ pc # "done" => report = Nothing
    /\ report # Nothing => report.factors = factors

FactorInv == Sorted /\ Pending

-----------------------------------------------------------------------------
\* Trimming a grounded factor leaves it grounded.
LEMMA Trimmed ==
  ASSUME NEW valid, NEW g \in Factors, IsGrounded(g, valid),
         NEW f, f = [g EXCEPT !.cited = g.cited \cap valid]
  PROVE  f.text = g.text /\ f.cited \subseteq valid /\ Covered(f) /\ IsGrounded(f, valid)
<1>1. f.text = g.text /\ f.cited = g.cited \cap valid
  BY DEF Factors
<1>2. f.cited \cap valid = g.cited \cap valid
  BY <1>1
<1>3. Covered(f)
  BY <1>1 DEF Covered, IsGrounded, Unsupported
<1>4. IsGrounded(f, valid)
  BY <1>1, <1>2 DEF IsGrounded
<1> QED BY <1>1, <1>3, <1>4

\* Evidence is only added, once factors have been judged by it.
LEMMA MoreEvidence ==
  ASSUME Sorted, EvidenceIds \subseteq EvidenceIds', UNCHANGED <<offered, factors, questions>>
  PROVE  Sorted'
  BY DEF Sorted, Supported

LEMMA InvestigateSorts ==
  ASSUME Investigate
  PROVE  Sorted'
<1>1. PICK some \in {{}} \cup {{f} : f \in Factors} :
         /\ offered' = some
         /\ factors' = GroundedFactors(some, EvidenceIds)
         /\ questions' = {f \in some : ~IsGrounded(f, EvidenceIds)}
  BY DEF Investigate
<1>2. some \subseteq Factors
  OBVIOUS
<1>3. EvidenceIds \subseteq EvidenceIds'
  BY DEF Investigate, EvidenceIds, RulesIn
<1>4. ASSUME NEW f \in factors'
      PROVE  Supported(f)' /\ f \notin questions'
  <2>1. PICK g \in some : /\ IsGrounded(g, EvidenceIds)
                          /\ f = [g EXCEPT !.cited = g.cited \cap EvidenceIds]
    BY <1>1, <1>4 DEF GroundedFactors
  <2>2. f.cited \subseteq EvidenceIds /\ Covered(f) /\ IsGrounded(f, EvidenceIds)
    BY <1>2, <2>1, Trimmed
  <2> QED BY <1>1, <1>3, <2>2 DEF Supported
<1>5. ASSUME NEW f \in offered', f \notin questions'
      PROVE  \E g \in factors' : g.text = f.text
  <2>1. f \in some /\ IsGrounded(f, EvidenceIds)
    BY <1>1, <1>5
  <2>2. PICK g : g = [f EXCEPT !.cited = f.cited \cap EvidenceIds]
    OBVIOUS
  <2>3. g \in factors'
    BY <1>1, <2>1, <2>2 DEF GroundedFactors
  <2>4. g.text = f.text
    BY <1>2, <2>1, <2>2, Trimmed
  <2> QED BY <2>3, <2>4
<1> QED BY <1>4, <1>5 DEF Sorted

\* The report lists the factors of the state, whatever else the gate replaces.
LEMMA WriteLists ==
  ASSUME Write
  PROVE  report'.factors = factors
<1>1. PICK summary \in Texts, chain \in Texts, own \in Texts, answer \in Classifications :
      \E root \in RootsFrom(own) :
         report' = SafetyGate([classification |-> Classified(answer),
                               registry       |-> Registry,
                               summary        |-> summary,
                               chain          |-> chain,
                               root           |-> root,
                               factors        |-> factors,
                               valid          |-> TRUE],
                              EvidenceDomains(EvidenceIds))
  BY DEF Write
<1>2. ASSUME NEW class, NEW registry, NEW s, NEW c, NEW r, NEW allowed
      PROVE  SafetyGate([classification |-> class, registry |-> registry, summary |-> s,
                         chain |-> c, root |-> r, factors |-> factors, valid |-> TRUE],
                        allowed).factors = factors
  BY DEF SafetyGate
<1> QED BY <1>1, <1>2
-----------------------------------------------------------------------------
LEMMA InitFactors == Init => FactorInv
  BY DEF Init, FactorInv, Sorted, Supported, Pending

LEMMA NextFactors == FactorInv /\ [Next]_vars => FactorInv'
<1> SUFFICES ASSUME FactorInv, [Next]_vars PROVE FactorInv'
  OBVIOUS
<1>1. CASE Timeline \/ (\E a \in Agents : Merge(a)) \/ Join \/ Compare
  <2>1. /\ pc \notin {"writer", "done"} /\ pc' \notin {"writer", "done"}
        /\ UNCHANGED <<offered, factors, questions, report>>
    BY <1>1 DEF Timeline, Merge, Join, Compare, Unread
  <2> QED BY <2>1 DEF FactorInv, Pending, Sorted
<1>2. CASE Investigate
  <2>1. report = Nothing /\ report' = Nothing /\ pc' = "writer"
    BY <1>2 DEF Investigate, FactorInv, Pending
  <2> QED BY <1>2, <2>1, InvestigateSorts DEF FactorInv, Pending
<1>3. CASE Write
  <2>1. Sorted'
    BY <1>3, MoreEvidence DEF Write, FactorInv, EvidenceIds, RulesIn
  <2>2. pc' = "done" /\ factors' = factors
    BY <1>3 DEF Write
  <2> QED BY <1>3, <2>1, <2>2, WriteLists DEF FactorInv, Pending
<1>4. CASE InvestigationRaises \/ WritingRaises \/ UNCHANGED vars
  <2>1. UNCHANGED <<anomalies, findings, offered, factors, questions, report>>
    BY <1>4 DEF InvestigationRaises, WritingRaises, vars, Unread
  <2>2. Sorted'
    BY <2>1, MoreEvidence DEF FactorInv, EvidenceIds, RulesIn
  <2>3. Pending'
    BY <1>4, <2>1 DEF InvestigationRaises, WritingRaises, vars, FactorInv, Pending
  <2> QED BY <2>2, <2>3 DEF FactorInv
<1> QED BY <1>1, <1>2, <1>3, <1>4 DEF Next

\* Whatever the model offers and cites, and whoever raises: what the report
\* presents as a contributing factor cites evidence of this run for each domain it
\* claims, what is not covered is an open question, and nothing is lost
\* (validate_contributing_factors of agents/crash_investigator.py).
THEOREM FactorsGroundedHeld == Spec => []FactorsGrounded
<1>1. FactorInv => FactorsGrounded
  BY DEF FactorInv, Sorted, Supported, Covered, Pending, FactorsGrounded
<1> QED BY <1>1, InitFactors, NextFactors, PTL DEF Spec

-----------------------------------------------------------------------------
(* What the merge, the report and the root cause keep of the evidence. *)

LEMMA AppendKeeps ==
  ASSUME NEW s \in Seq(Anomalies), NEW t \in Seq(Anomalies), NEW all
  PROVE  /\ s \o t \in Seq(Anomalies)
         /\ KeysOf(s \o t) = KeysOf(s) \cup KeysOf(t)
         /\ SeverestFirst(s, all) => SeverestFirst(s \o t, all)
<1>1. /\ Len(s) \in Nat /\ Len(t) \in Nat /\ s \o t \in Seq(Anomalies)
      /\ DOMAIN s = 1..Len(s) /\ DOMAIN t = 1..Len(t) /\ DOMAIN (s \o t) = 1..(Len(s) + Len(t))
      /\ \A i \in DOMAIN s : i \in DOMAIN (s \o t) /\ (s \o t)[i] = s[i]
      /\ \A i \in DOMAIN (s \o t) : i \notin DOMAIN s =>
            i - Len(s) \in DOMAIN t /\ (s \o t)[i] = t[i - Len(s)]
  OBVIOUS
<1>2. \A i \in DOMAIN t : i + Len(s) \in DOMAIN (s \o t) /\ (s \o t)[i + Len(s)] = t[i]
  <2> SUFFICES ASSUME NEW i \in DOMAIN t
               PROVE  i + Len(s) \in DOMAIN (s \o t) /\ (s \o t)[i + Len(s)] = t[i]
    OBVIOUS
  <2>1. i + Len(s) \in DOMAIN (s \o t) /\ i + Len(s) \notin DOMAIN s /\ (i + Len(s)) - Len(s) = i
    BY <1>1
  <2> QED BY <1>1, <2>1
<1>3. KeysOf(s \o t) = KeysOf(s) \cup KeysOf(t)
  BY <1>1, <1>2 DEF KeysOf
<1>4. ASSUME NEW i \in DOMAIN s, First(s, i)
      PROVE  First(s \o t, i)
  <2>1. \A j \in 1..(i - 1) : j \in DOMAIN s
    BY <1>1
  <2> QED BY <1>1, <1>4, <2>1 DEF First
<1> QED BY <1>1, <1>3, <1>4 DEF SeverestFirst

LEMMA JoinKeeps ==
  ASSUME NEW s \in Seq(Anomalies), NEW t, t = SortBy(Deduplicated(s), EarlierFirst), NEW all
  PROVE  /\ t \in Seq(Anomalies) /\ Distinct(t) /\ KeysOf(t) = KeysOf(s)
         /\ \A i, j \in DOMAIN t : i < j => t[i].time <= t[j].time
         /\ SeverestFirst(s, all) => SeverestFirst(t, all)
<1> DEFINE unique == Deduplicated(s)
           key == [i \in DOMAIN unique |-> EarlierFirst(unique[i])]
<1>1. /\ unique \in Seq(Anomalies) /\ Distinct(unique) /\ KeysOf(unique) = KeysOf(s)
      /\ \A i \in DOMAIN s : First(s, i) => \E k \in DOMAIN unique : unique[k] = s[i]
  BY DeduplicatedKeeps
<1>2. t = Rearranged(unique, key)
  BY DEF SortBy
<1> HIDE DEF unique
<1>3. key \in [DOMAIN unique -> Int \X Int]
  BY <1>1, KeysTyped
<1> HIDE DEF key
<1>4. /\ t \in Seq(Anomalies) /\ Distinct(t) /\ KeysOf(t) = KeysOf(s)
      /\ ElementsOf(t) = ElementsOf(unique)
  BY <1>1, <1>2, <1>3, SortedKeeps
<1>5. \A i, j \in DOMAIN t : i < j => t[i].time <= t[j].time
  BY <1>1, EarlierFirstSorts DEF unique
<1>6. ASSUME SeverestFirst(s, all), NEW a \in all
      PROVE  \E k \in DOMAIN t :
               First(t, k) /\ Key(t[k]) = Key(a) /\ Rank[t[k].severity] <= Rank[a.severity]
  <2>1. PICK i \in DOMAIN s :
          First(s, i) /\ Key(s[i]) = Key(a) /\ Rank[s[i].severity] <= Rank[a.severity]
    BY <1>6 DEF SeverestFirst
  <2>2. s[i] \in ElementsOf(unique)
    <3>1. PICK k \in DOMAIN unique : unique[k] = s[i]
      BY <1>1, <2>1
    <3> QED BY <3>1 DEF ElementsOf
  <2>3. s[i] \in ElementsOf(t)
    BY <1>4, <2>2
  <2>4. PICK k \in DOMAIN t : t[k] = s[i]
    BY <2>3 DEF ElementsOf
  <2>5. First(t, k)
    BY <1>4, DistinctFirst
  <2> QED BY <2>1, <2>4, <2>5
<1> QED BY <1>4, <1>5, <1>6 DEF SeverestFirst

\* _build_anomaly_registry loses no anomaly, once the merge has made them distinct.
LEMMA RegistryKeeps ==
  ASSUME NEW s \in Seq(Anomalies), Distinct(s),
         NEW t, t = Deduplicated(SortBy(s, SevererThenEarlier))
  PROVE  t \in Seq(Anomalies) /\ ElementsOf(t) = ElementsOf(s)
<1> DEFINE key == [i \in DOMAIN s |-> SevererThenEarlier(s[i])]
           sorted == Rearranged(s, key)
<1>1. t = Deduplicated(sorted)
  BY DEF SortBy
<1>2. key \in [DOMAIN s -> Int \X Int]
  BY KeysTyped
<1> HIDE DEF key
<1>3. sorted \in Seq(Anomalies) /\ Distinct(sorted) /\ ElementsOf(sorted) = ElementsOf(s)
  BY <1>2, SortedKeeps
<1> HIDE DEF sorted
<1>4. /\ t \in Seq(Anomalies)
      /\ \A k \in DOMAIN t : \E i \in DOMAIN sorted : t[k] = sorted[i]
      /\ \A i \in DOMAIN sorted : First(sorted, i) => \E k \in DOMAIN t : t[k] = sorted[i]
  BY <1>1, <1>3, DeduplicatedKeeps
<1>5. ElementsOf(t) = ElementsOf(sorted)
  BY <1>3, <1>4, DistinctFirst DEF ElementsOf
<1> QED BY <1>3, <1>4, <1>5

\* What the parse phase and the agents that have completed have detected.
Detected == (UNION {Emitted(g) : g \in Completed}) \cup (IF hollow THEN {} ELSE Parsed)

TypeInv == TypeOK /\ findings \cap running = {}

EvidenceInv ==
    /\ KeysOf(anomalies) = {Key(a) : a \in Detected}
    /\ Merged => /\ Distinct(anomalies)
                 /\ \A i, j \in DOMAIN anomalies :
                       i < j => anomalies[i].time <= anomalies[j].time
    /\ ~hollow => SeverestFirst(anomalies, Parsed)

\* The registry has all the anomalies, and what the report says follows from them.
ReportInv ==
    report # Nothing =>
        /\ pc = "done"
        /\ ElementsOf(report.registry) = ElementsOf(anomalies)
        /\ report.classification = "CRASH" =>
              \/ crashSeen
              \/ \E i \in DOMAIN anomalies : \/ anomalies[i].severity = "FATAL"
                                             \/ anomalies[i].rule \in CrashClassRules
        /\ crashSeen => report.classification = "CRASH"
        /\ NarrativeClaims(report.summary) \subseteq
              EvidenceDomains(EvidenceIds) \cup report.root
                  \cup (UNION {f.text : f \in report.factors})
        /\ NarrativeClaims(report.summary) \ EvidenceDomains(EvidenceIds) # {} => ~report.valid
        /\ cause # Nothing /\ cause.text # {} => report.root = cause.text

\* A cause that claims what has no evidence says what the rules say of an anomaly.
CauseWorded ==
    cause # Nothing =>
        \/ Unsupported(cause.text, EvidenceIds) = {}
        \/ anomalies = <<>>
        \/ \E i \in DOMAIN anomalies :
              cause.anchor = anomalies[i] /\ cause.text = Described(anomalies[i])

CauseInv ==
    /\ CauseAnchored /\ CauseWorded
    /\ pc \notin {"writer", "done"} => cause = Nothing

GraphInv == TypeInv /\ EvidenceInv /\ ReportInv /\ CauseInv

LEMMA InitGraph == Init => GraphInv
<1> SUFFICES ASSUME Init PROVE GraphInv
  OBVIOUS
<1>1. ParsePhase(log) \in Seq(Anomalies) /\ ElementsOf(ParsePhase(log)) = Parsed
      /\ SeverestFirst(ParsePhase(log), Parsed)
  BY Parses DEF Init
<1>2. anomalies \in Seq(Anomalies)
  BY <1>1 DEF Init
<1>3. TypeInv
  BY <1>2 DEF Init, TypeInv, TypeOK
<1>4. Completed = {} /\ ~Merged
  BY DEF Init, Completed, Merged
<1>5. KeysOf(anomalies) = {Key(a) : a \in Detected}
  <2>1. CASE hollow
    BY <1>4, <2>1 DEF Init, KeysOf, Detected
  <2>2. CASE ~hollow
    <3>1. Detected = Parsed /\ anomalies = ParsePhase(log)
      <4>1. UNION {Emitted(g) : g \in Completed} = {}
        BY <1>4
      <4>2. Detected = Parsed
        BY <2>2, <4>1 DEF Detected
      <4>3. anomalies = ParsePhase(log)
        BY <2>2 DEF Init
      <4> QED BY <4>2, <4>3
    <3> QED BY <1>1, <3>1 DEF KeysOf, ElementsOf
  <2> QED BY <2>1, <2>2
<1>6. ~hollow => SeverestFirst(anomalies, Parsed)
  BY <1>1 DEF Init
<1> QED BY <1>3, <1>4, <1>5, <1>6 DEF GraphInv, EvidenceInv, ReportInv, CauseInv, CauseAnchored,
      CauseWorded, Init

LEMMA TypeStep == TypeInv /\ [Next]_vars => TypeInv'
<1> SUFFICES ASSUME TypeInv, [Next]_vars PROVE TypeInv'
  OBVIOUS
<1> USE DEF TypeInv, TypeOK
<1>1. CASE Timeline
  <2>1. "FlightTimelineAgent" \notin running /\ "FlightTimelineAgent" \in OtherAgents
    BY GraphAssumption DEF OtherAgents
  <2>2. pc' = "domain" /\ UNCHANGED anomalies /\ UNCHANGED Unread
    BY <1>1 DEF Timeline
  <2>3. CASE UNCHANGED <<findings, crashSeen>>
    BY <2>2, <2>3 DEF Unread
  <2>4. CASE findings' = findings \cup {"FlightTimelineAgent"} /\ crashSeen' \in {FALSE, log.crash}
    BY <2>1, <2>2, <2>4 DEF Unread
  <2> QED BY <1>1, <2>3, <2>4 DEF Timeline
<1>2. ASSUME NEW a \in Agents, Merge(a) PROVE TypeInv'
  <2>1. anomalies' \in Seq(Anomalies)
    <3>1. log.emits[a] \in Seq(Anomalies) /\ anomalies \in Seq(Anomalies)
      BY GraphAssumption
    <3>2. anomalies' = anomalies \o log.emits[a] \/ anomalies' = anomalies
      BY <1>2 DEF Merge
    <3> QED BY <3>1, <3>2, AppendKeeps
  <2> QED BY <1>2, <2>1, GraphAssumption DEF Merge, OtherAgents
<1>3. CASE Join
  <2>1. anomalies' \in Seq(Anomalies)
    BY <1>3, JoinKeeps DEF Join
  <2> QED BY <1>3, <2>1 DEF Join, Unread
<1>4. CASE Compare
  BY <1>4, GraphAssumption DEF Compare, Unread, OtherAgents
<1>5. CASE Investigate
  <2>1. offered' \subseteq Factors /\ questions' \subseteq offered'
    BY <1>5 DEF Investigate
  <2> QED BY <1>5, <2>1, GraphAssumption DEF Investigate, OtherAgents
<1>6. CASE Write
  <2>1. report'.classification \in Classifications
    <3>1. PICK r, allowed : /\ report' = SafetyGate(r, allowed)
                            /\ r.classification \in Classifications
                            /\ "classification" \in DOMAIN r
      <4>1. \A answer \in Classifications : Classified(answer) \in Classifications
        BY DEF Classified, Classifications
      <4> QED BY <1>6, <4>1 DEF Write
    <3> QED BY <3>1 DEF SafetyGate
  <2> QED BY <1>6, <2>1 DEF Write
<1>7. CASE InvestigationRaises \/ WritingRaises \/ UNCHANGED vars
  BY <1>7 DEF InvestigationRaises, WritingRaises, vars, Unread
<1> QED BY <1>1, <1>2, <1>3, <1>4, <1>5, <1>6, <1>7 DEF Next

\* An agent completes: its findings count from the merge on, or not at all.
LEMMA MergeEvidence ==
  ASSUME TypeInv, EvidenceInv, NEW a \in Agents, Merge(a)
  PROVE  EvidenceInv'
<1>1. /\ a \in running /\ a \notin findings /\ a \notin blind /\ ~Merged /\ ~Merged'
      /\ UNCHANGED <<log, hollow>> /\ log.emits[a] \in Seq(Anomalies) /\ anomalies \in Seq(Anomalies)
  BY GraphAssumption DEF Merge, TypeInv, TypeOK, Merged
<1>2. \A g : Emitted(g)' = Emitted(g)
  BY <1>1 DEF Emitted
<1>3. Parsed' = Parsed
  BY <1>1 DEF Parsed, Emitted
<1>4. {Key(x) : x \in Emitted(a)} = KeysOf(log.emits[a])
  BY DEF Emitted, KeysOf
<1>5. CASE anomalies' = anomalies \o log.emits[a] /\ findings' = findings \cup {a} /\ UNCHANGED blind
  <2>1. Completed' = Completed \cup {a}
    BY <1>1, <1>5 DEF Completed
  <2>2. Detected' = Detected \cup Emitted(a)
    BY <1>1, <1>2, <1>3, <2>1 DEF Detected
  <2>3. {Key(x) : x \in Detected'} = {Key(x) : x \in Detected} \cup KeysOf(log.emits[a])
    BY <1>4, <2>2
  <2>4. KeysOf(anomalies)' = {Key(x) : x \in Detected'}
    <3>1. KeysOf(anomalies \o log.emits[a]) = KeysOf(anomalies) \cup KeysOf(log.emits[a])
      BY <1>1, AppendKeeps
    <3>2. KeysOf(anomalies) = {Key(x) : x \in Detected}
      BY DEF EvidenceInv
    <3>3. KeysOf(anomalies)' = KeysOf(anomalies \o log.emits[a])
      BY <1>5 DEF KeysOf
    <3> QED BY <2>3, <3>1, <3>2, <3>3
  <2>5. ~hollow => SeverestFirst(anomalies, Parsed)'
    <3>1. ~hollow => SeverestFirst(anomalies \o log.emits[a], Parsed)
      BY <1>1, AppendKeeps DEF EvidenceInv
    <3> QED BY <1>3, <1>5, <3>1 DEF SeverestFirst, First
  <2> QED BY <1>1, <2>4, <2>5 DEF EvidenceInv
<1>6. CASE UNCHANGED anomalies /\ Completed' = Completed
  <2>1. Detected' = Detected
    BY <1>1, <1>2, <1>3, <1>6 DEF Detected
  <2> QED BY <1>1, <1>3, <1>6, <2>1 DEF EvidenceInv, KeysOf, SeverestFirst, First
<1>7. CASE /\ findings' = findings \cup {a} /\ blind' = blind \cup {a} /\ UNCHANGED anomalies
  BY <1>1, <1>6, <1>7 DEF Completed
<1>8. CASE UNCHANGED <<anomalies, findings, blind>>
  BY <1>6, <1>8 DEF Completed
<1> QED BY <1>5, <1>7, <1>8 DEF Merge

\* Steps that add no domain agent's finding and no anomaly change no evidence.
LEMMA SameEvidence ==
  ASSUME EvidenceInv, UNCHANGED <<log, hollow, blind, anomalies>>,
         findings' \cap Agents = findings \cap Agents, Merged' => Merged
  PROVE  EvidenceInv'
<1>1. Completed' = Completed /\ Parsed' = Parsed /\ \A g : Emitted(g)' = Emitted(g)
  BY DEF Completed, Parsed, Emitted
<1>2. Detected' = Detected
  BY <1>1 DEF Detected
<1> QED BY <1>1, <1>2 DEF EvidenceInv, KeysOf, SeverestFirst, First, Distinct

LEMMA EvidenceStep == TypeInv /\ EvidenceInv /\ [Next]_vars => EvidenceInv'
<1> SUFFICES ASSUME TypeInv, EvidenceInv, [Next]_vars PROVE EvidenceInv'
  OBVIOUS
<1>1. \A x \in OtherAgents : x \notin Agents
  BY GraphAssumption
<1>2. CASE Timeline
  BY <1>1, <1>2, SameEvidence DEF Timeline, Unread, OtherAgents, Merged
<1>3. ASSUME NEW a \in Agents, Merge(a) PROVE EvidenceInv'
  BY <1>3, MergeEvidence
<1>4. CASE Join
  <2>1. /\ UNCHANGED <<log, hollow, blind, findings>>
        /\ anomalies' = SortBy(Deduplicated(anomalies), EarlierFirst)
        /\ anomalies \in Seq(Anomalies)
    BY <1>4 DEF Join, Unread, TypeInv, TypeOK
  <2>2. Parsed' = Parsed /\ Detected' = Detected
    BY <2>1 DEF Detected, Completed, Parsed, Emitted
  <2>3. /\ Distinct(anomalies') /\ KeysOf(anomalies') = KeysOf(anomalies)
        /\ \A i, j \in DOMAIN anomalies' : i < j => anomalies'[i].time <= anomalies'[j].time
        /\ SeverestFirst(anomalies, Parsed) => SeverestFirst(anomalies', Parsed)
    BY <2>1, JoinKeeps
  <2> QED BY <2>1, <2>2, <2>3 DEF EvidenceInv, Distinct, KeysOf, SeverestFirst, First
<1>5. CASE Compare
  BY <1>1, <1>5, SameEvidence DEF Compare, Unread, OtherAgents, Merged
<1>6. CASE Investigate
  BY <1>1, <1>6, SameEvidence DEF Investigate, OtherAgents, Merged
<1>7. CASE Write
  BY <1>7, SameEvidence DEF Write, Merged
<1>8. CASE InvestigationRaises \/ WritingRaises \/ UNCHANGED vars
  <2>1. UNCHANGED <<log, hollow, blind, anomalies, findings>> /\ (Merged' => Merged)
    BY <1>8 DEF InvestigationRaises, WritingRaises, vars, Unread, Merged
  <2> QED BY <2>1, SameEvidence
<1> QED BY <1>2, <1>3, <1>4, <1>5, <1>6, <1>7, <1>8 DEF Next

\* The gate replaces a summary that claims what has no evidence by one that
\* claims what the cause, the factors and the evidence do, and marks the report.
LEMMA GateContains ==
  ASSUME NEW class, NEW registry, NEW summary, NEW chain, NEW root, NEW listed, NEW allowed,
         NEW r, r = [classification |-> class, registry |-> registry, summary |-> summary,
                     chain |-> chain, root |-> root, factors |-> listed, valid |-> TRUE]
  PROVE  LET gated == SafetyGate(r, allowed) IN
         /\ gated.classification = class /\ gated.registry = registry
         /\ gated.root = root /\ gated.factors = listed
         /\ NarrativeClaims(gated.summary) \subseteq
               allowed \cup root \cup (UNION {f.text : f \in listed})
         /\ NarrativeClaims(gated.summary) \ allowed # {} => ~gated.valid
<1> DEFINE violated == GateViolations(r, allowed)
           gated == SafetyGate(r, allowed)
<1>1. gated = [r EXCEPT !.summary = IF "summary" \in violated THEN SafeSummary(r, allowed)
                                    ELSE r.summary,
                        !.valid = violated = {}]
  BY DEF SafetyGate
<1>2. /\ gated.classification = class /\ gated.registry = registry
      /\ gated.root = root /\ gated.factors = listed
      /\ gated.summary = IF "summary" \in violated THEN SafeSummary(r, allowed) ELSE summary
      /\ gated.valid = (violated = {})
  BY <1>1
<1>3. SafeSummary(r, allowed) \subseteq allowed \cup root \cup (UNION {f.text : f \in listed})
  BY DEF SafeSummary
<1>4. "summary" \notin violated => NarrativeClaims(summary) \subseteq allowed
  BY DEF GateViolations, NarrativeFields
<1> HIDE DEF violated, gated
<1>5. NarrativeClaims(gated.summary) \ allowed # {} => ~gated.valid
  BY <1>2, <1>4
<1> QED BY <1>2, <1>3, <1>4, <1>5 DEF NarrativeClaims, gated

LEMMA WriteReports ==
  ASSUME TypeInv, EvidenceInv, Write
  PROVE  ReportInv'
<1>1. PICK summary \in Texts, chain \in Texts, own \in Texts, answer \in Classifications :
      \E root \in RootsFrom(own) :
         report' = SafetyGate([classification |-> Classified(answer),
                               registry       |-> Registry,
                               summary        |-> summary,
                               chain          |-> chain,
                               root           |-> root,
                               factors        |-> factors,
                               valid          |-> TRUE],
                              EvidenceDomains(EvidenceIds))
  BY DEF Write
<1>2. /\ report'.classification = Classified(answer) /\ report'.registry = Registry
      /\ report'.root \in RootsFrom(own)
      /\ NarrativeClaims(report'.summary) \subseteq
            EvidenceDomains(EvidenceIds) \cup report'.root
                \cup (UNION {f.text : f \in report'.factors})
      /\ NarrativeClaims(report'.summary) \ EvidenceDomains(EvidenceIds) # {} => ~report'.valid
  BY <1>1, GateContains
<1>3. /\ UNCHANGED <<anomalies, findings, crashSeen, cause>> /\ EvidenceIds' = EvidenceIds
      /\ pc' = "done"
      /\ Merged /\ anomalies \in Seq(Anomalies)
  BY DEF Write, Merged, EvidenceIds, RulesIn, TypeInv, TypeOK
<1>4. ElementsOf(Registry) = ElementsOf(anomalies)
  BY <1>3, RegistryKeeps DEF Registry, EvidenceInv
<1>5. /\ Classified(answer) = "CRASH" =>
              \/ crashSeen
              \/ \E i \in DOMAIN anomalies : \/ anomalies[i].severity = "FATAL"
                                             \/ anomalies[i].rule \in CrashClassRules
      /\ crashSeen => Classified(answer) = "CRASH"
  BY DEF Classified, RulesIn
<1>6. cause # Nothing /\ cause.text # {} => report'.root = cause.text
  BY <1>2 DEF RootsFrom
<1> QED BY <1>2, <1>3, <1>4, <1>5, <1>6 DEF ReportInv, ElementsOf

LEMMA ReportStep == TypeInv /\ EvidenceInv /\ ReportInv /\ Pending /\ [Next]_vars => ReportInv'
<1> SUFFICES ASSUME TypeInv, EvidenceInv, ReportInv, Pending, [Next]_vars PROVE ReportInv'
  OBVIOUS
<1>1. CASE Timeline \/ (\E a \in Agents : Merge(a)) \/ Join \/ Compare \/ Investigate
              \/ InvestigationRaises
  <2>1. report = Nothing /\ report' = report
    BY <1>1 DEF Timeline, Merge, Join, Compare, Investigate, InvestigationRaises, Unread, Pending
  <2> QED BY <2>1 DEF ReportInv
<1>2. CASE Write
  BY <1>2, WriteReports
<1>3. CASE WritingRaises
  <2>1. report = Nothing /\ report' = report
    BY <1>3 DEF WritingRaises, Unread, Pending
  <2> QED BY <2>1 DEF ReportInv
<1>4. CASE UNCHANGED vars
  BY <1>4 DEF vars, ReportInv, ElementsOf, EvidenceIds, RulesIn
<1> QED BY <1>1, <1>2, <1>3, <1>4 DEF Next

\* The crash investigator anchors a cause that claims too much.
LEMMA InvestigateAnchors ==
  ASSUME TypeInv, Investigate
  PROVE  CauseAnchored' /\ CauseWorded'
<1>1. PICK proximate \in Texts : cause' = Anchored(proximate)
  BY DEF Investigate
<1>2. /\ EvidenceIds \subseteq EvidenceIds' /\ UNCHANGED anomalies
      /\ anomalies \in Seq(Anomalies)
  BY DEF Investigate, EvidenceIds, RulesIn, TypeInv, TypeOK
<1>3. CASE Unsupported(proximate, EvidenceIds) # {} /\ anomalies # <<>>
  <2>1. cause'.anchor = Top(anomalies) /\ cause'.text = Described(Top(anomalies))
    BY <1>1, <1>3 DEF Anchored
  <2>2. PICK i \in DOMAIN anomalies :
          /\ Top(anomalies) = anomalies[i]
          /\ \A j \in DOMAIN anomalies :
                Rank[anomalies[i].severity] <= Rank[anomalies[j].severity]
    BY <1>2, <1>3, TopSeverest
  <2> QED BY <1>2, <2>1, <2>2 DEF CauseAnchored, CauseWorded
<1>4. CASE Unsupported(proximate, EvidenceIds) = {}
  <2>1. cause'.text = proximate
    BY <1>1, <1>4 DEF Anchored
  <2>2. Unsupported(proximate, EvidenceIds') = {}
    BY <1>2, <1>4 DEF Unsupported
  <2> QED BY <2>1, <2>2 DEF CauseAnchored, CauseWorded
<1>5. CASE anomalies = <<>>
  BY <1>2, <1>5 DEF CauseAnchored, CauseWorded
<1> QED BY <1>3, <1>4, <1>5

LEMMA CauseStep == TypeInv /\ CauseInv /\ [Next]_vars => CauseInv'
<1> SUFFICES ASSUME TypeInv, CauseInv, [Next]_vars PROVE CauseInv'
  OBVIOUS
<1>1. CASE Timeline \/ (\E a \in Agents : Merge(a)) \/ Join \/ Compare \/ InvestigationRaises
  <2>1. cause = Nothing /\ cause' = cause
    BY <1>1 DEF Timeline, Merge, Join, Compare, InvestigationRaises, Unread, CauseInv
  <2> QED BY <1>1, <2>1
      DEF CauseInv, CauseAnchored, CauseWorded, Timeline, Merge, Join, Compare
<1>2. CASE Investigate
  BY <1>2, InvestigateAnchors DEF CauseInv, Investigate
<1>3. CASE Write \/ WritingRaises \/ UNCHANGED vars
  <2>1. UNCHANGED <<cause, anomalies, findings>>
    BY <1>3 DEF Write, WritingRaises, vars, Unread
  <2>2. CauseAnchored' /\ CauseWorded'
    BY <2>1 DEF CauseInv, CauseAnchored, CauseWorded, EvidenceIds, RulesIn
  <2>3. pc' \notin {"writer", "done"} => cause' = Nothing
    BY <1>3, <2>1 DEF Write, WritingRaises, vars, CauseInv
  <2> QED BY <2>2, <2>3 DEF CauseInv
<1> QED BY <1>1, <1>2, <1>3 DEF Next

LEMMA NextGraph == GraphInv /\ FactorInv /\ [Next]_vars => GraphInv' /\ FactorInv'
  BY TypeStep, EvidenceStep, ReportStep, CauseStep, NextFactors DEF GraphInv, FactorInv

LEMMA GraphInvariant == Spec => [](GraphInv /\ FactorInv)
<1>1. Init => GraphInv /\ FactorInv
  BY InitGraph, InitFactors
<1> QED BY <1>1, NextGraph, PTL DEF Spec

\* The state of a run of the graph has its types (AgentState of
\* orchestrator/graph.py): agents that have completed run no more, and whoever
\* read nothing has completed.
THEOREM GraphTypeCorrect == Spec => []TypeOK
<1>1. GraphInv => TypeOK
  BY DEF GraphInv, TypeInv
<1> QED BY <1>1, GraphInvariant, PTL

\* The merge of the parallel domain agents (_make_parallel_domain_node) loses
\* nothing that was detected, invents nothing, keeps each rule and time once and
\* sorts them by time, in whatever order the agents complete.
THEOREM MergeCompleteHeld == Spec => []MergeComplete
<1>1. GraphInv => MergeComplete
  BY DEF GraphInv, EvidenceInv, MergeComplete, KeysOf, Detected, Distinct
<1> QED BY <1>1, GraphInvariant, PTL

\* A rule that fires at two severities at one time stands in the registry of the
\* report at the severer (run_all_rules, the merge, _build_anomaly_registry).
THEOREM SeverestKeptHeld == Spec => []SeverestKept
<1>1. ASSUME GraphInv, report # Nothing, ~hollow, NEW a \in Parsed
      PROVE  \E i \in DOMAIN report.registry :
               /\ Key(report.registry[i]) = Key(a)
               /\ Rank[report.registry[i].severity] <= Rank[a.severity]
  <2>1. PICK i \in DOMAIN anomalies :
          Key(anomalies[i]) = Key(a) /\ Rank[anomalies[i].severity] <= Rank[a.severity]
    BY <1>1 DEF GraphInv, EvidenceInv, SeverestFirst
  <2>2. ElementsOf(report.registry) = ElementsOf(anomalies)
    BY <1>1 DEF GraphInv, ReportInv
  <2>3. PICK k \in DOMAIN report.registry : report.registry[k] = anomalies[i]
    BY <2>2 DEF ElementsOf
  <2> QED BY <2>1, <2>3
<1>2. GraphInv => SeverestKept
  BY <1>1 DEF SeverestKept
<1> QED BY <1>2, GraphInvariant, PTL

\* A root cause that claims a domain without evidence is the description of one
\* of the severest anomalies (CrashInvestigatorAgent.run).
THEOREM CauseAnchoredHeld == Spec => []CauseAnchored
<1>1. GraphInv => CauseAnchored
  BY DEF GraphInv, CauseInv
<1> QED BY <1>1, GraphInvariant, PTL

\* CRASH is reported with a detected crash, a FATAL anomaly or a crash-class rule
\* behind it, and always when the timeline agent has seen a crash
\* (ReportWriterAgent.run).
THEOREM CrashJustifiedHeld == Spec => []CrashJustified
<1>1. ASSUME GraphInv, report # Nothing, report.classification = "CRASH"
      PROVE  \/ log.crash
             \/ \E i \in DOMAIN report.registry :
                   \/ report.registry[i].severity = "FATAL"
                   \/ report.registry[i].rule \in CrashClassRules
  <2>1. CASE crashSeen
    BY <1>1, <2>1 DEF GraphInv, TypeInv, TypeOK
  <2>2. CASE ~crashSeen
    <3>1. PICK i \in DOMAIN anomalies : \/ anomalies[i].severity = "FATAL"
                                        \/ anomalies[i].rule \in CrashClassRules
      BY <1>1, <2>2 DEF GraphInv, ReportInv
    <3>2. PICK k \in DOMAIN report.registry : report.registry[k] = anomalies[i]
      BY <1>1 DEF GraphInv, ReportInv, ElementsOf
    <3> QED BY <3>1, <3>2
  <2> QED BY <2>1, <2>2
<1>2. GraphInv /\ report # Nothing => (crashSeen => report.classification = "CRASH")
  BY DEF GraphInv, ReportInv
<1>3. GraphInv => CrashJustified
  BY <1>1, <1>2 DEF CrashJustified
<1> QED BY <1>3, GraphInvariant, PTL

\* A factor of the report claims nothing beyond the evidence, but POWER.
LEMMA FactorsWithin ==
  ASSUME FactorInv, report # Nothing, NEW f \in report.factors, NEW d \in f.text \cap Domains
  PROVE  d = "POWER" \/ d \in EvidenceDomains(EvidenceIds)
<1>1. f \in factors
  BY DEF FactorInv, Pending
<1>2. d # "POWER" => Evidence[d] \cap EvidenceIds # {}
  BY <1>1 DEF FactorInv, Sorted, Supported, Covered, FactorClaims
<1> QED BY <1>2 DEF EvidenceDomains

\* A report whose summary claims what has no evidence is marked, quotes its cause
\* and factors (apply_narrative_safety_gate), and owes the claim to the rules'
\* words for a detected anomaly (CrashInvestigatorAgent.run), except in the cases
\* that the property names.
THEOREM SummaryContainedHeld == Spec => []SummaryContained
<1>1. ASSUME GraphInv, report # Nothing
      PROVE  EvidenceIds = RulesIn(report.registry) \cup findings
  <2>1. ElementsOf(report.registry) = ElementsOf(anomalies)
    BY <1>1 DEF GraphInv, ReportInv
  <2>2. \A s : RulesIn(s) = {a.rule : a \in ElementsOf(s)}
    BY DEF RulesIn, ElementsOf
  <2> QED BY <2>1, <2>2 DEF EvidenceIds
<1>2. ASSUME GraphInv, FactorInv, report # Nothing, Beyond # {}
      PROVE  /\ ~report.valid
             /\ Beyond \subseteq report.root \cup (UNION {f.text : f \in report.factors})
             /\ \/ \E i \in DOMAIN anomalies :
                      /\ cause # Nothing /\ cause.anchor = anomalies[i]
                      /\ Beyond \ {"POWER"} \subseteq Described(anomalies[i])
                \/ Beyond = {"POWER"}
                \/ anomalies = <<>>
                \/ cause = Nothing \/ cause.text = {}
  <2>1. /\ Beyond = NarrativeClaims(report.summary) \ EvidenceDomains(EvidenceIds)
        /\ Beyond \subseteq Domains
    BY <1>1, <1>2 DEF Beyond, NarrativeClaims
  <2>2. /\ ~report.valid
        /\ Beyond \subseteq report.root \cup (UNION {f.text : f \in report.factors})
    BY <1>2, <2>1 DEF GraphInv, ReportInv
  <2>3. ASSUME cause # Nothing, cause.text # {}
        PROVE  Beyond \ {"POWER"} \subseteq cause.text
    <3>1. report.root = cause.text
      BY <1>2, <2>3 DEF GraphInv, ReportInv
    <3>2. \A f \in report.factors : f.text \cap Beyond \subseteq {"POWER"}
      BY <1>2, <2>1, FactorsWithin
    <3> QED BY <2>2, <3>1, <3>2
  <2>4. ASSUME cause # Nothing, cause.text # {}, Unsupported(cause.text, EvidenceIds) = {}
        PROVE  Beyond = {"POWER"}
    <3>1. Beyond \ {"POWER"} \subseteq FactorClaims(cause.text)
      BY <2>1, <2>3, <2>4 DEF FactorClaims
    <3>2. \A d \in FactorClaims(cause.text) \cap Domains : d \in EvidenceDomains(EvidenceIds)
      BY <2>4 DEF Unsupported, EvidenceDomains
    <3>3. Beyond \ {"POWER"} = {}
      BY <2>1, <3>1, <3>2
    <3> QED BY <1>2, <3>3
  <2>5. cause # Nothing =>
           \/ Unsupported(cause.text, EvidenceIds) = {}
           \/ anomalies = <<>>
           \/ \E i \in DOMAIN anomalies :
                 cause.anchor = anomalies[i] /\ cause.text = Described(anomalies[i])
    BY <1>2 DEF GraphInv, CauseInv, CauseWorded
  <2> QED BY <2>2, <2>3, <2>4, <2>5
<1>3. GraphInv /\ FactorInv => SummaryContained
  BY <1>2 DEF SummaryContained
<1> QED BY <1>3, GraphInvariant, PTL
=============================================================================
