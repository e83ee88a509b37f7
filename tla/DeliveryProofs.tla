---------------------------- MODULE DeliveryProofs ----------------------------
(***************************************************************************)
(* Proofs about Delivery, for any targets, patterns, series, replicas,     *)
(* batch size, attempts and bounds.                                        *)
(***************************************************************************)
EXTENDS Delivery, RecursionFacts, SequenceTheorems, TLAPS

-----------------------------------------------------------------------------
(* The recursive functions: each satisfies its definition, and by          *)
(* induction on its index what the definition is for.                      *)

\* Select keeps the members of the set, all of them and no other.
LEMMA SelectKeeps ==
    ASSUME NEW T, NEW seq \in Seq(T), NEW set
    PROVE  /\ Select(seq, set) \in Seq(T)
           /\ \A i \in DOMAIN Select(seq, set) : Select(seq, set)[i] \in set
           /\ \A j \in DOMAIN seq : seq[j] \in set =>
                 \E i \in DOMAIN Select(seq, set) : Select(seq, set)[i] = seq[j]
<1> DEFINE n == Len(seq)
           Step(i, r) == IF seq[i] \in set THEN Append(r, seq[i]) ELSE r
           Body(f) == [i \in 0 .. n |-> IF i = 0 THEN <<>> ELSE Step(i, f[i - 1])]
           step == [i \in 1 .. n |-> [r \in Seq(T) |-> Step(i, r)]]
           f == CHOOSE g : g = Body(g)
<1>1. n \in Nat /\ DOMAIN seq = 1 .. n /\ \A i \in 1 .. n : seq[i] \in T
  OBVIOUS
<1>2. \A i \in 1 .. n : \A r \in Seq(T) : Step(i, r) \in Seq(T)
  BY <1>1
<1>3. \E g : g = Body(g)
  <2>1. Steps(n, Seq(T), <<>>, step)
    BY <1>1, <1>2 DEF Steps
  <2>2. PICK g : Reaches(g, n, Seq(T), <<>>, step)
    BY <2>1, Iterate
  <2> USE DEF Reaches
  <2> HIDE DEF Step
  <2>3. ASSUME NEW i \in 1 .. n PROVE g[i] = Step(i, g[i - 1])
    <3>1. i - 1 \in 0 .. n
      BY <1>1
    <3>2. g[i - 1] \in Seq(T) /\ g[i] = step[i][g[i - 1]]
      BY <2>2, <3>1
    <3> QED  BY <3>2
  <2> HIDE DEF step
  <2>4. g = Body(g)
    <3>1. g = [i \in 0 .. n |-> g[i]]
      BY <2>2
    <3>2. \A i \in 0 .. n : g[i] = IF i = 0 THEN <<>> ELSE Step(i, g[i - 1])
      BY <1>1, <2>2, <2>3
    <3> QED  BY <3>1, <3>2, Zenon
  <2> QED  BY <2>4
<1> HIDE DEF Body
<1>4. f = Body(f)
  BY <1>3
<1> HIDE DEF f, Step
<1>5. f[0] = <<>> /\ \A i \in 1 .. n : f[i] = Step(i, f[i - 1])
  BY <1>1, <1>4 DEF Body
<1> USE DEF Step
<1> DEFINE Good(i) == /\ f[i] \in Seq(T)
                      /\ \A k \in DOMAIN f[i] : f[i][k] \in set
                      /\ \A j \in 1 .. i : seq[j] \in set => \E k \in DOMAIN f[i] : f[i][k] = seq[j]
           G == {i \in 0 .. n : Good(i)}
<1>6. 0 \in G
  <2>1. f[0] = <<>> /\ <<>> \in Seq(T) /\ DOMAIN <<>> = {}
    BY <1>5
  <2>2. Good(0)
    BY <2>1
  <2> QED  BY <1>1, <2>2
<1>7. ASSUME NEW i \in 1 .. n, i - 1 \in G PROVE i \in G
  <2>1. Good(i - 1) /\ f[i] = Step(i, f[i - 1])
    BY <1>5, <1>7
  <2>2. CASE seq[i] \in set
    <3>1. f[i] = Append(f[i - 1], seq[i]) /\ seq[i] \in T
      BY <1>1, <2>1, <2>2
    <3>2. \A j \in 1 .. i : j = i \/ j \in 1 .. (i - 1)
      OBVIOUS
    <3>3. /\ f[i] \in Seq(T) /\ Len(f[i]) = Len(f[i - 1]) + 1 /\ f[i][Len(f[i])] = seq[i]
          /\ \A k \in DOMAIN f[i - 1] : f[i][k] = f[i - 1][k]
          /\ \A k \in DOMAIN f[i] : k \in DOMAIN f[i - 1] \/ k = Len(f[i])
          /\ DOMAIN f[i - 1] \subseteq DOMAIN f[i] /\ Len(f[i]) \in DOMAIN f[i]
      BY <2>1, <3>1
    <3>4. \A k \in DOMAIN f[i] : f[i][k] \in set
      BY <2>1, <2>2, <3>3
    <3>5. \A j \in 1 .. i : seq[j] \in set => \E k \in DOMAIN f[i] : f[i][k] = seq[j]
      BY <2>1, <3>2, <3>3
    <3> QED  BY <3>3, <3>4, <3>5
  <2>3. CASE seq[i] \notin set
    BY <2>1, <2>3
  <2> QED  BY <2>2, <2>3
<1>8. n \in G
  <2> HIDE DEF G
  <2>1. \A i \in 0 .. n : i \in G
    BY <1>1, <1>6, <1>7, Induct
  <2> QED  BY <1>1, <2>1
<1>9. f[n] = Select(seq, set)
  BY Zenon DEF Select, f, Body, Step
<1> QED  BY <1>1, <1>8, <1>9

\* In a, nothing but m and r, no series of theirs missing or lower.
Adds(a, r, m) ==
    /\ \A i \in DOMAIN a : a[i] = m \/ (i \in DOMAIN r /\ a[i] = r[i])
    /\ \A i \in DOMAIN r : i \in DOMAIN a /\ a[i].series = r[i].series /\ a[i].value >= r[i].value
    /\ \E i \in DOMAIN a : a[i].series = m.series /\ a[i].value >= m.value

\* AddSample keeps one sample a series, the higher one of the two it has.
LEMMA AddSampleKeeps ==
    ASSUME NEW r \in Seq(Samples), OneEach(r), NEW m \in Samples
    PROVE  /\ AddSample(r, m) \in Seq(Samples) /\ OneEach(AddSample(r, m))
           /\ Adds(AddSample(r, m), r, m)
<1> DEFINE a == AddSample(r, m)
<1>1. \A x \in Samples : x.value \in Nat
  BY DEF Samples
<1>2. \A i \in DOMAIN r : r[i] \in Samples
  OBVIOUS
<1>3. CASE m.series \notin SeriesOf(r)
  <2>1. /\ a = Append(r, m) /\ a \in Seq(Samples)
        /\ \A i \in DOMAIN r : i \in DOMAIN a /\ a[i] = r[i]
        /\ \A i \in DOMAIN a : i \in DOMAIN r \/ i = Len(a)
        /\ Len(a) \in DOMAIN a /\ a[Len(a)] = m
    BY <1>3 DEF AddSample
  <2>2. \A i \in DOMAIN r : r[i].series # m.series
    BY <1>3 DEF SeriesOf
  <2> HIDE DEF a
  <2>3. OneEach(a)
    BY <2>1, <2>2 DEF OneEach
  <2>4. \A i \in DOMAIN r : a[i].series = r[i].series /\ a[i].value >= r[i].value
    BY <1>1, <1>2, <2>1
  <2>5. m.value >= m.value
    BY <1>1
  <2> QED  BY <2>1, <2>3, <2>4, <2>5 DEF a, Adds
<1>4. CASE m.series \in SeriesOf(r)
  <2> DEFINE New(i) == r[i].series = m.series /\ Replaces(m, r[i])
  <2>1. a = [i \in DOMAIN r |-> IF New(i) THEN m ELSE r[i]]
    BY <1>4 DEF AddSample
  <2>2. \A i \in DOMAIN r : New(i) => r[i].series = m.series /\ m.value > r[i].value
    BY DEF Replaces
  <2>3. \A i \in DOMAIN r : r[i].series = m.series /\ ~New(i) => r[i].value >= m.value
    BY <1>1, <1>2 DEF Replaces
  <2>4. PICK j \in DOMAIN r : r[j].series = m.series
    BY <1>4 DEF SeriesOf
  <2> HIDE DEF New, a
  <2>5. DOMAIN a = DOMAIN r /\ \A i \in DOMAIN r : a[i] = IF New(i) THEN m ELSE r[i]
    BY <2>1
  <2>6. a \in Seq(Samples)
    <3>1. Len(r) \in Nat /\ DOMAIN r = 1 .. Len(r)
      OBVIOUS
    <3>2. a \in [1 .. Len(r) -> Samples]
      BY <1>2, <2>1, <2>5, <3>1
    <3> QED  BY <3>1, <3>2
  <2>7. \A i \in DOMAIN r : a[i].series = r[i].series /\ a[i].value >= r[i].value
    BY <1>1, <1>2, <2>2, <2>5
  <2>8. OneEach(a)
    BY <2>5, <2>7 DEF OneEach
  <2>9. a[j].series = m.series /\ a[j].value >= m.value
    BY <1>1, <2>3, <2>4, <2>5, <2>7
  <2> QED  BY <2>4, <2>5, <2>6, <2>7, <2>8, <2>9 DEF a, Adds
<1> QED  BY <1>3, <1>4

\* In result, one of the samples for each of their series, and none higher.
HighestOf(result, samples) ==
    /\ OneEach(result)
    /\ \A i \in DOMAIN result : \E j \in DOMAIN samples : result[i] = samples[j]
    /\ \A j \in DOMAIN samples : \E i \in DOMAIN result :
          result[i].series = samples[j].series /\ result[i].value >= samples[j].value

(***************************************************************************)
(* deduplicateMetrics, for any samples: one sample a series, none of them  *)
(* made up, and none lower than another one collected for its series.      *)
(***************************************************************************)
THEOREM DedupKeepsHighest ==
    ASSUME NEW samples \in Seq(Samples)
    PROVE  /\ DeduplicateMetrics(samples) \in Seq(Samples)
           /\ HighestOf(DeduplicateMetrics(samples), samples)
<1> DEFINE n == Len(samples)
           Step(i, r) == AddSample(r, samples[i])
           Body(f) == [i \in 0 .. n |-> IF i = 0 THEN <<>> ELSE Step(i, f[i - 1])]
           Once == {r \in Seq(Samples) : OneEach(r)}
           step == [i \in 1 .. n |-> [r \in Once |-> Step(i, r)]]
           f == CHOOSE g : g = Body(g)
<1>1. n \in Nat /\ DOMAIN samples = 1 .. n /\ \A i \in 1 .. n : samples[i] \in Samples
  OBVIOUS
<1>2. \A i \in 1 .. n : \A r \in Once : Step(i, r) \in Once
  BY <1>1, AddSampleKeeps
<1> HIDE DEF Step
<1>3. \E g : g = Body(g)
  <2>1. <<>> \in Once
    BY DEF OneEach
  <2>2. Steps(n, Once, <<>>, step)
    BY <1>1, <1>2, <2>1 DEF Steps
  <2>3. PICK g : Reaches(g, n, Once, <<>>, step)
    BY <2>2, Iterate
  <2> USE DEF Reaches
  <2>4. ASSUME NEW i \in 1 .. n PROVE g[i] = Step(i, g[i - 1])
    <3>1. i - 1 \in 0 .. n
      BY <1>1
    <3>2. g[i - 1] \in Once /\ g[i] = step[i][g[i - 1]]
      BY <2>3, <3>1
    <3> HIDE DEF Once
    <3> QED  BY <3>2
  <2> HIDE DEF step
  <2>5. g = [i \in 0 .. n |-> g[i]]
    BY <2>3
  <2>6. \A i \in 0 .. n : g[i] = IF i = 0 THEN <<>> ELSE Step(i, g[i - 1])
    BY <1>1, <2>3, <2>4
  <2>7. g = Body(g)
    BY <2>5, <2>6, Zenon
  <2> QED  BY <2>7
<1> HIDE DEF Body
<1>4. f = Body(f)
  BY <1>3
<1> HIDE DEF f
<1>5. f[0] = <<>> /\ \A i \in 1 .. n : f[i] = AddSample(f[i - 1], samples[i])
  BY <1>1, <1>4 DEF Body, Step
<1> DEFINE Good(i) ==
      /\ f[i] \in Seq(Samples) /\ OneEach(f[i])
      /\ \A k \in DOMAIN f[i] : \E j \in 1 .. i : f[i][k] = samples[j]
      /\ \A j \in 1 .. i : \E k \in DOMAIN f[i] : /\ f[i][k].series = samples[j].series
                                                  /\ f[i][k].value >= samples[j].value
           G == {i \in 0 .. n : Good(i)}
<1>6. 0 \in G
  <2>1. f[0] = <<>> /\ <<>> \in Seq(Samples) /\ DOMAIN <<>> = {} /\ OneEach(<<>>)
    BY <1>5 DEF OneEach
  <2>2. Good(0)
    BY <2>1
  <2> QED  BY <1>1, <2>2
<1>7. ASSUME NEW i \in 1 .. n, i - 1 \in G PROVE i \in G
  <2> DEFINE r == f[i - 1]
             m == samples[i]
             a == f[i]
  <2>1. a = AddSample(r, m) /\ m \in Samples
    BY <1>1, <1>5
  <2>2. /\ r \in Seq(Samples) /\ OneEach(r)
        /\ \A k \in DOMAIN r : \E j \in 1 .. (i - 1) : r[k] = samples[j]
        /\ \A j \in 1 .. (i - 1) : \E k \in DOMAIN r : /\ r[k].series = samples[j].series
                                                       /\ r[k].value >= samples[j].value
    BY <1>7
  <2> HIDE DEF r, m, a
  <2>0. a \in Seq(Samples) /\ OneEach(a) /\ Adds(a, r, m)
    BY <2>1, <2>2, AddSampleKeeps
  <2>3. /\ \A k \in DOMAIN a : a[k] = m \/ (k \in DOMAIN r /\ a[k] = r[k])
        /\ \A k \in DOMAIN r : k \in DOMAIN a /\ a[k].series = r[k].series /\ a[k].value >= r[k].value
        /\ \E k \in DOMAIN a : a[k].series = m.series /\ a[k].value >= m.value
    BY <2>0 DEF Adds
  <2>4. \A j \in 1 .. i : j = i \/ j \in 1 .. (i - 1)
    OBVIOUS
  <2>5. ASSUME NEW k \in DOMAIN a PROVE \E j \in 1 .. i : a[k] = samples[j]
    <3>1. CASE a[k] = m
      BY <3>1 DEF m
    <3>2. CASE k \in DOMAIN r /\ a[k] = r[k]
      <4>1. PICK j \in 1 .. (i - 1) : r[k] = samples[j]
        BY <2>2, <3>2
      <4> QED  BY <3>2, <4>1
    <3> QED  BY <2>3, <3>1, <3>2
  <2>6. ASSUME NEW j \in 1 .. i
        PROVE  \E k \in DOMAIN a : a[k].series = samples[j].series /\ a[k].value >= samples[j].value
    <3>1. CASE j = i
      BY <2>3, <3>1 DEF m
    <3>2. CASE j # i
      <4>1. PICK k \in DOMAIN r : r[k].series = samples[j].series /\ r[k].value >= samples[j].value
        BY <2>2, <2>4, <3>2
      <4>2. r[k] \in Samples /\ a[k] \in Samples /\ samples[j] \in Samples
        BY <1>1, <2>0, <2>2, <2>3, <4>1
      <4>3. r[k].value \in Nat /\ a[k].value \in Nat /\ samples[j].value \in Nat
        BY <4>2 DEF Samples
      <4> QED  BY <2>3, <4>1, <4>3
    <3> QED  BY <3>1, <3>2
  <2> QED  BY <2>0, <2>5, <2>6 DEF a
<1>8. n \in G
  <2> HIDE DEF G
  <2>1. \A i \in 0 .. n : i \in G
    BY <1>1, <1>6, <1>7, Induct
  <2> QED  BY <1>1, <2>1
<1>9. f[n] = DeduplicateMetrics(samples)
  BY Zenon DEF DeduplicateMetrics, f, Body, Step
<1> QED  BY <1>1, <1>8, <1>9 DEF HighestOf

-----------------------------------------------------------------------------
(* The batches.                                                            *)

\* The smaller of two numbers.
LEMMA MinOfTwo == ASSUME NEW a \in Int, NEW b \in Int PROVE Min({a, b}) = IF a <= b THEN a ELSE b
<1> DEFINE m == IF a <= b THEN a ELSE b
<1>1. m \in {a, b} /\ \A y \in {a, b} : m <= y
  OBVIOUS
<1>2. \A x \in {a, b} : (\A y \in {a, b} : x <= y) => x = m
  OBVIOUS
<1> QED  BY <1>1, <1>2 DEF Min

\* A batch is a piece of the samples, BatchSize long if they reach as far.
LEMMA BatchIs ==
    ASSUME NEW samples \in Seq(Samples), NEW b \in Nat \ {0}
    PROVE  LET o == (b - 1) * BatchSize
               s == Batch(samples, b)
           IN  /\ s \in Seq(Samples) /\ o \in Nat
               /\ \A i \in DOMAIN s : o + i \in DOMAIN samples /\ s[i] = samples[o + i]
               /\ \A i \in 1 .. BatchSize : o + i \in DOMAIN samples => i \in DOMAIN s
<1> DEFINE o == (b - 1) * BatchSize
           s == Batch(samples, b)
           end == Min({b * BatchSize, Len(samples)})
           L == Len(samples)
<1>1. BatchSize \in Nat \ {0} /\ L \in Nat /\ DOMAIN samples = 1 .. L
      /\ \A i \in 1 .. L : samples[i] \in Samples
  BY DeliveryAssumption
<1>2. o \in Nat /\ b * BatchSize = o + BatchSize
  BY <1>1
<1>3. b * BatchSize \in Int
  BY <1>1
<1>4. end = IF o + BatchSize <= L THEN o + BatchSize ELSE L
  BY <1>1, <1>2, <1>3, MinOfTwo
<1>5. s = SubSeq(samples, o + 1, end)
  BY DEF Batch
<1> HIDE DEF o, end, s, L
<1>6. end \in Int /\ end <= L /\ \A i \in (o + 1) .. end : samples[i] \in Samples
  BY <1>1, <1>2, <1>4
<1>7. /\ s \in Seq(Samples)
      /\ Len(s) = IF o + 1 <= end THEN end - (o + 1) + 1 ELSE 0
      /\ \A i \in 1 .. end - (o + 1) + 1 : s[i] = samples[o + 1 + i - 1]
  BY <1>2, <1>5, <1>6, SubSeqProperties
<1>8. DOMAIN s = 1 .. Len(s)
  BY <1>7
<1>9. ASSUME NEW i \in DOMAIN s PROVE o + i \in DOMAIN samples /\ s[i] = samples[o + i]
  <2>1. i \in 1 .. end - (o + 1) + 1 /\ o + i \in 1 .. L /\ o + 1 + i - 1 = o + i
    BY <1>1, <1>2, <1>6, <1>7, <1>8, <1>9
  <2> QED  BY <1>1, <1>7, <2>1
<1>10. ASSUME NEW i \in 1 .. BatchSize, o + i \in DOMAIN samples PROVE i \in DOMAIN s
  BY <1>1, <1>2, <1>4, <1>6, <1>7, <1>8, <1>10
<1> QED  BY <1>2, <1>7, <1>9, <1>10 DEF o, s

\* Every sample is in one of the batches.
LEMMA BatchesCover ==
    ASSUME NEW samples \in Seq(Samples), NEW i \in DOMAIN samples
    PROVE  \E b \in 1 .. Batches(samples) : \E j \in DOMAIN Batch(samples, b) :
              Batch(samples, b)[j] = samples[i]
<1> DEFINE L == Len(samples)
           q == (i - 1) \div BatchSize
           j == i - q * BatchSize
<1>1. BatchSize \in Nat \ {0} /\ L \in Nat /\ i \in 1 .. L
  BY DeliveryAssumption
<1>2. q \in Nat /\ q * BatchSize <= i - 1 /\ i - 1 < q * BatchSize + BatchSize
  BY <1>1
<1>3. q + 1 <= Batches(samples) /\ Batches(samples) \in Nat
  <2> DEFINE p == (L + BatchSize - 1) \div BatchSize
  <2>1. p \in Nat /\ L + BatchSize - 1 < p * BatchSize + BatchSize
    BY <1>1
  <2>2. q * BatchSize < p * BatchSize
    <3> DEFINE x == q * BatchSize
               y == p * BatchSize
    <3>1. x \in Int /\ y \in Int
      BY <1>1, <1>2, <2>1
    <3>2. x <= i - 1 /\ L + BatchSize - 1 < y + BatchSize
      BY <1>2, <2>1
    <3> HIDE DEF x, y, L, p, q
    <3>3. x < y
      BY <1>1, <3>1, <3>2
    <3> QED  BY <3>3 DEF x, y
  <2>3. q < p
    BY <1>1, <1>2, <2>1, <2>2
  <2> QED  BY <1>2, <2>1, <2>3 DEF Batches
<1>4. j \in 1 .. BatchSize /\ ((q + 1) - 1) * BatchSize + j = i
  BY <1>1, <1>2
<1> HIDE DEF q, j
<1>5. q + 1 \in Nat \ {0} /\ q + 1 \in 1 .. Batches(samples)
  BY <1>2, <1>3
<1>6. j \in DOMAIN Batch(samples, q + 1) /\ Batch(samples, q + 1)[j] = samples[i]
  BY <1>4, <1>5, BatchIs
<1> QED  BY <1>5, <1>6

-----------------------------------------------------------------------------
(* The queries, and what they find.                                        *)

\* The members of a sequence are those at its places.
LEMMA MembersAre ==
    ASSUME NEW seq PROVE \A x : x \in ToSet(seq) <=> \E i \in DOMAIN seq : x = seq[i]
BY DEF ToSet

\* A cycle starts with the first query for each pattern at each healthy target.
LEMMA QueriesAre ==
    ASSUME NEW healthy \in Seq(ToSet(Targets))
    PROVE  /\ Queries(healthy) \in Seq(AllQueries)
           /\ \A t \in DOMAIN healthy : \A p \in DOMAIN Patterns : \E k \in DOMAIN Queries(healthy) :
                 Queries(healthy)[k] = [target |-> healthy[t], pattern |-> Patterns[p], strategy |-> 1]
<1> DEFINE Q(t, p) == [target |-> healthy[t], pattern |-> Patterns[p], strategy |-> 1]
           of == [t \in DOMAIN healthy |-> [p \in DOMAIN Patterns |-> Q(t, p)]]
<1>1. Patterns \in Seq(ToSet(Patterns))
  BY DeliveryAssumption
<1>2. \A t \in DOMAIN healthy : \A p \in DOMAIN Patterns : Q(t, p) \in AllQueries
  BY <1>1 DEF AllQueries
<1> HIDE DEF Q
<1>3. \A t \in DOMAIN healthy : of[t] \in Seq(AllQueries)
  <2> SUFFICES ASSUME NEW t \in DOMAIN healthy
               PROVE  [p \in DOMAIN Patterns |-> Q(t, p)] \in Seq(AllQueries)
    OBVIOUS
  <2>1. Len(Patterns) \in Nat /\ DOMAIN Patterns = 1 .. Len(Patterns)
    BY <1>1
  <2>2. \A p \in 1 .. Len(Patterns) : Q(t, p) \in AllQueries
    BY <1>2, <2>1
  <2> QED  BY <2>1, <2>2, IsASeq
<1>4. of \in Seq(Seq(AllQueries))
  <2>1. Len(healthy) \in Nat /\ DOMAIN healthy = 1 .. Len(healthy)
    OBVIOUS
  <2>2. \A t \in 1 .. Len(healthy) : [p \in DOMAIN Patterns |-> Q(t, p)] \in Seq(AllQueries)
    BY <1>3, <2>1
  <2> QED  BY <2>1, <2>2, IsASeq
<1>5. Queries(healthy) = FlattenSeq(of)
  BY DEF Queries, Q
<1>6. DOMAIN of = DOMAIN healthy /\ \A t \in DOMAIN healthy : DOMAIN of[t] = DOMAIN Patterns
  OBVIOUS
<1>7. \A t \in DOMAIN healthy : \A p \in DOMAIN Patterns : of[t][p] = Q(t, p)
  OBVIOUS
<1> HIDE DEF of
<1>8. /\ FlattenSeq(of) \in Seq(AllQueries)
      /\ \A t \in DOMAIN of : \A p \in DOMAIN of[t] :
            \E k \in DOMAIN FlattenSeq(of) : FlattenSeq(of)[k] = of[t][p]
  BY <1>4, FlattenKeeps
<1>9. \A t \in DOMAIN healthy : \A p \in DOMAIN Patterns :
         \E k \in DOMAIN FlattenSeq(of) : FlattenSeq(of)[k] = Q(t, p)
  BY <1>6, <1>7, <1>8
<1> QED  BY <1>5, <1>8, <1>9 DEF Q

\* A query finds what it selects of what the target has, with its readings.
LEMMA FoundIs ==
    ASSUME TypeOK, NEW q \in AllQueries
    PROVE  /\ Found(q) \in Seq(Samples)
           /\ \A i \in DOMAIN Found(q) : Found(q)[i].value = reading[q.target][Found(q)[i].series]
           /\ \A s \in ToSet(Series) :
                 s \in Strategies[q.pattern][q.strategy] /\ reading[q.target][s] > 0
                     => \E i \in DOMAIN Found(q) : Found(q)[i].series = s
<1> DEFINE wanted == {s \in Strategies[q.pattern][q.strategy] : reading[q.target][s] > 0}
           selected == Select(Series, wanted)
           Sample(s) == [series |-> s, value |-> reading[q.target][s]]
           found == [i \in DOMAIN selected |-> Sample(selected[i])]
<1>1. Found(q) = found
  BY DEF Found
<1>2. q.target \in ToSet(Targets)
  BY DEF AllQueries
<1>3. \A s \in ToSet(Series) : reading[q.target][s] \in Nat
  BY <1>2 DEF TypeOK
<1>4. Series \in Seq(ToSet(Series))
  BY DeliveryAssumption
<1>5. \A s \in wanted : reading[q.target][s] > 0
  OBVIOUS
<1> HIDE DEF wanted
<1>6. /\ selected \in Seq(ToSet(Series)) /\ \A i \in DOMAIN selected : selected[i] \in wanted
      /\ \A j \in DOMAIN Series : Series[j] \in wanted =>
            \E i \in DOMAIN selected : selected[i] = Series[j]
  BY <1>4, SelectKeeps
<1> HIDE DEF selected
<1>7. \A i \in DOMAIN selected : Sample(selected[i]) \in Samples
  BY <1>3, <1>5, <1>6 DEF Samples
<1>8. found \in Seq(Samples)
  <2> HIDE DEF Sample
  <2>1. Len(selected) \in Nat /\ DOMAIN selected = 1 .. Len(selected)
    BY <1>6
  <2>2. \A i \in 1 .. Len(selected) : Sample(selected[i]) \in Samples
    BY <1>7, <2>1
  <2> QED  BY <2>1, <2>2, IsASeq
<1>9. /\ DOMAIN found = DOMAIN selected
      /\ \A i \in DOMAIN selected : /\ found[i].series = selected[i]
                                    /\ found[i].value = reading[q.target][selected[i]]
  OBVIOUS
<1>10. ASSUME NEW s \in ToSet(Series), s \in wanted
       PROVE  \E i \in DOMAIN selected : selected[i] = s
  BY <1>6, <1>10, MembersAre
<1> HIDE DEF found
<1> QED  BY <1>1, <1>8, <1>9, <1>10 DEF wanted

-----------------------------------------------------------------------------
(* What a replica has once a batch arrived.                                *)

\* In new, samples of the batch for the series it brings, old for the others.
Brings(new, old, samples, b) ==
    /\ new \in [Written -> Nat]
    /\ \A w \in Written : new[w] = old[w] \/ new[w] \in Brought(samples, w)
    /\ \A j \in DOMAIN Batch(samples, b) :
          LET w == Relabel[Batch(samples, b)[j].series]
          IN  w # Dropped => w \in Written /\ new[w] \in Brought(samples, w)

\* What samples bring is the value of one of them.
LEMMA BroughtIs ==
    ASSUME NEW samples, NEW w
    PROVE  \A v : v \in Brought(samples, w) <=>
              \E i \in DOMAIN samples : Relabel[samples[i].series] = w /\ v = samples[i].value
<1>1. \A x : x \in ToSet(samples) <=> \E i \in DOMAIN samples : x = samples[i]
  BY MembersAre
<1> QED  BY <1>1 DEF Brought

\* That is what Receives gives.
LEMMA BatchArrives ==
    ASSUME NEW samples \in Seq(Samples), NEW b \in Nat \ {0}, NEW old \in [Written -> Nat],
           NEW new \in Receives(old, Batch(samples, b))
    PROVE  Brings(new, old, samples, b)
<1> DEFINE s == Batch(samples, b)
           o == (b - 1) * BatchSize
           kept(w) == IF Brought(s, w) = {} THEN {old[w]} ELSE Brought(s, w)
<1>1. /\ s \in Seq(Samples) /\ o \in Nat
      /\ \A i \in DOMAIN s : o + i \in DOMAIN samples /\ s[i] = samples[o + i]
  BY BatchIs
<1>2. \A x \in Samples : x.series \in ToSet(Series) /\ x.value \in Nat
  BY DEF Samples
<1>3. \A i \in DOMAIN samples : samples[i] \in Samples
  OBVIOUS
<1>4. new \in [Written -> UNION {kept(w) : w \in Written}] /\ \A w \in Written : new[w] \in kept(w)
  BY DEF Receives
<1> HIDE DEF s, o
<1>5. \A w : Brought(s, w) \subseteq Brought(samples, w)
  BY <1>1, BroughtIs
<1>6. \A w : Brought(samples, w) \subseteq Nat
  BY <1>2, <1>3, BroughtIs
<1>7. \A w \in Written : new[w] = old[w] \/ new[w] \in Brought(samples, w)
  BY <1>4, <1>5
<1>8. new \in [Written -> Nat]
  <2>1. \A w \in Written : new[w] \in Nat
    BY <1>6, <1>7
  <2> QED  BY <1>4, <2>1
<1>9. ASSUME NEW j \in DOMAIN s, Relabel[s[j].series] # Dropped
      PROVE  /\ Relabel[s[j].series] \in Written
             /\ new[Relabel[s[j].series]] \in Brought(samples, Relabel[s[j].series])
  <2>1. Relabel[s[j].series] \in Written
    BY <1>1, <1>2, <1>3, <1>9 DEF Written
  <2>2. s[j].value \in Brought(s, Relabel[s[j].series])
    BY BroughtIs
  <2> QED  BY <1>4, <1>5, <2>1, <2>2
<1> QED  BY <1>7, <1>8, <1>9 DEF s, Brings

-----------------------------------------------------------------------------
(* The inductive invariant.                                                *)

\* The batches sent so far are there or reported, the current one is there where
\* it is acknowledged, and a success had nothing to report.
SendingInv ==
    /\ phase = "sending" =>
          /\ \A b \in 1 .. batch - 1, r \in Replicas : <<b, r>> \in errs \/ Delivered(b, r)
          /\ \A r \in acked : Delivered(batch, r)
    /\ phase # "sending" => acked = {}
    /\ phase = "idle" /\ outcome = "success" => errs = {}
    /\ FailureIsContained

\* Some target reads at least this much for the series.
Reached(s, v) == \E t \in ToSet(Targets) : reading[t][s] >= v

\* Every sample collected was read at some target, and every value received for a
\* series that the rules keep apart.
ReadingsInv ==
    /\ \A t \in ToSet(Targets), s \in ToSet(Series) : reading[t][s] <= MaxReading[t][s]
    /\ \A i \in DOMAIN collected : Reached(collected[i].series, collected[i].value)
    /\ \A i \in DOMAIN stored : Reached(stored[i].series, stored[i].value)
    /\ \A r \in Replicas, s \in ToSet(Series) :
          KeptApart(s) /\ received[r][Relabel[s]] > 0 => Reached(s, received[r][Relabel[s]])
    /\ phase # "querying" => collected = <<>>

\* Some pattern selects the series at once.
SelectedAtOnce(s) == \E p \in ToSet(Patterns) : s \in Strategies[p][1]

\* A query still to be made will find at least v for the series.
Pending(s, v) ==
    \E i \in DOMAIN asked : /\ asked[i].strategy = 1
                            /\ s \in Strategies[asked[i].pattern][1]
                            /\ reading[asked[i].target][s] >= v

\* While nothing was missed, a cycle has found or will find at least v for the
\* series, or has found nothing below v and will not, as one target alone has it.
Regained(s, v) ==
    IF SelectedAtOnce(s)
    THEN Pending(s, v) \/ \E i \in DOMAIN collected : collected[i].series = s /\ collected[i].value >= v
    ELSE \A i \in DOMAIN collected : collected[i].series = s => collected[i].value >= v

\* A cycle that missed nothing is to write no less than the replicas have.
CounterInv ==
    missed = {} =>
        \A r \in Replicas, s \in ToSet(Series) :
            Steady(s) /\ KeptApart(s) /\ received[r][Relabel[s]] > 0 =>
                /\ phase = "querying" => Regained(s, received[r][Relabel[s]])
                /\ phase = "sending" =>
                      \A i \in DOMAIN stored :
                          stored[i].series = s => stored[i].value >= received[r][Relabel[s]]

-----------------------------------------------------------------------------
(* Types.                                                                  *)

\* Types hold initially.
LEMMA TypeInit == Init => TypeOK
<1> SUFFICES ASSUME Init PROVE TypeOK
  OBVIOUS
<1>1. <<>> \in Seq(Samples) /\ <<>> \in Seq(AllQueries) /\ OneEach(<<>>)
  BY DEF OneEach
<1>2. Tries \in Nat
  BY DeliveryAssumption
<1> QED  BY <1>1, <1>2 DEF Init, TypeOK

\* A cycle that starts has queries for known targets.
LEMMA StartCycleType == ASSUME TypeOK, StartCycle PROVE TypeOK'
<1> DEFINE healthy == Select(Targets, ToSet(Targets) \ missed')
<1>1. healthy \in Seq(ToSet(Targets))
  <2>1. Targets \in Seq(ToSet(Targets))
    BY DeliveryAssumption
  <2> QED  BY <2>1, SelectKeeps
<1>2. Queries(healthy) \in Seq(AllQueries)
  BY <1>1, QueriesAre
<1>3. /\ missed' \subseteq Unreliable
      /\ \/ stored' = <<>> /\ outcome' = "no targets" /\ phase' = phase /\ asked' = asked
         \/ stored' = stored /\ outcome' = outcome /\ phase' = "querying" /\ asked' = Queries(healthy)
      /\ UNCHANGED <<reading, received, collected, sending>>
  BY Zenon DEF StartCycle
<1> HIDE DEF healthy
<1>4. asked' \in Seq(AllQueries)
  BY <1>2, <1>3 DEF TypeOK
<1>5. stored' \in Seq(Samples) /\ OneEach(stored')
  <2>1. <<>> \in Seq(Samples) /\ OneEach(<<>>)
    BY DEF OneEach
  <2> QED  BY <1>3, <2>1 DEF TypeOK
<1> QED  BY <1>3, <1>4, <1>5 DEF TypeOK, sending

\* The next strategy of a query is a query.
LEMMA TryNextType == ASSUME NEW q \in AllQueries PROVE TryNext(q) \in Seq(AllQueries)
<1> DEFINE next == [q EXCEPT !.strategy = @ + 1]
<1>1. next \in AllQueries
  BY DEF AllQueries
<1> HIDE DEF next
<1>2. <<next>> \in Seq(AllQueries) /\ <<>> \in Seq(AllQueries)
  BY <1>1
<1> QED  BY <1>2 DEF TryNext, next

\* What a query in progress is, and what is left behind it.
LEMMA AskedIs ==
    ASSUME TypeOK, asked # <<>>
    PROVE  /\ Head(asked) \in AllQueries /\ Tail(asked) \in Seq(AllQueries)
           /\ \A i \in DOMAIN asked : \/ asked[i] = Head(asked)
                                      \/ \E j \in DOMAIN Tail(asked) : Tail(asked)[j] = asked[i]
<1>1. asked \in Seq(AllQueries) /\ Len(asked) \in Nat \ {0} /\ DOMAIN asked = 1 .. Len(asked)
  <2>1. asked \in Seq(AllQueries)
    BY DEF TypeOK
  <2> QED  BY <2>1
<1>2. /\ Head(asked) = asked[1] /\ Tail(asked) \in Seq(AllQueries)
      /\ Len(Tail(asked)) = Len(asked) - 1
      /\ \A j \in 1 .. Len(asked) - 1 : Tail(asked)[j] = asked[j + 1]
  BY <1>1
<1>3. DOMAIN Tail(asked) = 1 .. Len(asked) - 1
  BY <1>2
<1>4. ASSUME NEW i \in DOMAIN asked, i # 1
      PROVE  \E j \in DOMAIN Tail(asked) : Tail(asked)[j] = asked[i]
  <2>1. i - 1 \in 1 .. Len(asked) - 1 /\ (i - 1) + 1 = i
    BY <1>1, <1>4
  <2> QED  BY <1>2, <1>3, <2>1
<1> QED  BY <1>1, <1>2, <1>4

\* A query that ends leaves queries, and adds samples.
LEMMA QueryType == ASSUME TypeOK, QueryAnswered \/ QueryFails PROVE TypeOK'
<1> DEFINE q == Head(asked)
<1>1. asked # <<>>
  BY DEF QueryAnswered, QueryFails
<1>2. q \in AllQueries /\ Tail(asked) \in Seq(AllQueries)
  BY <1>1, AskedIs
<1>3. <<>> \in Seq(AllQueries) /\ TryNext(q) \in Seq(AllQueries)
  BY <1>2, TryNextType
<1>4. CASE QueryAnswered
  <2>1. /\ collected' = collected \o Found(q)
        /\ asked' = (IF Found(q) = <<>> THEN TryNext(q) ELSE <<>>) \o Tail(asked)
        /\ UNCHANGED <<reading, received, phase, missed, stored, sending, outcome>>
    BY <1>4, Zenon DEF QueryAnswered
  <2>2. Found(q) \in Seq(Samples) /\ collected \in Seq(Samples)
    BY <1>2, FoundIs DEF TypeOK
  <2> HIDE DEF q
  <2>3. collected' \in Seq(Samples)
    BY <2>1, <2>2
  <2>4. asked' \in Seq(AllQueries)
    BY <1>2, <1>3, <2>1
  <2> QED  BY <2>1, <2>3, <2>4 DEF TypeOK, sending
<1>5. CASE QueryFails
  <2>1. /\ q.target \in Unreliable /\ missed' = missed \cup {q.target}
        /\ asked' = (IF q.strategy = 1 THEN <<>> ELSE TryNext(q)) \o Tail(asked)
        /\ UNCHANGED <<reading, received, phase, collected, stored, sending, outcome>>
    BY <1>5, Zenon DEF QueryFails
  <2> HIDE DEF q
  <2>2. asked' \in Seq(AllQueries)
    BY <1>2, <1>3, <2>1
  <2> QED  BY <2>1, <2>2 DEF TypeOK, sending
<1> QED  BY <1>4, <1>5

\* What is stored has one sample a series.
LEMMA StoreType == ASSUME TypeOK, Store PROVE TypeOK'
<1>1. /\ stored' = DeduplicateMetrics(collected) /\ collected' = <<>> /\ errs' = {} /\ batch' = 1
      /\ phase' \in {"idle", "sending"} /\ outcome' \in {outcome, "clean-empty"}
      /\ UNCHANGED <<reading, received, asked, missed, attempts, acked>>
  BY DEF Store
<1>2. stored' \in Seq(Samples) /\ HighestOf(stored', collected)
  BY <1>1, DedupKeepsHighest DEF TypeOK
<1>3. OneEach(stored')
  BY <1>2 DEF HighestOf
<1>4. <<>> \in Seq(Samples)
  OBVIOUS
<1>5. batch' \in Nat \ {0} /\ errs' \subseteq (Nat \ {0}) \X Replicas
  BY <1>1
<1>6. /\ phase' \in {"idle", "querying", "sending"}
      /\ outcome' \in {"none", "no targets", "success", "failure", "clean-empty"}
  BY <1>1 DEF TypeOK
<1> QED  BY <1>1, <1>2, <1>3, <1>4, <1>5, <1>6 DEF TypeOK

\* An attempt leaves a replica with readings.
LEMMA AttemptType ==
    ASSUME TypeOK, NEW r \in Replicas, AttemptSucceeds(r) \/ AttemptFails(r) PROVE TypeOK'
<1>1. /\ attempts[r] < Tries /\ attempts' = [attempts EXCEPT ![r] = @ + 1]
      /\ acked' \in {acked, acked \cup {r}}
      /\ Arrives(r) \/ UNCHANGED received
      /\ UNCHANGED <<reading, phase, asked, missed, collected, stored, batch, errs, outcome>>
  BY DEF AttemptSucceeds, AttemptFails
<1>2. ASSUME Arrives(r) PROVE received' \in [Replicas -> [Written -> Nat]]
  <2>1. PICK values \in Receives(received[r], Batch(stored, batch)) :
           received' = [received EXCEPT ![r] = values]
    BY <1>2 DEF Arrives
  <2>2. values \in [Written -> Nat]
    BY BatchArrives DEF TypeOK, Brings
  <2> QED  BY <2>1, <2>2 DEF TypeOK
<1>3. received' \in [Replicas -> [Written -> Nat]]
  BY <1>1, <1>2 DEF TypeOK
<1>4. attempts' \in [Replicas -> 0 .. Tries]
  <2>1. Tries \in Nat /\ attempts \in [Replicas -> 0 .. Tries]
    BY DeliveryAssumption DEF TypeOK
  <2> QED  BY <1>1, <2>1
<1> QED  BY <1>1, <1>3, <1>4 DEF TypeOK

\* TypeOK is inductive.
LEMMA TypeNext == ASSUME TypeOK, [Next]_vars PROVE TypeOK'
<1>1. CASE StartCycle
  BY <1>1, StartCycleType
<1>2. CASE QueryAnswered \/ QueryFails
  BY <1>2, QueryType
<1>3. CASE Store
  BY <1>3, StoreType
<1>4. ASSUME NEW r \in Replicas, AttemptSucceeds(r) \/ AttemptFails(r) PROVE TypeOK'
  BY <1>4, AttemptType
<1>5. CASE BatchEnds
  <2>1. Tries \in Nat
    BY DeliveryAssumption
  <2>2. /\ errs' = errs \cup GaveUp /\ attempts' = [r \in Replicas |-> 0] /\ acked' = {}
        /\ phase' \in {"idle", "sending"} /\ outcome' \in {outcome, "failure", "success"}
        /\ batch' \in {batch, batch + 1}
        /\ UNCHANGED <<reading, received, asked, missed, collected, stored>>
    BY <1>5 DEF BatchEnds
  <2>3. batch' \in Nat \ {0} /\ GaveUp \subseteq (Nat \ {0}) \X Replicas
    <3>1. batch \in Nat \ {0}
      BY DEF TypeOK
    <3>2. \A p \in GaveUp : p \in (Nat \ {0}) \X Replicas
      BY <3>1 DEF GaveUp
    <3> QED  BY <2>2, <3>1, <3>2
  <2>4. attempts' \in [Replicas -> 0 .. Tries]
    BY <2>1, <2>2
  <2> QED  BY <2>2, <2>3, <2>4 DEF TypeOK
<1>6. ASSUME NEW t \in ToSet(Targets), NEW s \in ToSet(Series), Scrape(t, s) PROVE TypeOK'
  <2>1. /\ reading' = [reading EXCEPT ![t] = [reading[t] EXCEPT ![s] = @ + 1]]
        /\ UNCHANGED <<received, phase, asked, missed, collected, stored, sending, outcome>>
    BY <1>6 DEF Scrape
  <2>2. [reading[t] EXCEPT ![s] = @ + 1] \in [ToSet(Series) -> Nat]
    <3>1. reading[t] \in [ToSet(Series) -> Nat]
      BY <1>6 DEF TypeOK
    <3> QED  BY <1>6, <3>1
  <2>3. reading' \in [ToSet(Targets) -> [ToSet(Series) -> Nat]]
    BY <2>1, <2>2 DEF TypeOK
  <2> QED  BY <2>1, <2>3 DEF TypeOK, sending
<1>7. CASE UNCHANGED vars
  BY <1>7 DEF vars, TypeOK
<1> QED  BY <1>1, <1>2, <1>3, <1>4, <1>5, <1>6, <1>7 DEF Next

(***************************************************************************)
(* Every reachable state is well typed: among other things, a cycle stores *)
(* one sample a series, whatever was collected.                            *)
(***************************************************************************)
THEOREM TypeCorrect == Spec => []TypeOK
<1>1. TypeOK /\ [Next]_vars => TypeOK'
  BY TypeNext
<1> QED  BY <1>1, TypeInit, PTL DEF Spec

-----------------------------------------------------------------------------
(* Delivery.                                                               *)

\* An attempt that arrives takes no batch away from its replica, and brings its own.
LEMMA ArrivalDelivers ==
    ASSUME TypeOK, NEW r \in Replicas, UNCHANGED <<stored, batch>>, Arrives(r)
    PROVE  /\ \A b \in Nat \ {0}, t \in Replicas : Delivered(b, t) => Delivered(b, t)'
           /\ Delivered(batch, r)'
<1>1. /\ batch \in Nat \ {0} /\ stored \in Seq(Samples)
      /\ received \in [Replicas -> [Written -> Nat]]
  BY DEF TypeOK
<1>2. PICK new \in Receives(received[r], Batch(stored, batch)) :
         received' = [received EXCEPT ![r] = new]
  BY DEF Arrives
<1>3. received'[r] = new /\ \A t \in Replicas \ {r} : received'[t] = received[t]
  BY <1>1, <1>2
<1>4. Brings(new, received[r], stored, batch)
  BY <1>1, BatchArrives
<1>5. \A b : Batch(stored, b)' = Batch(stored, b)
  BY DEF Batch
<1>6. \A w : Brought(stored, w)' = Brought(stored, w)
  BY DEF Brought
<1>7. ASSUME NEW b \in Nat \ {0}, NEW t \in Replicas, Delivered(b, t) PROVE Delivered(b, t)'
  <2>1. ASSUME NEW j \in DOMAIN Batch(stored, b), Relabel[Batch(stored, b)[j].series] # Dropped
        PROVE  received'[t][Relabel[Batch(stored, b)[j].series]]
                  \in Brought(stored, Relabel[Batch(stored, b)[j].series])
    <3> DEFINE w == Relabel[Batch(stored, b)[j].series]
    <3>1. received[t][w] \in Brought(stored, w)
      BY <1>7, <2>1 DEF Delivered, Has
    <3>2. w \in Written
      <4>1. Batch(stored, b)[j] \in Samples
        BY <1>1, BatchIs
      <4> QED  BY <2>1, <4>1 DEF Written, Samples
    <3>3. new[w] = received[r][w] \/ new[w] \in Brought(stored, w)
      BY <1>4, <3>2 DEF Brings
    <3> HIDE DEF w
    <3>4. received'[t][w] \in Brought(stored, w)
      BY <1>3, <3>1, <3>3
    <3> QED  BY <3>4 DEF w
  <2> QED  BY <1>5, <1>6, <2>1 DEF Delivered, Has
<1>8. Delivered(batch, r)'
  BY <1>3, <1>4, <1>5, <1>6 DEF Delivered, Has, Brings
<1> QED  BY <1>7, <1>8

\* A step that leaves what was sent and what is known of it.
LEMMA SentUntouched ==
    ASSUME SendingInv, UNCHANGED <<received, stored, phase, sending, outcome>> PROVE SendingInv'
<1>1. UNCHANGED <<batch, acked, errs>>
  BY DEF sending
<1>2. \A b, r : Delivered(b, r)' <=> Delivered(b, r)
  BY DEF Delivered, Has, Batch, Brought
<1>3. Batches(stored)' = Batches(stored)
  BY DEF Batches
<1> QED  BY <1>1, <1>2, <1>3 DEF SendingInv, FailureIsContained

\* An attempt keeps it: what arrives disturbs nothing, what is acknowledged arrived.
LEMMA SentAttempt ==
    ASSUME TypeOK, SendingInv, NEW r \in Replicas, AttemptSucceeds(r) \/ AttemptFails(r)
    PROVE  SendingInv'
<1>1. /\ phase = "sending"
      /\ UNCHANGED <<phase, stored, batch, errs, outcome>>
      /\ batch \in Nat \ {0} /\ acked \subseteq Replicas
  BY DEF AttemptSucceeds, AttemptFails, TypeOK
<1>2. CASE UNCHANGED <<received, acked>>
  <2>1. \A b, t : Delivered(b, t)' <=> Delivered(b, t)
    BY <1>1, <1>2 DEF Delivered, Has, Batch, Brought
  <2> QED  BY <1>1, <1>2, <2>1 DEF SendingInv, FailureIsContained
<1>3. CASE Arrives(r) /\ acked' \in {acked, acked \cup {r}}
  <2>1. /\ \A b \in Nat \ {0}, t \in Replicas : Delivered(b, t) => Delivered(b, t)'
        /\ Delivered(batch, r)'
    BY <1>1, <1>3, ArrivalDelivers
  <2>2. ASSUME NEW b \in 1 .. batch - 1, NEW t \in Replicas
        PROVE  <<b, t>> \in errs \/ Delivered(b, t)'
    <3>1. b \in Nat \ {0}
      BY <1>1
    <3>2. <<b, t>> \in errs \/ Delivered(b, t)
      BY <1>1, <2>2 DEF SendingInv
    <3> QED  BY <2>1, <3>1, <3>2
  <2>3. ASSUME NEW t \in acked' PROVE Delivered(batch, t)'
    <3>1. CASE t = r
      BY <2>1, <3>1
    <3>2. CASE t # r
      BY <1>1, <1>3, <2>1, <2>3, <3>2 DEF SendingInv
    <3> QED  BY <3>1, <3>2
  <2> QED  BY <1>1, <2>2, <2>3 DEF SendingInv, FailureIsContained
<1> QED  BY <1>2, <1>3 DEF AttemptSucceeds, AttemptFails

\* The end of a batch: every replica has it, or is reported.
LEMMA SentBatch == ASSUME TypeOK, SendingInv, BatchEnds PROVE SendingInv'
<1>1. /\ phase = "sending" /\ errs' = errs \cup GaveUp /\ acked' = {}
      /\ UNCHANGED <<received, stored>>
      /\ \/ /\ batch = Batches(stored) /\ phase' = "idle"
            /\ outcome' = IF SendFailed THEN "failure" ELSE "success"
         \/ batch' = batch + 1 /\ phase' = "sending"
  BY DEF BatchEnds, LastBatch
<1>2. \A b, t : Delivered(b, t)' <=> Delivered(b, t)
  BY <1>1 DEF Delivered, Has, Batch, Brought
<1>3. batch \in Nat \ {0}
  BY DEF TypeOK
<1>4. ASSUME NEW b \in 1 .. batch, NEW t \in Replicas PROVE <<b, t>> \in errs' \/ Delivered(b, t)'
  <2>1. CASE b = batch
    <3>1. CASE t \in acked
      BY <1>1, <1>2, <2>1, <3>1 DEF SendingInv
    <3>2. CASE t \notin acked
      BY <1>1, <2>1, <3>2 DEF GaveUp
    <3> QED  BY <3>1, <3>2
  <2>2. CASE b # batch
    <3>1. b \in 1 .. batch - 1
      BY <1>3, <2>2
    <3> QED  BY <1>1, <1>2, <3>1 DEF SendingInv
  <2> QED  BY <2>1, <2>2
<1>5. CASE /\ batch = Batches(stored) /\ phase' = "idle"
           /\ outcome' = IF SendFailed THEN "failure" ELSE "success"
  <2>1. Batches(stored)' = batch
    BY <1>1, <1>5 DEF Batches
  <2>2. FailureIsContained'
    BY <1>4, <2>1 DEF FailureIsContained
  <2>3. outcome' = "success" => errs' = {}
    BY <1>1, <1>5 DEF SendFailed
  <2> QED  BY <1>1, <1>5, <2>2, <2>3 DEF SendingInv
<1>6. CASE batch' = batch + 1 /\ phase' = "sending"
  <2>1. batch' - 1 = batch
    BY <1>3, <1>6
  <2> QED  BY <1>1, <1>4, <1>6, <2>1 DEF SendingInv, FailureIsContained
<1> QED  BY <1>1, <1>5, <1>6

\* SendingInv is inductive, relative to TypeOK.
LEMMA SendingNext == ASSUME TypeOK, SendingInv, [Next]_vars PROVE SendingInv'
<1>1. CASE StartCycle
  <2>1. /\ acked = {} /\ acked' = {}
        /\ phase' = "querying" \/ (phase' = "idle" /\ outcome' = "no targets")
    BY <1>1 DEF StartCycle, sending, SendingInv
  <2> QED  BY <2>1 DEF SendingInv, FailureIsContained
<1>2. CASE Store
  <2>1. /\ acked' = {} /\ errs' = {} /\ batch' = 1
        /\ phase' = "sending" \/ (phase' = "idle" /\ outcome' = "clean-empty")
    BY <1>2 DEF Store, SendingInv
  <2>2. 1 .. batch' - 1 = {}
    BY <2>1
  <2> QED  BY <2>1, <2>2 DEF SendingInv, FailureIsContained
<1>3. ASSUME NEW r \in Replicas, AttemptSucceeds(r) \/ AttemptFails(r) PROVE SendingInv'
  BY <1>3, SentAttempt
<1>4. CASE BatchEnds
  BY <1>4, SentBatch
<1>5. CASE UNCHANGED <<received, stored, phase, sending, outcome>>
  BY <1>5, SentUntouched
<1> QED
  BY <1>1, <1>2, <1>3, <1>4, <1>5, Zenon DEF Next, QueryAnswered, QueryFails, Scrape, vars, sending

\* What is sent, and what is known of it, agree in every reachable state.
LEMMA SendingInvariant == Spec => []SendingInv
<1>1. Init => SendingInv
  BY DEF Init, SendingInv, FailureIsContained
<1>2. TypeOK /\ SendingInv /\ [Next]_vars => SendingInv'
  BY SendingNext
<1> QED  BY <1>1, <1>2, TypeCorrect, PTL DEF Spec

(***************************************************************************)
(* Whatever fails, every batch not reported as failed at a replica is      *)
(* there at the end of the cycle.                                          *)
(***************************************************************************)
THEOREM FailuresAreContained == Spec => []FailureIsContained
<1>1. SendingInv => FailureIsContained
  BY DEF SendingInv
<1> QED  BY <1>1, SendingInvariant, PTL

(***************************************************************************)
(* A success has brought every stored sample to every replica, batches     *)
(* that do not come out even included.                                     *)
(***************************************************************************)
THEOREM SuccessesAreDeliveries == Spec => []SuccessIsDelivery
<1>1. TypeOK /\ SendingInv => SuccessIsDelivery
  <2> SUFFICES ASSUME TypeOK, SendingInv, phase = "idle", outcome = "success",
                      NEW r \in Replicas, NEW i \in DOMAIN stored
               PROVE  Has(r, stored[i])
    BY DEF SuccessIsDelivery
  <2>1. stored \in Seq(Samples)
    BY DEF TypeOK
  <2>2. PICK b \in 1 .. Batches(stored) : \E j \in DOMAIN Batch(stored, b) : Batch(stored, b)[j] = stored[i]
    BY <2>1, BatchesCover
  <2>3. Delivered(b, r)
    BY <2>2 DEF SendingInv, FailureIsContained
  <2> QED  BY <2>2, <2>3 DEF Delivered
<1> QED  BY <1>1, TypeCorrect, SendingInvariant, PTL

-----------------------------------------------------------------------------
(* Counters.                                                               *)

\* A series is reached by no less than it was when readings grow.
LEMMA ReachedGrows ==
    ASSUME TypeOK, TypeOK',
           \A t \in ToSet(Targets), s \in ToSet(Series) : reading'[t][s] >= reading[t][s]
    PROVE  \A s \in ToSet(Series), v \in Nat : Reached(s, v) => Reached(s, v)'
<1> SUFFICES ASSUME NEW s \in ToSet(Series), NEW v \in Nat, Reached(s, v) PROVE Reached(s, v)'
  OBVIOUS
<1>1. PICK t \in ToSet(Targets) : reading[t][s] >= v
  BY DEF Reached
<1>2. reading[t][s] \in Nat /\ reading'[t][s] \in Nat /\ reading'[t][s] >= reading[t][s]
  <2>1. /\ reading \in [ToSet(Targets) -> [ToSet(Series) -> Nat]]
        /\ reading' \in [ToSet(Targets) -> [ToSet(Series) -> Nat]]
    BY DEF TypeOK
  <2> QED  BY <2>1
<1>3. reading'[t][s] >= v
  BY <1>1, <1>2
<1> QED  BY <1>3 DEF Reached

\* The samples of a cycle and what the replicas have are of known series and numbers.
LEMMA ReadingTypes ==
    ASSUME TypeOK
    PROVE  /\ \A i \in DOMAIN collected : collected[i].series \in ToSet(Series) /\ collected[i].value \in Nat
           /\ \A i \in DOMAIN stored : stored[i].series \in ToSet(Series) /\ stored[i].value \in Nat
           /\ \A s \in ToSet(Series) : Relabel[s] # Dropped => Relabel[s] \in Written
           /\ \A r \in Replicas, s \in ToSet(Series) :
                 KeptApart(s) => Relabel[s] \in Written /\ received[r][Relabel[s]] \in Nat
<1>1. \A x \in Samples : x.series \in ToSet(Series) /\ x.value \in Nat
  BY DEF Samples
<1>2. collected \in Seq(Samples) /\ stored \in Seq(Samples)
  BY DEF TypeOK
<1>3. \A s \in ToSet(Series) : Relabel[s] # Dropped => Relabel[s] \in Written
  BY DEF Written
<1>4. received \in [Replicas -> [Written -> Nat]]
  BY DEF TypeOK
<1> QED  BY <1>1, <1>2, <1>3, <1>4 DEF KeptApart

\* What a replica receives for a series when a batch arrives: what it had, or a
\* stored sample of the series or of one that the rules make one with it.
LEMMA ArrivesFor ==
    ASSUME TypeOK, NEW r \in Replicas, NEW s \in ToSet(Series), Relabel[s] # Dropped,
           Arrives(r), NEW t \in Replicas
    PROVE  \/ received'[t][Relabel[s]] = received[t][Relabel[s]]
           \/ \E i \in DOMAIN stored : /\ Relabel[stored[i].series] = Relabel[s]
                                       /\ received'[t][Relabel[s]] = stored[i].value
<1>1. /\ batch \in Nat \ {0} /\ stored \in Seq(Samples)
      /\ received \in [Replicas -> [Written -> Nat]]
  BY DEF TypeOK
<1>2. PICK new \in Receives(received[r], Batch(stored, batch)) :
         received' = [received EXCEPT ![r] = new]
  BY DEF Arrives
<1>3. received'[r] = new /\ \A u \in Replicas \ {r} : received'[u] = received[u]
  BY <1>1, <1>2
<1>4. Brings(new, received[r], stored, batch)
  BY <1>1, BatchArrives
<1>5. Relabel[s] \in Written
  BY ReadingTypes
<1>6. new[Relabel[s]] = received[r][Relabel[s]] \/ new[Relabel[s]] \in Brought(stored, Relabel[s])
  BY <1>4, <1>5 DEF Brings
<1> QED  BY <1>3, <1>6, BroughtIs

\* If the rules keep the series apart, that is its own stored sample.
LEMMA ArrivesApart ==
    ASSUME TypeOK, NEW r \in Replicas, NEW s \in ToSet(Series), KeptApart(s),
           Arrives(r), NEW t \in Replicas
    PROVE  \/ received'[t][Relabel[s]] = received[t][Relabel[s]]
           \/ \E i \in DOMAIN stored : stored[i].series = s /\ received'[t][Relabel[s]] = stored[i].value
<1>1. Relabel[s] # Dropped
  BY DEF KeptApart
<1>2. \A i \in DOMAIN stored : Relabel[stored[i].series] = Relabel[s] => stored[i].series = s
  BY ReadingTypes DEF KeptApart
<1> QED  BY <1>1, <1>2, ArrivesFor

\* A scrape adds to one reading, within its bound.
LEMMA ScrapeGrows ==
    ASSUME TypeOK, ReadingsInv, NEW u \in ToSet(Targets), NEW x \in ToSet(Series), Scrape(u, x)
    PROVE  \A t \in ToSet(Targets), s \in ToSet(Series) :
              reading'[t][s] >= reading[t][s] /\ reading'[t][s] <= MaxReading[t][s]
<1> SUFFICES ASSUME NEW t \in ToSet(Targets), NEW s \in ToSet(Series)
             PROVE  reading'[t][s] >= reading[t][s] /\ reading'[t][s] <= MaxReading[t][s]
  OBVIOUS
<1>1. /\ reading \in [ToSet(Targets) -> [ToSet(Series) -> Nat]]
      /\ MaxReading \in [ToSet(Targets) -> [ToSet(Series) -> Nat]]
      /\ reading[t][s] <= MaxReading[t][s]
      /\ reading[u][x] < MaxReading[u][x]
  BY DeliveryAssumption DEF TypeOK, ReadingsInv, Scrape
<1>2. reading' = [reading EXCEPT ![u] = [reading[u] EXCEPT ![x] = @ + 1]]
  BY DEF Scrape
<1>3. CASE t = u /\ s = x
  <2>1. reading'[t][s] = reading[t][s] + 1
    BY <1>1, <1>2, <1>3
  <2> QED  BY <1>1, <1>3, <2>1
<1>4. CASE ~(t = u /\ s = x)
  <2>1. reading'[t][s] = reading[t][s]
    BY <1>1, <1>2, <1>4
  <2> QED  BY <1>1, <2>1
<1> QED  BY <1>3, <1>4

\* ReadingsInv is inductive, relative to TypeOK.
LEMMA ReadingsNext == ASSUME TypeOK, TypeOK', ReadingsInv, [Next]_vars PROVE ReadingsInv'
<1>1. ASSUME NEW u \in ToSet(Targets), NEW x \in ToSet(Series), Scrape(u, x) PROVE ReadingsInv'
  <2>1. \A t \in ToSet(Targets), s \in ToSet(Series) :
           reading'[t][s] >= reading[t][s] /\ reading'[t][s] <= MaxReading[t][s]
    BY <1>1, ScrapeGrows
  <2>2. \A s \in ToSet(Series), v \in Nat : Reached(s, v) => Reached(s, v)'
    BY <2>1, ReachedGrows
  <2>3. UNCHANGED <<received, phase, collected, stored>>
    BY <1>1 DEF Scrape
  <2> QED  BY <2>1, <2>2, <2>3, ReadingTypes DEF ReadingsInv
<1>2. ASSUME UNCHANGED reading PROVE \A s, v : Reached(s, v) <=> Reached(s, v)'
  BY <1>2 DEF Reached
<1>3. CASE StartCycle
  <2>1. /\ UNCHANGED <<reading, received, collected>> /\ stored' \in {stored, <<>>}
        /\ phase = "idle"
    BY <1>3 DEF StartCycle
  <2> QED  BY <1>2, <2>1 DEF ReadingsInv
<1>4. CASE QueryAnswered
  <2> DEFINE q == Head(asked)
  <2>1. /\ UNCHANGED <<reading, received, phase, stored>> /\ phase = "querying"
        /\ collected' = collected \o Found(q) /\ asked # <<>>
    BY <1>4 DEF QueryAnswered
  <2>2. q \in AllQueries
    BY <2>1, AskedIs
  <2> HIDE DEF q
  <2>3. /\ Found(q) \in Seq(Samples) /\ collected \in Seq(Samples) /\ q.target \in ToSet(Targets)
        /\ \A i \in DOMAIN Found(q) : Found(q)[i].value = reading[q.target][Found(q)[i].series]
    BY <2>2, FoundIs DEF TypeOK, AllQueries
  <2>4. ASSUME NEW i \in DOMAIN collected' PROVE Reached(collected'[i].series, collected'[i].value)
    <3>1. \/ (i \in DOMAIN collected /\ collected'[i] = collected[i])
          \/ \E j \in DOMAIN Found(q) : collected'[i] = Found(q)[j]
      BY <2>1, <2>3, <2>4, Concatenation
    <3>2. ASSUME NEW j \in DOMAIN Found(q), collected'[i] = Found(q)[j]
          PROVE  Reached(collected'[i].series, collected'[i].value)
      <4>1. /\ Found(q)[j].value \in Nat
            /\ Found(q)[j].value = reading[q.target][Found(q)[j].series]
        <5>1. Found(q)[j] \in Samples
          BY <2>3
        <5> QED  BY <2>3, <5>1 DEF Samples
      <4>2. reading[q.target][Found(q)[j].series] >= Found(q)[j].value
        BY <4>1
      <4> QED  BY <2>3, <3>2, <4>2 DEF Reached
    <3> QED  BY <3>1, <3>2 DEF ReadingsInv
  <2> QED  BY <1>2, <2>1, <2>4 DEF ReadingsInv
<1>5. CASE Store
  <2>1. /\ UNCHANGED <<reading, received>> /\ stored' = DeduplicateMetrics(collected) /\ collected' = <<>>
    BY <1>5 DEF Store
  <2>2. \A i \in DOMAIN stored' : \E j \in DOMAIN collected : stored'[i] = collected[j]
    BY <2>1, DedupKeepsHighest DEF TypeOK, HighestOf
  <2> QED  BY <1>2, <2>1, <2>2 DEF ReadingsInv
<1>6. ASSUME NEW r \in Replicas, AttemptSucceeds(r) \/ AttemptFails(r) PROVE ReadingsInv'
  <2>1. /\ UNCHANGED <<reading, phase, collected, stored>>
        /\ \/ received' = received
           \/ Arrives(r)
    BY <1>6 DEF AttemptSucceeds, AttemptFails
  <2>2. ASSUME NEW t \in Replicas, NEW s \in ToSet(Series), KeptApart(s),
               received'[t][Relabel[s]] > 0
        PROVE  Reached(s, received'[t][Relabel[s]])
    <3>1. \/ received'[t][Relabel[s]] = received[t][Relabel[s]]
          \/ \E i \in DOMAIN stored : stored[i].series = s /\ received'[t][Relabel[s]] = stored[i].value
      BY <2>1, <2>2, ArrivesApart
    <3> QED  BY <2>2, <3>1 DEF ReadingsInv
  <2> QED  BY <1>2, <2>1, <2>2 DEF ReadingsInv
<1>7. CASE UNCHANGED <<reading, received, phase, collected, stored>>
  BY <1>2, <1>7 DEF ReadingsInv
<1>8. CASE BatchEnds
  <2>1. UNCHANGED <<reading, received, collected, stored>> /\ phase = "sending" /\ phase' # "querying"
    BY <1>8 DEF BatchEnds
  <2> QED  BY <1>2, <2>1 DEF ReadingsInv
<1> QED
  BY <1>1, <1>3, <1>4, <1>5, <1>6, <1>7, <1>8 DEF Next, QueryFails, vars

\* A cycle that starts with every target has a query to make for what is selected
\* at once, and has found nothing yet of the rest.
LEMMA CounterStart == ASSUME TypeOK, ReadingsInv, CounterInv, StartCycle PROVE CounterInv'
<1> DEFINE healthy == Select(Targets, ToSet(Targets) \ missed')
<1>1. /\ UNCHANGED <<reading, received, collected>> /\ phase = "idle"
      /\ phase' = "idle" \/ (phase' = "querying" /\ asked' = Queries(healthy))
  BY Zenon DEF StartCycle
<1>2. CASE missed' = {} /\ phase' = "querying" /\ asked' = Queries(healthy)
  <2>1. Targets \in Seq(ToSet(Targets))
    BY DeliveryAssumption
  <2>2. /\ healthy \in Seq(ToSet(Targets))
        /\ \A j \in DOMAIN Targets : Targets[j] \in ToSet(Targets) \ missed' =>
              \E i \in DOMAIN healthy : healthy[i] = Targets[j]
    BY <2>1, SelectKeeps
  <2>3. \A j \in DOMAIN Targets : Targets[j] \in ToSet(Targets) \ missed'
    BY <1>2, MembersAre
  <2> HIDE DEF healthy
  <2>4. \A t \in ToSet(Targets) : \E i \in DOMAIN healthy : healthy[i] = t
    BY <2>2, <2>3, MembersAre
  <2>5. ASSUME NEW s \in ToSet(Series), NEW v, Reached(s, v) PROVE Regained(s, v)'
    <3>1. CASE SelectedAtOnce(s)
      <4>1. PICK p \in ToSet(Patterns) : s \in Strategies[p][1]
        BY <3>1 DEF SelectedAtOnce
      <4>2. PICK t \in ToSet(Targets) : reading[t][s] >= v
        BY <2>5 DEF Reached
      <4>3. PICK i \in DOMAIN healthy : healthy[i] = t
        BY <2>4
      <4>4. PICK j \in DOMAIN Patterns : Patterns[j] = p
        BY MembersAre
      <4>5. PICK k \in DOMAIN Queries(healthy) :
               Queries(healthy)[k] = [target |-> t, pattern |-> p, strategy |-> 1]
        BY <2>2, <4>3, <4>4, QueriesAre
      <4>6. Pending(s, v)'
        BY <1>1, <1>2, <4>1, <4>2, <4>5 DEF Pending
      <4> QED  BY <3>1, <4>6 DEF Regained, SelectedAtOnce
    <3>2. CASE ~SelectedAtOnce(s)
      <4>1. collected' = <<>>
        BY <1>1 DEF ReadingsInv
      <4> QED  BY <3>2, <4>1 DEF Regained, SelectedAtOnce
    <3> QED  BY <3>1, <3>2
  <2> QED  BY <1>1, <1>2, <2>5 DEF CounterInv, ReadingsInv
<1>3. CASE missed' # {} \/ phase' = "idle"
  BY <1>3 DEF CounterInv
<1> QED  BY <1>1, <1>2, <1>3

\* A query that is answered gives what was expected of it.
LEMMA CounterQuery == ASSUME TypeOK, TypeOK', ReadingsInv, CounterInv, QueryAnswered PROVE CounterInv'
<1> DEFINE q == Head(asked)
<1>1. /\ UNCHANGED <<reading, received, missed, phase>> /\ phase = "querying" /\ asked # <<>>
      /\ collected' = collected \o Found(q)
      /\ asked' = (IF Found(q) = <<>> THEN TryNext(q) ELSE <<>>) \o Tail(asked)
  BY Zenon DEF QueryAnswered
<1>2. /\ q \in AllQueries /\ Tail(asked) \in Seq(AllQueries)
      /\ \A i \in DOMAIN asked : asked[i] = q \/ \E j \in DOMAIN Tail(asked) : Tail(asked)[j] = asked[i]
  BY <1>1, AskedIs
<1>3. TryNext(q) \in Seq(AllQueries) /\ <<>> \in Seq(AllQueries)
  BY <1>2, TryNextType
<1> HIDE DEF q
<1>4. /\ Found(q) \in Seq(Samples)
      /\ \A i \in DOMAIN Found(q) : Found(q)[i].value = reading[q.target][Found(q)[i].series]
      /\ \A s \in ToSet(Series) :
            s \in Strategies[q.pattern][q.strategy] /\ reading[q.target][s] > 0
                => \E i \in DOMAIN Found(q) : Found(q)[i].series = s
  BY <1>2, FoundIs
<1>5. q.target \in ToSet(Targets) /\ \A s \in ToSet(Series) : reading[q.target][s] \in Nat
  <2>1. q.target \in ToSet(Targets)
    BY <1>2 DEF AllQueries
  <2> QED  BY <2>1 DEF TypeOK
<1>6. /\ \A i \in DOMAIN collected : i \in DOMAIN collected' /\ collected'[i] = collected[i]
      /\ \A j \in DOMAIN Found(q) : \E i \in DOMAIN collected' : collected'[i] = Found(q)[j]
      /\ \A i \in DOMAIN collected' : \/ (i \in DOMAIN collected /\ collected'[i] = collected[i])
                                     \/ \E j \in DOMAIN Found(q) : collected'[i] = Found(q)[j]
  <2>1. collected \in Seq(Samples)
    BY DEF TypeOK
  <2>2. Joins(collected', collected, Found(q))
    BY <1>1, <1>4, <2>1, ConcatenationJoins
  <2> QED  BY <2>2 DEF Joins
<1>7. \A j \in DOMAIN Tail(asked) : \E i \in DOMAIN asked' : asked'[i] = Tail(asked)[j]
  <2> DEFINE next == IF Found(q) = <<>> THEN TryNext(q) ELSE <<>>
  <2>1. next \in Seq(AllQueries) /\ asked' = next \o Tail(asked)
    BY <1>1, <1>3
  <2> HIDE DEF next
  <2>2. Joins(asked', next, Tail(asked))
    BY <1>2, <2>1, ConcatenationJoins
  <2> QED  BY <2>2 DEF Joins
<1>8. ASSUME NEW r \in Replicas, NEW s \in ToSet(Series), NEW v \in Nat, v > 0, Steady(s),
             Reached(s, v), Regained(s, v)
      PROVE  Regained(s, v)'
  <2>1. CASE SelectedAtOnce(s)
    <3>1. CASE \E i \in DOMAIN collected : collected[i].series = s /\ collected[i].value >= v
      BY <1>6, <2>1, <3>1 DEF Regained, SelectedAtOnce
    <3>2. CASE Pending(s, v)
      <4>1. PICK i \in DOMAIN asked : /\ asked[i].strategy = 1 /\ s \in Strategies[asked[i].pattern][1]
                                      /\ reading[asked[i].target][s] >= v
        BY <3>2 DEF Pending
      <4>2. CASE asked[i] = q
        <5>1. reading[q.target][s] >= v /\ reading[q.target][s] > 0
          BY <1>5, <1>8, <4>1, <4>2
        <5>2. PICK j \in DOMAIN Found(q) : Found(q)[j].series = s
          BY <1>4, <4>1, <4>2, <5>1
        <5>3. Found(q)[j].value >= v
          BY <1>4, <5>1, <5>2
        <5>4. \E k \in DOMAIN collected' : collected'[k].series = s /\ collected'[k].value >= v
          BY <1>6, <5>2, <5>3
        <5> QED  BY <2>1, <5>4 DEF Regained, SelectedAtOnce
      <4>3. CASE \E j \in DOMAIN Tail(asked) : Tail(asked)[j] = asked[i]
        <5>1. PICK k \in DOMAIN asked' : asked'[k] = asked[i]
          BY <1>7, <4>3
        <5>2. Pending(s, v)'
          BY <1>1, <4>1, <5>1 DEF Pending
        <5> QED  BY <2>1, <5>2 DEF Regained, SelectedAtOnce
      <4> QED  BY <1>2, <4>2, <4>3
    <3> QED  BY <1>8, <2>1, <3>1, <3>2 DEF Regained
  <2>2. CASE ~SelectedAtOnce(s)
    <3>1. PICK t \in ToSet(Targets) : reading[t][s] >= v
      BY <1>8 DEF Reached
    <3>2. \A u \in ToSet(Targets) : /\ reading[u][s] \in Nat /\ MaxReading[u][s] \in Nat
                                    /\ reading[u][s] <= MaxReading[u][s]
      <4>1. /\ reading \in [ToSet(Targets) -> [ToSet(Series) -> Nat]]
            /\ MaxReading \in [ToSet(Targets) -> [ToSet(Series) -> Nat]]
        BY DeliveryAssumption DEF TypeOK
      <4> QED  BY <1>8, <4>1 DEF ReadingsInv
    <3>3. MaxReading[t][s] > 0
      BY <1>8, <3>1, <3>2
    <3>4. \A u \in ToSet(Targets) : MaxReading[u][s] > 0 => u = t
      BY <1>8, <2>2, <3>3 DEF Steady, SelectedAtOnce
    <3>5. ASSUME NEW j \in DOMAIN Found(q), Found(q)[j].series = s PROVE Found(q)[j].value >= v
      <4>1. Found(q)[j] \in Samples
        BY <1>4
      <4>2. Found(q)[j].value > 0 /\ Found(q)[j].value = reading[q.target][s]
        BY <1>4, <3>5, <4>1 DEF Samples
      <4>3. q.target = t
        BY <1>5, <3>2, <3>4, <4>2
      <4> QED  BY <3>1, <4>2, <4>3
    <3>6. \A i \in DOMAIN collected : collected[i].series = s => collected[i].value >= v
      BY <1>8, <2>2 DEF Regained
    <3>7. \A i \in DOMAIN collected' : collected'[i].series = s => collected'[i].value >= v
      BY <1>6, <3>5, <3>6
    <3> QED  BY <2>2, <3>7 DEF Regained, SelectedAtOnce
  <2> QED  BY <2>1, <2>2
<1> QED  BY <1>1, <1>8, ReadingTypes DEF CounterInv, ReadingsInv, Steady

\* What is stored is no less than what the replicas have.
LEMMA CounterStore == ASSUME TypeOK, TypeOK', CounterInv, Store PROVE CounterInv'
<1>1. /\ phase = "querying" /\ asked = <<>> /\ phase' \in {"idle", "sending"}
      /\ stored' = DeduplicateMetrics(collected) /\ UNCHANGED <<received, missed>>
  BY DEF Store
<1>2. HighestOf(stored', collected) /\ OneEach(stored')
  BY <1>1, DedupKeepsHighest DEF TypeOK, HighestOf
<1>3. /\ \A i \in DOMAIN collected : collected[i].series \in ToSet(Series) /\ collected[i].value \in Nat
      /\ \A r \in Replicas, s \in ToSet(Series) :
            KeptApart(s) => Relabel[s] \in Written /\ received[r][Relabel[s]] \in Nat
  BY ReadingTypes
<1>4. \A i \in DOMAIN stored' : stored'[i].value \in Nat
  <2>1. stored' \in Seq(Samples) /\ \A x \in Samples : x.value \in Nat
    BY DEF TypeOK, Samples
  <2> QED  BY <2>1
<1>5. ASSUME NEW s \in ToSet(Series), NEW v \in Nat, Regained(s, v),
             NEW i \in DOMAIN stored', stored'[i].series = s
      PROVE  stored'[i].value >= v
  <2>1. CASE SelectedAtOnce(s)
    <3>1. ~Pending(s, v)
      BY <1>1 DEF Pending
    <3>2. PICK j \in DOMAIN collected : collected[j].series = s /\ collected[j].value >= v
      BY <1>5, <2>1, <3>1 DEF Regained
    <3>3. PICK k \in DOMAIN stored' : /\ stored'[k].series = collected[j].series
                                      /\ stored'[k].value >= collected[j].value
      BY <1>2 DEF HighestOf
    <3>4. k = i
      BY <1>2, <1>5, <3>2, <3>3 DEF OneEach
    <3> QED  BY <1>3, <1>4, <3>2, <3>3, <3>4
  <2>2. CASE ~SelectedAtOnce(s)
    <3>1. PICK j \in DOMAIN collected : stored'[i] = collected[j]
      BY <1>2 DEF HighestOf
    <3> QED  BY <1>5, <2>2, <3>1 DEF Regained
  <2> QED  BY <2>1, <2>2
<1> QED  BY <1>1, <1>3, <1>5 DEF CounterInv, Steady

\* While a cycle is sent, a series receives what it had, or its one stored sample.
LEMMA CounterReceived ==
    ASSUME TypeOK, NEW r \in Replicas, AttemptSucceeds(r) \/ AttemptFails(r),
           NEW t \in Replicas, NEW s \in ToSet(Series), KeptApart(s)
    PROVE  \/ received'[t][Relabel[s]] = received[t][Relabel[s]]
           \/ \E i \in DOMAIN stored : stored[i].series = s /\ received'[t][Relabel[s]] = stored[i].value
<1>1. received' = received \/ Arrives(r)
  BY DEF AttemptSucceeds, AttemptFails
<1> QED  BY <1>1, ArrivesApart

\* An attempt does not lower a counter, and leaves what is stored no less than it.
LEMMA CounterAttempt ==
    ASSUME TypeOK, TypeOK', CounterInv, missed = {}, NEW r \in Replicas, AttemptSucceeds(r) \/ AttemptFails(r),
           NEW t \in Replicas, NEW s \in ToSet(Series), KeptApart(s), Steady(s)
    PROVE  /\ received'[t][Relabel[s]] >= received[t][Relabel[s]]
           /\ \A i \in DOMAIN stored : stored[i].series = s => stored[i].value >= received'[t][Relabel[s]]
              \/ received'[t][Relabel[s]] = 0
<1> DEFINE old == received[t][Relabel[s]]
           new == received'[t][Relabel[s]]
<1>1. phase = "sending" /\ UNCHANGED stored
  BY DEF AttemptSucceeds, AttemptFails
<1>2. /\ old \in Nat /\ \A i \in DOMAIN stored : stored[i].value \in Nat
      /\ \A i, j \in DOMAIN stored : stored[i].series = stored[j].series => i = j
  BY ReadingTypes DEF TypeOK, OneEach
<1>3. new = old \/ \E i \in DOMAIN stored : stored[i].series = s /\ new = stored[i].value
  BY CounterReceived
<1>4. old > 0 => \A i \in DOMAIN stored : stored[i].series = s => stored[i].value >= old
  BY <1>1 DEF CounterInv
<1> HIDE DEF old, new
<1>5. CASE new = old
  BY <1>2, <1>4, <1>5 DEF old, new
<1>6. CASE \E i \in DOMAIN stored : stored[i].series = s /\ new = stored[i].value
  <2>1. PICK i \in DOMAIN stored : stored[i].series = s /\ new = stored[i].value
    BY <1>6
  <2>2. new >= old
    BY <1>2, <1>4, <2>1
  <2>3. \A j \in DOMAIN stored : stored[j].series = s => stored[j].value >= new
    BY <1>2, <2>1
  <2> QED  BY <2>2, <2>3 DEF old, new
<1> QED  BY <1>3, <1>5, <1>6

\* A scrape only makes more to be found.
LEMMA CounterScrape ==
    ASSUME TypeOK, TypeOK', ReadingsInv, CounterInv,
           NEW u \in ToSet(Targets), NEW x \in ToSet(Series), Scrape(u, x)
    PROVE  CounterInv'
<1>1. UNCHANGED <<received, phase, asked, missed, collected, stored>>
  BY DEF Scrape
<1>2. \A t \in ToSet(Targets), s \in ToSet(Series) :
         /\ reading'[t][s] >= reading[t][s]
         /\ reading[t][s] \in Nat /\ reading'[t][s] \in Nat
  <2>1. /\ reading \in [ToSet(Targets) -> [ToSet(Series) -> Nat]]
        /\ reading' \in [ToSet(Targets) -> [ToSet(Series) -> Nat]]
    BY DEF TypeOK
  <2> QED  BY <2>1, ScrapeGrows
<1>3. \A i \in DOMAIN asked : asked[i].target \in ToSet(Targets)
  <2>1. asked \in Seq(AllQueries)
    BY DEF TypeOK
  <2>2. \A i \in DOMAIN asked : asked[i] \in AllQueries
    BY <2>1
  <2> QED  BY <2>2 DEF AllQueries
<1>4. ASSUME NEW s \in ToSet(Series), NEW v \in Nat, Pending(s, v) PROVE Pending(s, v)'
  <2>1. PICK i \in DOMAIN asked : /\ asked[i].strategy = 1
                                  /\ s \in Strategies[asked[i].pattern][1]
                                  /\ reading[asked[i].target][s] >= v
    BY <1>4 DEF Pending
  <2>2. reading'[asked[i].target][s] >= v
    BY <1>2, <1>3, <2>1
  <2> QED  BY <1>1, <2>1, <2>2 DEF Pending
<1>5. \A s \in ToSet(Series), v \in Nat : Regained(s, v) => Regained(s, v)'
  BY <1>1, <1>4 DEF Regained, SelectedAtOnce
<1> QED  BY <1>1, <1>5, ReadingTypes DEF CounterInv, Steady

\* CounterInv is inductive, relative to TypeOK and ReadingsInv.
LEMMA CounterNext ==
    ASSUME TypeOK, TypeOK', ReadingsInv, CounterInv, [Next]_vars PROVE CounterInv'
<1>1. CASE StartCycle
  BY <1>1, CounterStart
<1>2. CASE QueryAnswered
  BY <1>2, CounterQuery
<1>3. CASE QueryFails
  <2>1. missed' # {}
    BY <1>3 DEF QueryFails
  <2> QED  BY <2>1 DEF CounterInv
<1>4. CASE Store
  BY <1>4, CounterStore
<1>5. ASSUME NEW r \in Replicas, AttemptSucceeds(r) \/ AttemptFails(r) PROVE CounterInv'
  <2>1. phase' = "sending" /\ UNCHANGED <<stored, missed>>
    BY <1>5 DEF AttemptSucceeds, AttemptFails
  <2>2. ASSUME missed = {}, NEW t \in Replicas, NEW s \in ToSet(Series), KeptApart(s), Steady(s),
               received'[t][Relabel[s]] > 0, NEW i \in DOMAIN stored, stored[i].series = s
        PROVE  stored[i].value >= received'[t][Relabel[s]]
    BY <1>5, <2>2, CounterAttempt
  <2> QED  BY <2>1, <2>2 DEF CounterInv, Steady
<1>6. CASE BatchEnds
  <2>1. UNCHANGED <<received, missed, stored>> /\ phase = "sending" /\ phase' \in {"idle", "sending"}
    BY <1>6 DEF BatchEnds
  <2> QED  BY <2>1 DEF CounterInv, Steady
<1>7. ASSUME NEW t \in ToSet(Targets), NEW s \in ToSet(Series), Scrape(t, s) PROVE CounterInv'
  BY <1>7, CounterScrape
<1>8. CASE UNCHANGED vars
  <2>1. UNCHANGED <<reading, received, phase, asked, missed, collected, stored>>
    BY <1>8 DEF vars
  <2> QED  BY <2>1 DEF CounterInv, Regained, SelectedAtOnce, Pending, Steady
<1> QED  BY <1>1, <1>2, <1>3, <1>4, <1>5, <1>6, <1>7, <1>8 DEF Next

\* What is read, collected, stored and received agrees in every reachable state.
LEMMA CounterInvariant == Spec => [](TypeOK /\ ReadingsInv /\ CounterInv)
<1>1. Init => ReadingsInv /\ CounterInv
  <2> SUFFICES ASSUME Init PROVE ReadingsInv /\ CounterInv
    OBVIOUS
  <2>1. MaxReading \in [ToSet(Targets) -> [ToSet(Series) -> Nat]]
    BY DeliveryAssumption
  <2>2. \A s \in ToSet(Series) : KeptApart(s) => Relabel[s] \in Written
    BY DEF KeptApart, Written
  <2> QED  BY <2>1, <2>2 DEF Init, ReadingsInv, CounterInv
<1>2. TypeOK /\ TypeOK' /\ ReadingsInv /\ CounterInv /\ [Next]_vars => ReadingsInv' /\ CounterInv'
  BY ReadingsNext, CounterNext
<1> QED  BY <1>1, <1>2, TypeCorrect, PTL DEF Spec

(***************************************************************************)
(* However many targets, patterns, series, replicas and attempts there     *)
(* are: a counter a replica receives never falls, unless the cycle missed  *)
(* a target, the series depends on a fallback, or the rules merge it.      *)
(***************************************************************************)
THEOREM CountersNeverFall == Spec => NoCounterReset
<1>1. ASSUME TypeOK, TypeOK', CounterInv, [Next]_vars, missed = {},
             NEW t \in Replicas, NEW s \in ToSet(Series), Steady(s), KeptApart(s)
      PROVE  received'[t][Relabel[s]] >= received[t][Relabel[s]]
  <2>1. CASE received' = received
    <3>1. received[t][Relabel[s]] \in Nat
      BY <1>1, ReadingTypes
    <3> QED  BY <2>1, <3>1
  <2>2. ASSUME NEW r \in Replicas, AttemptSucceeds(r) \/ AttemptFails(r)
        PROVE  received'[t][Relabel[s]] >= received[t][Relabel[s]]
    BY <1>1, <2>2, CounterAttempt
  <2> QED
    BY <1>1, <2>1, <2>2, Zenon
       DEF Next, StartCycle, QueryAnswered, QueryFails, Store, BatchEnds, Scrape, vars, sending
<1>2. TypeOK /\ TypeOK' /\ CounterInv /\ [Next]_vars =>
         [missed = {} =>
             \A r \in Replicas, s \in ToSet(Series) :
                 Steady(s) /\ KeptApart(s)
                     => received'[r][Relabel[s]] >= received[r][Relabel[s]]]_vars
  BY <1>1
<1> QED  BY <1>2, CounterInvariant, PTL DEF Spec, NoCounterReset
=============================================================================
