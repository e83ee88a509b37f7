-------------------------- MODULE RecursionFacts --------------------------
(* Induction up to a number, and what it gives for functions defined by    *)
(* recursion on an index: that they exist.  FlattenSeq is one of these.    *)
EXTENDS Integers, SequencesExt, FiniteSetTheorems, SequenceTheorems, TLAPS

\* A set of numbers has a least one: the intervals below them are finite sets.
LEMMA LeastNat ==
    ASSUME NEW T, T \subseteq Nat, T # {}
    PROVE  \E x \in T : \A y \in T : x <= y
<1> DEFINE Below(x) == 0 .. x
           B == {Below(x) : x \in T}
<1>1. \A x \in T : Below(x) \in FiniteSubsetsOf(Nat)
  <2> SUFFICES ASSUME NEW x \in T
               PROVE  Below(x) \in FiniteSubsetsOf(Nat)
    OBVIOUS
  <2>1. x \in Int /\ 0 \in Int /\ Below(x) \subseteq Nat
    OBVIOUS
  <2>2. IsFiniteSet(0 .. x)
    BY <2>1, FS_Interval
  <2> QED
    BY <2>1, <2>2 DEF FiniteSubsetsOf
<1>2. B \subseteq FiniteSubsetsOf(Nat) /\ B # {}
  BY <1>1
<1>3. PICK b \in B : \A c \in B : <<c, b>> \notin StrictSubsetOrdering(Nat)
  BY <1>2, FS_StrictSubsetOrderingWellFounded, WFMin
<1>4. PICK x \in T : b = Below(x)
  BY <1>3
<1>5. ASSUME NEW y \in T, y < x
      PROVE  FALSE
  <2>1. Below(y) \subseteq Below(x) /\ Below(y) # Below(x)
    <3>1. x \in Below(x) /\ x \notin Below(y)
      BY <1>5
    <3>2. Below(y) \subseteq Below(x)
      BY <1>5
    <3> QED
      BY <3>1, <3>2
  <2>2. <<Below(y), b>> \in StrictSubsetOrdering(Nat)
    BY <1>1, <1>4, <2>1 DEF StrictSubsetOrdering, FiniteSubsetsOf
  <2> QED
    BY <1>3, <2>2
<1> QED
  BY <1>5

\* Induction up to n: G holds the numbers for which the statement is known.
LEMMA Induct ==
    ASSUME NEW n \in Nat, NEW G,
           0 \in G, \A i \in 1 .. n : i - 1 \in G => i \in G
    PROVE  \A i \in 0 .. n : i \in G
<1> DEFINE B == {i \in 0 .. n : i \notin G}
<1>1. ASSUME B # {}
      PROVE  FALSE
  <2>0. B \subseteq Nat
    OBVIOUS
  <2> HIDE DEF B
  <2>1. PICK x \in B : \A y \in B : x <= y
    BY <1>1, <2>0, LeastNat
  <2> USE DEF B
  <2>2. x \in 0 .. n /\ x \notin G
    BY <2>1
  <2>3. x \in 1 .. n /\ x - 1 \in 0 .. n
    BY <2>2
  <2>4. x - 1 \notin B
    BY <2>1, <2>3
  <2>5. x - 1 \in G
    BY <2>3, <2>4
  <2> QED
    BY <2>2, <2>3, <2>5
<1> QED
  BY <1>1

\* n steps on S from base, ...
Steps(n, S, base, step) == n \in Nat /\ base \in S /\ step \in [1 .. n -> [S -> S]]

\* ... and the function of what is reached after each.
Reaches(g, n, S, base, step) ==
    /\ g \in [0 .. n -> S]
    /\ g[0] = base
    /\ \A i \in 1 .. n : g[i] = step[i][g[i - 1]]

\* That function exists.
LEMMA Iterate ==
    ASSUME NEW n, NEW S, NEW base, NEW step, Steps(n, S, base, step)
    PROVE  \E g : Reaches(g, n, S, base, step)
<1> USE DEF Steps
<1> DEFINE Sol(m, g) == /\ g \in [0 .. m -> S]
                        /\ g[0] = base
                        /\ \A i \in 1 .. m : g[i] = step[i][g[i - 1]]
           G == {m \in 0 .. n : \E g : Sol(m, g)}
<1>1. 0 \in G
  <2> DEFINE g == [i \in 0 .. 0 |-> base]
  <2>1. g \in [0 .. 0 -> S] /\ g[0] = base
    OBVIOUS
  <2>2. Sol(0, g)
    BY <2>1
  <2>3. \E h : Sol(0, h)
    BY <2>2
  <2> HIDE DEF Sol
  <2> QED
    BY <2>3
<1>2. ASSUME NEW m \in 1 .. n, m - 1 \in G
      PROVE  m \in G
  <2>1. PICK g : Sol(m - 1, g)
    BY <1>2
  <2> DEFINE h == [i \in 0 .. m |-> IF i = m THEN step[m][g[m - 1]] ELSE g[i]]
  <2>2. g[m - 1] \in S /\ step[m] \in [S -> S]
    BY <2>1
  <2>3. h \in [0 .. m -> S] /\ h[0] = base
    BY <2>1, <2>2
  <2>4. ASSUME NEW i \in 1 .. m
        PROVE  h[i] = step[i][h[i - 1]]
    <3>1. CASE i = m
      BY <3>1
    <3>2. CASE i # m
      BY <2>1, <3>2
    <3> QED
      BY <3>1, <3>2
  <2>5. Sol(m, h)
    BY <2>3, <2>4
  <2> HIDE DEF Sol, h
  <2>6. \E f : Sol(m, f)
    BY <2>5
  <2>7. m \in 0 .. n
    OBVIOUS
  <2> QED
    BY <2>6, <2>7
<1>3. n \in G
  <2>1. \A m \in 1 .. n : m - 1 \in G => m \in G
    BY <1>2
  <2> HIDE DEF G
  <2>2. \A m \in 0 .. n : m \in G
    BY <1>1, <2>1, Induct
  <2> QED
    BY <2>2
<1>4. \E g : Sol(n, g)
  BY <1>3
<1> QED
  BY <1>4 DEF Reaches

-----------------------------------------------------------------------------
(* Concatenations.                                                         *)

\* Where the members of a concatenation are.
LEMMA Concatenation ==
    ASSUME NEW T, NEW s \in Seq(T), NEW t \in Seq(T)
    PROVE  /\ s \o t \in Seq(T)
           /\ \A i \in DOMAIN s : i \in DOMAIN (s \o t) /\ (s \o t)[i] = s[i]
           /\ \A i \in DOMAIN t : /\ Len(s) + i \in DOMAIN (s \o t)
                                 /\ (s \o t)[Len(s) + i] = t[i]
           /\ \A i \in DOMAIN (s \o t) :
                 \/ (i \in DOMAIN s /\ (s \o t)[i] = s[i])
                 \/ (i - Len(s) \in DOMAIN t /\ (s \o t)[i] = t[i - Len(s)])
<1> DEFINE u == s \o t
<1>1. /\ Len(s) \in Nat /\ DOMAIN s = 1 .. Len(s)
      /\ Len(t) \in Nat /\ DOMAIN t = 1 .. Len(t)
  OBVIOUS
<1>2. /\ u \in Seq(T) /\ Len(u) = Len(s) + Len(t) /\ DOMAIN u = 1 .. Len(u)
      /\ \A i \in 1 .. Len(u) : u[i] = IF i <= Len(s) THEN s[i] ELSE t[i - Len(s)]
  BY ConcatProperties
<1> HIDE DEF u
<1>3. \A i \in 1 .. Len(s) : i \in 1 .. Len(u) /\ u[i] = s[i]
  BY <1>1, <1>2
<1>4. \A i \in 1 .. Len(t) : Len(s) + i \in 1 .. Len(u) /\ u[Len(s) + i] = t[i]
  <2> SUFFICES ASSUME NEW i \in 1 .. Len(t)
               PROVE  Len(s) + i \in 1 .. Len(u) /\ u[Len(s) + i] = t[i]
    OBVIOUS
  <2>1. Len(s) + i \in 1 .. Len(u) /\ ~(Len(s) + i <= Len(s)) /\ (Len(s) + i) - Len(s) = i
    BY <1>1, <1>2
  <2> QED  BY <1>2, <2>1
<1>5. \A i \in 1 .. Len(u) : \/ (i \in 1 .. Len(s) /\ u[i] = s[i])
                             \/ (i - Len(s) \in 1 .. Len(t) /\ u[i] = t[i - Len(s)])
  BY <1>1, <1>2
<1> QED  BY <1>1, <1>2, <1>3, <1>4, <1>5 DEF u

\* In u, the members of s in their places, those of t, and nothing else.
Joins(u, s, t) ==
    /\ \A i \in DOMAIN s : i \in DOMAIN u /\ u[i] = s[i]
    /\ \A j \in DOMAIN t : \E i \in DOMAIN u : u[i] = t[j]
    /\ \A i \in DOMAIN u : \/ (i \in DOMAIN s /\ u[i] = s[i])
                           \/ \E j \in DOMAIN t : u[i] = t[j]

\* A concatenation does.
LEMMA ConcatenationJoins ==
    ASSUME NEW T, NEW s \in Seq(T), NEW t \in Seq(T)
    PROVE  Joins(s \o t, s, t)
<1> DEFINE u == s \o t
<1>1. /\ \A i \in DOMAIN s : i \in DOMAIN u /\ u[i] = s[i]
      /\ \A i \in DOMAIN t : Len(s) + i \in DOMAIN u /\ u[Len(s) + i] = t[i]
      /\ \A i \in DOMAIN u : \/ (i \in DOMAIN s /\ u[i] = s[i])
                             \/ (i - Len(s) \in DOMAIN t /\ u[i] = t[i - Len(s)])
  BY Concatenation, SMTT(30)
<1> HIDE DEF u
<1>2. \A j \in DOMAIN t : \E i \in DOMAIN u : u[i] = t[j]
  BY <1>1
<1>3. ASSUME NEW i \in DOMAIN u
      PROVE  (i \in DOMAIN s /\ u[i] = s[i]) \/ \E j \in DOMAIN t : u[i] = t[j]
  BY <1>1
<1>4. Joins(u, s, t)
  BY <1>1, <1>2, <1>3 DEF Joins
<1> QED  BY <1>4 DEF u

-----------------------------------------------------------------------------
\* f holds the sequences joined so far.
Flattens(f, seqs) ==
    \A i \in 1 .. Len(seqs) : f[i] = IF i = 1 THEN seqs[i] ELSE f[i - 1] \o seqs[i]

\* FlattenSeq gives the last of them.
LEMMA FlattenIs ==
    ASSUME NEW T, NEW seqs \in Seq(Seq(T)), Len(seqs) # 0
    PROVE  \E f : Flattens(f, seqs) /\ FlattenSeq(seqs) = f[Len(seqs)]
<1> DEFINE n == Len(seqs)
           Body(f) == [i \in 1 .. n |-> IF i = 1 THEN seqs[i] ELSE f[i - 1] \o seqs[i]]
           step == [i \in 1 .. n |-> [r \in Seq(T) |-> r \o seqs[i]]]
           f == CHOOSE g : g = Body(g)
<1>1. n \in Nat /\ DOMAIN seqs = 1 .. n /\ \A i \in 1 .. n : seqs[i] \in Seq(T)
  OBVIOUS
<1>2. \E g : g = Body(g)
  <2>1. Steps(n, Seq(T), <<>>, step)
    BY <1>1 DEF Steps
  <2>2. PICK h : Reaches(h, n, Seq(T), <<>>, step)
    BY <2>1, Iterate
  <2> USE DEF Reaches
  <2>3. ASSUME NEW i \in 1 .. n PROVE h[i] = IF i = 1 THEN seqs[i] ELSE h[i - 1] \o seqs[i]
    <3>1. i - 1 \in 0 .. n
      BY <1>1
    <3>2. h[i] = h[i - 1] \o seqs[i]
      <4> HIDE DEF step
      <4>1. h[i - 1] \in Seq(T) /\ h[i] = step[i][h[i - 1]]
        BY <2>2, <3>1
      <4> USE DEF step
      <4> QED  BY <4>1
    <3>3. CASE i = 1
      <4>1. h[i - 1] = <<>>
        BY <2>2, <3>3
      <4> QED  BY <1>1, <3>2, <3>3, <4>1
    <3> QED  BY <3>2, <3>3
  <2> DEFINE g == [i \in 1 .. n |-> h[i]]
  <2>4. ASSUME NEW i \in 1 .. n PROVE g[i] = IF i = 1 THEN seqs[i] ELSE g[i - 1] \o seqs[i]
    <3>1. i = 1 \/ i - 1 \in 1 .. n
      BY <1>1
    <3> QED  BY <2>3, <3>1
  <2>5. g = [i \in 1 .. n |-> g[i]]
    OBVIOUS
  <2> HIDE DEF g
  <2>6. g = Body(g)
    BY <2>4, <2>5, Zenon
  <2> QED  BY <2>6
<1> HIDE DEF Body
<1>3. f = Body(f)
  BY <1>2
<1> HIDE DEF f
<1>4. Flattens(f, seqs)
  BY <1>3 DEF Body, Flattens
<1>5. f[n] = FlattenSeq(seqs)
  <2>1. FlattenSeq(seqs) = (CHOOSE g : g = Body(g))[n]
    BY DEF FlattenSeq, Body
  <2> QED  BY <2>1, Zenon DEF f
<1> QED  BY <1>4, <1>5

\* A sequence more adds its members at the end.
LEMMA FlattenOneMore ==
    ASSUME NEW T, NEW seqs \in Seq(Seq(T)), NEW more \in Seq(Seq(T)),
           Len(more) = Len(seqs) + 1, \A i \in 1 .. Len(seqs) : more[i] = seqs[i]
    PROVE  FlattenSeq(more) = FlattenSeq(seqs) \o more[Len(more)]
<1> DEFINE n == Len(seqs)
<1>1. n \in Nat /\ Len(more) = n + 1 /\ \A i \in 1 .. n + 1 : more[i] \in Seq(T)
  OBVIOUS
<1>2. PICK g : Flattens(g, more) /\ FlattenSeq(more) = g[n + 1]
  <2>1. Len(more) # 0
    BY <1>1
  <2>2. \E g : Flattens(g, more) /\ FlattenSeq(more) = g[Len(more)]
    BY <2>1, FlattenIs
  <2> QED  BY <1>1, <2>2
<1>3. \A i \in 1 .. n + 1 : g[i] = IF i = 1 THEN more[i] ELSE g[i - 1] \o more[i]
  BY <1>1, <1>2 DEF Flattens
<1>4. CASE n = 0
  <2>1. FlattenSeq(seqs) = <<>>
    BY <1>4 DEF FlattenSeq
  <2>2. g[1] = more[1] /\ more[1] \in Seq(T)
    BY <1>1, <1>3, <1>4
  <2> QED  BY <1>1, <1>2, <1>4, <2>1, <2>2
<1>5. CASE n # 0
  <2>1. PICK f : Flattens(f, seqs) /\ FlattenSeq(seqs) = f[n]
    BY <1>5, FlattenIs
  <2>2. \A i \in 1 .. n : f[i] = IF i = 1 THEN seqs[i] ELSE f[i - 1] \o seqs[i]
    BY <2>1 DEF Flattens
  <2> DEFINE G == {i \in 0 .. n : i = 0 \/ f[i] = g[i]}
  <2>3. 0 \in G
    BY <1>1
  <2>4. ASSUME NEW i \in 1 .. n, i - 1 \in G PROVE i \in G
    <3>1. i \in 1 .. n + 1 /\ more[i] = seqs[i]
      BY <1>1
    <3>2. f[i] = IF i = 1 THEN seqs[i] ELSE f[i - 1] \o seqs[i]
      BY <2>2
    <3>3. g[i] = IF i = 1 THEN seqs[i] ELSE g[i - 1] \o seqs[i]
      BY <1>3, <3>1
    <3>4. i # 1 => f[i - 1] = g[i - 1]
      BY <2>4
    <3>5. f[i] = g[i]
      BY <3>2, <3>3, <3>4
    <3> QED  BY <3>5
  <2>5. f[n] = g[n]
    <3> HIDE DEF G
    <3>1. \A i \in 0 .. n : i \in G
      BY <1>1, <2>3, <2>4, Induct
    <3> USE DEF G
    <3> QED  BY <1>1, <1>5, <3>1
  <2>6. g[n + 1] = g[n] \o more[n + 1]
    <3>1. n + 1 \in 1 .. n + 1 /\ n + 1 # 1 /\ (n + 1) - 1 = n
      BY <1>1, <1>5
    <3> QED  BY <1>3, <3>1
  <2> QED  BY <1>1, <1>2, <2>1, <2>5, <2>6
<1> QED  BY <1>4, <1>5

\* FlattenSeq keeps every member of the sequences.
LEMMA FlattenKeeps ==
    ASSUME NEW T, NEW seqs \in Seq(Seq(T))
    PROVE  /\ FlattenSeq(seqs) \in Seq(T)
           /\ \A i \in DOMAIN seqs : \A j \in DOMAIN seqs[i] :
                 \E k \in DOMAIN FlattenSeq(seqs) : FlattenSeq(seqs)[k] = seqs[i][j]
<1> DEFINE n == Len(seqs)
<1>1. n \in Nat /\ DOMAIN seqs = 1 .. n /\ \A i \in 1 .. n : seqs[i] \in Seq(T)
  OBVIOUS
<1>2. CASE n = 0
  <2>1. seqs = <<>> /\ DOMAIN seqs = {}
    BY <1>2
  <2> QED  BY <1>2, <2>1 DEF FlattenSeq
<1>3. CASE n # 0
  <2>2. PICK f : Flattens(f, seqs) /\ FlattenSeq(seqs) = f[n]
    BY <1>3, FlattenIs
  <2>3. \A i \in 1 .. n : f[i] = IF i = 1 THEN seqs[i] ELSE f[i - 1] \o seqs[i]
    BY <2>2 DEF Flattens
  <2> DEFINE Good(i) ==
        /\ f[i] \in Seq(T)
        /\ \A j \in 1 .. i : \A k \in DOMAIN seqs[j] : \E l \in DOMAIN f[i] : f[i][l] = seqs[j][k]
             G == {i \in 0 .. n : i = 0 \/ Good(i)}
  <2>4. 0 \in G
    BY <1>1
  <2>5. ASSUME NEW i \in 1 .. n, i - 1 \in G PROVE i \in G
    <3>1. CASE i = 1
      <4>1. f[i] = seqs[i] /\ 1 .. i = {1}
        BY <2>3, <3>1
      <4>2. Good(i)
        BY <1>1, <3>1, <4>1
      <4> QED  BY <4>2
    <3>2. CASE i # 1
      <4>0. Good(i - 1)
        BY <2>5, <3>2
      <4>1. f[i - 1] \in Seq(T) /\ f[i] = f[i - 1] \o seqs[i] /\ seqs[i] \in Seq(T)
        <5> HIDE DEF Good
        <5>1. f[i] = f[i - 1] \o seqs[i] /\ seqs[i] \in Seq(T)
          BY <1>1, <2>3, <3>2, Zenon
        <5> USE DEF Good
        <5> QED  BY <4>0, <5>1
      <4>2. /\ f[i] \in Seq(T)
            /\ \A l \in DOMAIN f[i - 1] : l \in DOMAIN f[i] /\ f[i][l] = f[i - 1][l]
            /\ \A k \in DOMAIN seqs[i] : /\ Len(f[i - 1]) + k \in DOMAIN f[i]
                                         /\ f[i][Len(f[i - 1]) + k] = seqs[i][k]
        <5> DEFINE s == f[i - 1]
                   t == seqs[i]
        <5>1. s \in Seq(T) /\ t \in Seq(T) /\ f[i] = s \o t
          BY <4>1
        <5> HIDE DEF s, t
        <5>2. /\ s \o t \in Seq(T)
              /\ \A l \in DOMAIN s : l \in DOMAIN (s \o t) /\ (s \o t)[l] = s[l]
              /\ \A k \in DOMAIN t : /\ Len(s) + k \in DOMAIN (s \o t)
                                    /\ (s \o t)[Len(s) + k] = t[k]
          BY <5>1, Concatenation, SMTT(30)
        <5> QED  BY <5>1, <5>2, Zenon DEF s, t
      <4>3. \A j \in 1 .. i : j = i \/ j \in 1 .. (i - 1)
        OBVIOUS
      <4>4. \A j \in 1 .. i : \A k \in DOMAIN seqs[j] : \E l \in DOMAIN f[i] : f[i][l] = seqs[j][k]
        BY <4>0, <4>2, <4>3
      <4> QED  BY <4>2, <4>4
    <3> QED  BY <3>1, <3>2
  <2>6. n \in G
    <3> HIDE DEF G
    <3>1. \A i \in 0 .. n : i \in G
      BY <1>1, <2>4, <2>5, Induct
    <3> QED  BY <1>1, <3>1
  <2> QED  BY <1>1, <1>3, <2>2, <2>6
<1> QED  BY <1>2, <1>3
===========================================================================
