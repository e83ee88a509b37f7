---------------------------- MODULE TargetsProofs ----------------------------
(***************************************************************************)
(* Proofs about Targets, for any resource types, namespaces, listings and  *)
(* backends.                                                               *)
(***************************************************************************)
EXTENDS Targets, RecursionFacts

-----------------------------------------------------------------------------
(* What a pass can have found.                                             *)

\* What one List of the pass can have added.
Adding(k) == Listings[Scopes[k]] \cup {<<>>}

\* What k Lists can have given, one by one.
Passes(k) ==
    {l \in [1 .. k -> UNION {Listings[t] \cup {<<>>} : t \in ToSet(Scopes)}] :
        \A i \in 1 .. k : l[i] \in Adding(i)}

\* Finds, by the Lists of the pass.
LEMMA FindsAre ==
    ASSUME NEW k \in 0 .. Len(Scopes)
    PROVE  Finds[k] = {FlattenSeq(l) : l \in Passes(k)}
BY DEF Finds, Passes, Adding

\* Every List adds URLs in their order, of a configured resource type.
LEMMA ListingsAre ==
    ASSUME NEW k \in 1 .. Len(Scopes)
    PROVE  /\ Adding(k) \subseteq UNION {Listings[t] \cup {<<>>} : t \in ToSet(Scopes)}
           /\ Adding(k) \subseteq Seq(Urls)
<1>1. Scopes[k] \in ToSet(Scopes)
  BY TargetsAssumption
<1>2. \A l \in Listings[Scopes[k]] : l \in Seq(Urls)
  BY <1>1, TargetsAssumption
<1>3. <<>> \in Seq(Urls)
  OBVIOUS
<1> QED  BY <1>1, <1>2, <1>3 DEF Adding

\* The Lists of a pass are a sequence of sequences of URLs.
LEMMA PassesAre ==
    ASSUME NEW k \in 0 .. Len(Scopes), NEW l \in Passes(k)
    PROVE  /\ l \in Seq(Seq(Urls)) /\ Len(l) = k
           /\ \A i \in 1 .. k : l[i] \in Adding(i)
<1>1. Len(Scopes) \in Nat /\ k \in Nat
  BY TargetsAssumption
<1>2. /\ l \in [1 .. k -> UNION {Listings[t] \cup {<<>>} : t \in ToSet(Scopes)}]
      /\ \A i \in 1 .. k : l[i] \in Adding(i)
  BY DEF Passes
<1>3. \A i \in 1 .. k : l[i] \in Seq(Urls)
  <2>1. \A i \in 1 .. k : i \in 1 .. Len(Scopes)
    BY <1>1
  <2> QED  BY <1>2, <2>1, ListingsAre
<1>4. l \in [1 .. k -> Seq(Urls)]
  BY <1>2, <1>3
<1> QED  BY <1>1, <1>2, <1>4

\* A pass finds URLs.
LEMMA FindsTypes ==
    ASSUME NEW k \in 0 .. Len(Scopes)
    PROVE  Finds[k] \subseteq Seq(Urls)
<1>1. ASSUME NEW l \in Passes(k) PROVE FlattenSeq(l) \in Seq(Urls)
  BY PassesAre, FlattenKeeps
<1> QED  BY <1>1, FindsAre

\* One List more finds more.
LEMMA FindsGrow ==
    ASSUME NEW k \in 1 .. Len(Scopes), NEW f \in Finds[k - 1], NEW x \in Adding(k)
    PROVE  f \o x \in Finds[k]
<1>1. Len(Scopes) \in Nat /\ k - 1 \in 0 .. Len(Scopes) /\ k \in 0 .. Len(Scopes)
  BY TargetsAssumption
<1>2. PICK l \in Passes(k - 1) : f = FlattenSeq(l)
  BY <1>1, FindsAre
<1>3. l \in Seq(Seq(Urls)) /\ Len(l) = k - 1 /\ \A i \in 1 .. k - 1 : l[i] \in Adding(i)
  BY <1>1, PassesAre
<1> DEFINE m == [i \in 1 .. k |-> IF i = k THEN x ELSE l[i]]
<1>4. \A i \in 1 .. k : i = k \/ i \in 1 .. k - 1
  OBVIOUS
<1>5. \A i \in 1 .. k : m[i] \in Adding(i)
  BY <1>3, <1>4
<1>6. m[k] = x /\ \A i \in 1 .. k - 1 : m[i] = l[i]
  OBVIOUS
<1>7. m \in [1 .. k -> UNION {Listings[t] \cup {<<>>} : t \in ToSet(Scopes)}]
  <2>1. \A i \in 1 .. k : i \in 1 .. Len(Scopes)
    BY <1>1
  <2>2. \A i \in 1 .. k : m[i] \in UNION {Listings[t] \cup {<<>>} : t \in ToSet(Scopes)}
    BY <1>5, <2>1, ListingsAre
  <2> QED  BY <2>2
<1> HIDE DEF m
<1>8. m \in Passes(k)
  BY <1>5, <1>7 DEF Passes
<1>9. m \in Seq(Seq(Urls)) /\ Len(m) = k
  BY <1>1, <1>8, PassesAre
<1>10. FlattenSeq(m) = f \o x
  <2>1. Len(m) = Len(l) + 1 /\ \A i \in 1 .. Len(l) : m[i] = l[i]
    BY <1>1, <1>3, <1>6, <1>9
  <2>2. FlattenSeq(m) = FlattenSeq(l) \o m[Len(m)]
    BY <1>3, <1>9, <2>1, FlattenOneMore
  <2> QED  BY <1>2, <1>6, <1>9, <2>2
<1> QED  BY <1>1, <1>8, <1>10, FindsAre

\* A pass can find nothing, whatever it has listed.
LEMMA FindsNothing ==
    ASSUME NEW n \in 0 .. Len(Scopes)
    PROVE  <<>> \in Finds[n]
<1> DEFINE L == Len(Scopes)
           G == {k \in 0 .. L : <<>> \in Finds[k]}
<1>1. L \in Nat
  BY TargetsAssumption
<1>2. 0 \in G
  <2>1. <<>> \in Passes(0)
    BY DEF Passes
  <2>2. FlattenSeq(<<>>) = <<>>
    BY DEF FlattenSeq
  <2>3. <<>> \in Finds[0]
    BY <1>1, <2>1, <2>2, FindsAre
  <2> QED  BY <1>1, <2>3
<1>3. ASSUME NEW k \in 1 .. L, k - 1 \in G PROVE k \in G
  <2>1. <<>> \o <<>> = <<>>
    OBVIOUS
  <2>2. <<>> \in Finds[k - 1] /\ <<>> \in Adding(k)
    BY <1>3 DEF Adding
  <2>3. <<>> \in Finds[k]
    BY <2>1, <2>2, FindsGrow
  <2> QED  BY <1>1, <2>3
<1>4. \A k \in 0 .. L : k \in G
  <2> HIDE DEF G
  <2> QED  BY <1>1, <1>2, <1>3, Induct
<1> QED  BY <1>4

\* What fewer Lists find, more can find too.
LEMMA FindsKeep ==
    ASSUME NEW j \in 0 .. Len(Scopes), NEW n \in 0 .. Len(Scopes), j <= n, NEW f \in Finds[j]
    PROVE  f \in Finds[n]
<1> DEFINE L == Len(Scopes)
           G == {k \in 0 .. L : j <= k => f \in Finds[k]}
<1>1. L \in Nat
  BY TargetsAssumption
<1>2. 0 \in G
  <2>1. j <= 0 => j = 0
    BY <1>1
  <2> QED  BY <1>1, <2>1
<1>3. ASSUME NEW k \in 1 .. L, k - 1 \in G PROVE k \in G
  <2>1. CASE j = k
    BY <2>1
  <2>2. CASE j <= k - 1
    <3>1. f \in Finds[k - 1] /\ k - 1 \in 0 .. L
      BY <1>1, <1>3, <2>2
    <3>2. f \o <<>> = f
      <4>1. f \in Seq(Urls)
        BY <3>1, FindsTypes
      <4> QED  BY <4>1
    <3>3. f \o <<>> \in Finds[k]
      BY <3>1, FindsGrow DEF Adding
    <3> QED  BY <3>2, <3>3
  <2>3. j \in Int /\ k \in Int
    BY <1>1
  <2> QED  BY <1>1, <2>1, <2>2, <2>3
<1>4. \A k \in 0 .. L : k \in G
  <2> HIDE DEF G
  <2> QED  BY <1>1, <1>2, <1>3, Induct
<1> QED  BY <1>4

-----------------------------------------------------------------------------
(* Lists.                                                                  *)

\* The targets made of the URLs a pass found.
LEMMA MadeOf ==
    ASSUME NEW f \in Finds[Len(Scopes)],
           NEW list, list = [i \in DOMAIN f |-> [url |-> f[i], healthy |-> TRUE]]
    PROVE  list \in Published /\ \A i \in DOMAIN list : list[i].healthy
<1>1. Len(Scopes) \in 0 .. Len(Scopes)
  BY TargetsAssumption
<1>2. f \in Seq(Urls)
  BY <1>1, FindsTypes
<1>3. Len(f) \in Nat /\ DOMAIN f = 1 .. Len(f) /\ \A i \in 1 .. Len(f) : f[i] \in Urls
  BY <1>2
<1>4. list \in Lists
  <2>1. \A i \in 1 .. Len(f) : [url |-> f[i], healthy |-> TRUE] \in [url : Urls, healthy : BOOLEAN]
    BY <1>3
  <2> QED  BY <1>3, <2>1, IsASeq DEF Lists
<1>5. DOMAIN list = DOMAIN f /\ \A i \in DOMAIN f : list[i].url = f[i] /\ list[i].healthy
  OBVIOUS
<1>6. UrlsOf(list) = f
  <2>1. f = [i \in DOMAIN f |-> f[i]]
    BY <1>2
  <2>2. UrlsOf(list) = [i \in DOMAIN f |-> f[i]]
    BY <1>5 DEF UrlsOf
  <2> QED  BY <2>1, <2>2
<1> QED  BY <1>4, <1>5, <1>6 DEF Published

\* The targets of a list.
LEMMA TargetsOf ==
    ASSUME NEW list \in Published
    PROVE  \A i \in DOMAIN list : i \in Nat /\ list[i].url \in Urls
<1> DEFINE T == [url : Urls, healthy : BOOLEAN]
<1>1. list \in Seq(T)
  BY DEF Published, Lists
<1>2. \A x \in T : x.url \in Urls
  OBVIOUS
<1> HIDE DEF T
<1> QED  BY <1>1, <1>2

\* A mark changes one flag, of a target with the URL of the check.
LEMMA MarkedIs ==
    ASSUME NEW list \in Published, NEW u, NEW h \in BOOLEAN
    PROVE  /\ Marked(list, u, h) \in Published
           /\ DOMAIN Marked(list, u, h) = DOMAIN list
           /\ \A i \in DOMAIN list :
                 \/ Marked(list, u, h)[i] = list[i]
                 \/ /\ list[i].url = u
                    /\ Marked(list, u, h)[i].url = u /\ Marked(list, u, h)[i].healthy = h
<1> DEFINE places == {i \in DOMAIN list : list[i].url = u}
           new == Marked(list, u, h)
           T == [url : Urls, healthy : BOOLEAN]
<1>1. list \in Seq(T) /\ UrlsOf(list) \in Finds[Len(Scopes)]
  BY DEF Published, Lists
<1>2. Len(list) \in Nat /\ DOMAIN list = 1 .. Len(list)
      /\ \A i \in 1 .. Len(list) : list[i] \in T
  <2> HIDE DEF T
  <2> QED  BY <1>1
<1>3. CASE places = {}
  <2>1. new = list
    BY <1>3 DEF Marked
  <2> QED  BY <2>1
<1>4. CASE places # {}
  <2> DEFINE p == Min(places)
  <2>1. p \in places
    <3>1. places \subseteq Nat
      BY <1>2
    <3>2. PICK x \in places : \A y \in places : x <= y
      BY <1>4, <3>1, LeastNat
    <3> HIDE DEF places
    <3> QED  BY <3>2 DEF Min
  <2>2. new = [list EXCEPT ![p].healthy = h]
    BY <1>4 DEF Marked
  <2>3. p \in DOMAIN list /\ list[p].url = u
    BY <2>1
  <2> HIDE DEF p, new, places
  <2>4. DOMAIN new = DOMAIN list /\ \A i \in DOMAIN list : i # p => new[i] = list[i]
    BY <1>2, <2>2
  <2>5. new[p].url = u /\ new[p].healthy = h /\ new[p] \in [url : Urls, healthy : BOOLEAN]
    <3>1. new[p] = [list[p] EXCEPT !.healthy = h]
      BY <1>2, <2>2, <2>3
    <3>2. list[p] \in [url : Urls, healthy : BOOLEAN]
      BY <1>2, <2>3
    <3> QED  BY <2>3, <3>1, <3>2
  <2>6. new \in Lists
    <3>1. \A i \in 1 .. Len(list) : new[i] \in T
      BY <1>2, <2>4, <2>5
    <3>2. new = [i \in 1 .. Len(list) |-> new[i]]
      BY <1>2, <2>2
    <3> HIDE DEF T
    <3>3. new \in Seq(T)
      BY <1>2, <3>1, <3>2, IsASeq
    <3> QED  BY <3>3 DEF Lists, T
  <2>7. UrlsOf(new) = UrlsOf(list)
    <3>1. \A i \in DOMAIN list : new[i].url = list[i].url
      BY <2>3, <2>4, <2>5
    <3> QED  BY <2>4, <3>1 DEF UrlsOf
  <2>8. \A i \in DOMAIN list : \/ new[i] = list[i]
                               \/ list[i].url = u /\ new[i].url = u /\ new[i].healthy = h
    BY <2>3, <2>4, <2>5
  <2>9. new \in Published
    BY <1>1, <2>6, <2>7 DEF Published
  <2> QED  BY <2>4, <2>8, <2>9 DEF new
<1> QED  BY <1>3, <1>4

-----------------------------------------------------------------------------
(* Types.                                                                  *)

\* The types hold initially.
LEMMA TypeInit == Init => TypeOK
<1> SUFFICES ASSUME Init PROVE TypeOK
  OBVIOUS
<1>1. Len(Scopes) \in Nat /\ Len(Scopes) # 0
  BY TargetsAssumption
<1>2. <<>> \in Finds[0] /\ <<>> \in Finds[Len(Scopes)]
  BY <1>1, FindsNothing
<1>3. <<>> \in Published
  <2>1. UrlsOf(<<>>) = <<>>
    BY DEF UrlsOf
  <2>2. <<>> \in Lists
    BY DEF Lists
  <2> QED  BY <1>2, <2>1, <2>2 DEF Published
<1>4. /\ cluster \in Clusters /\ up = [u \in Urls |-> TRUE] /\ next = 1
      /\ found = <<>> /\ complete = <<>> /\ publishing = FALSE /\ targets = <<>> /\ subscriber = "none"
      /\ snapshot = None /\ channel = None /\ served = <<>> /\ shared = {} /\ checks = {}
  BY DEF Init
<1>5. found \in Finds[next - 1] /\ complete \in Finds[next - 1] /\ next \in 1 .. Len(Scopes) + 1
  BY <1>1, <1>2, <1>4
<1>6. \A t \in ToSet(Scopes) : cluster[t] \in Listings[t]
  BY <1>4 DEF Clusters
<1> QED  BY <1>3, <1>4, <1>5, <1>6 DEF TypeOK

\* After the Lists of a type come those of the next, or the end of the pass.
LEMMA NextTypeIs ==
    ASSUME NEW k \in 1 .. Len(Scopes)
    PROVE  NextType(k) \in k + 1 .. Len(Scopes) + 1
<1> DEFINE L == Len(Scopes)
           T == {j \in k + 1 .. L + 1 : j <= L => Scopes[j].type # Scopes[k].type}
<1>1. L \in Nat
  BY TargetsAssumption
<1>2. T \subseteq Nat /\ T \subseteq k + 1 .. L + 1
  <2>1. \A j \in k + 1 .. L + 1 : j \in Nat
    BY <1>1
  <2> QED  BY <2>1
<1>3. L + 1 \in T
  BY <1>1
<1>4. \E x \in T : \A y \in T : x <= y
  <2> HIDE DEF T
  <2> QED  BY <1>2, <1>3, LeastNat
<1>5. Min(T) \in T
  <2> HIDE DEF T
  <2> QED  BY <1>4 DEF Min
<1> QED  BY <1>2, <1>5 DEF NextType

\* A List, answered or not.
LEMMA DiscoverType == ASSUME TypeOK, DiscoverResourceType PROVE TypeOK'
<1>1. Len(Scopes) \in Nat
  BY TargetsAssumption
<1>2. /\ next \in 1 .. Len(Scopes)
      /\ UNCHANGED <<cluster, up, publishing, targets, subscriber, snapshot, channel, served, shared,
                     checks>>
  BY <1>1 DEF DiscoverResourceType, DiscoverInNamespace, DiscoverFails, TypeOK, environment
<1>3. /\ found \in Finds[next - 1] /\ complete \in Finds[next - 1]
      /\ next - 1 \in 0 .. Len(Scopes) /\ next - 1 <= next /\ next \in 0 .. Len(Scopes)
  BY <1>1, <1>2 DEF TypeOK
<1>4. CASE DiscoverInNamespace
  <2>1. next' = next + 1 /\ next' - 1 = next /\ next' \in 1 .. Len(Scopes) + 1
    BY <1>1, <1>2, <1>4 DEF DiscoverInNamespace
  <2>2. found' = found \o cluster[Scopes[next]] /\ complete' \in {found', complete}
    BY <1>4 DEF DiscoverInNamespace
  <2>3. cluster[Scopes[next]] \in Adding(next)
    <3>1. Scopes[next] \in ToSet(Scopes)
      BY <1>2, TargetsAssumption
    <3> QED  BY <3>1 DEF TypeOK, Adding
  <2>4. found' \in Finds[next]
    BY <1>2, <1>3, <2>2, <2>3, FindsGrow
  <2>5. complete \in Finds[next]
    BY <1>3, FindsKeep
  <2> QED  BY <1>2, <2>1, <2>2, <2>4, <2>5 DEF TypeOK
<1>5. CASE DiscoverFails
  <2>1. next' = NextType(next) /\ found' = complete /\ complete' = complete
    BY <1>5 DEF DiscoverFails
  <2>2. next' \in next + 1 .. Len(Scopes) + 1
    BY <1>2, <2>1, NextTypeIs
  <2>3. next' \in 1 .. Len(Scopes) + 1 /\ next' - 1 \in 0 .. Len(Scopes) /\ next - 1 <= next' - 1
    <3>1. \A m \in Nat : \A i \in 1 .. m : \A j \in i + 1 .. m + 1 :
             j \in 1 .. m + 1 /\ j - 1 \in 0 .. m /\ i - 1 <= j - 1
      OBVIOUS
    <3> QED  BY <1>1, <1>2, <2>2, <3>1
  <2>4. complete \in Finds[next' - 1]
    BY <1>3, <2>3, FindsKeep
  <2> QED  BY <1>2, <2>1, <2>3, <2>4 DEF TypeOK
<1> QED  BY <1>4, <1>5 DEF DiscoverResourceType

\* A pass publishes what it found, and starts again with nothing.
LEMMA PublishType == ASSUME TypeOK, UpdateTargets \/ NotifySubscribers PROVE TypeOK'
<1>1. Len(Scopes) \in Nat
  BY TargetsAssumption
<1>2. CASE UpdateTargets
  <2>1. /\ next > Len(Scopes) /\ publishing' = TRUE /\ shared' = {}
        /\ targets' = [i \in DOMAIN found |-> [url |-> found[i], healthy |-> TRUE]]
        /\ UNCHANGED <<cluster, up, next, found, complete, subscriber, snapshot, channel, served, checks>>
    BY <1>2 DEF UpdateTargets, environment
  <2>2. found \in Finds[next - 1] /\ next \in 1 .. Len(Scopes) + 1
    BY DEF TypeOK
  <2>3. found \in Finds[Len(Scopes)]
    <3>1. next - 1 = Len(Scopes)
      BY <1>1, <2>1, <2>2
    <3> QED  BY <2>2, <3>1
  <2>4. targets' \in Published
    BY <2>1, <2>3, MadeOf
  <2> QED  BY <2>1, <2>4 DEF TypeOK
<1>3. CASE NotifySubscribers
  <2>1. /\ publishing' = FALSE /\ next' = 1 /\ found' = <<>> /\ complete' = <<>>
        /\ channel' \in {targets, channel} /\ shared' \in {shared, shared \cup {"channel"}}
        /\ UNCHANGED <<cluster, up, targets, subscriber, snapshot, served, checks>>
    BY <1>3 DEF NotifySubscribers, environment
  <2>2. next' \in 1 .. Len(Scopes) + 1 /\ found' \in Finds[next' - 1]
                                        /\ complete' \in Finds[next' - 1]
    BY <1>1, <2>1, FindsNothing
  <2> QED  BY <2>1, <2>2 DEF TypeOK
<1> QED  BY <1>2, <1>3

\* The lists a subscription passes on.
LEMMA SubscriptionType ==
    ASSUME TypeOK, Subscribe \/ ReadSnapshot \/ SendSnapshot \/ Receive PROVE TypeOK'
<1>1. /\ UNCHANGED <<cluster, up, next, found, complete, publishing, targets, checks>>
      /\ subscriber' \in {subscriber, "reading", "sending", "sent"}
      /\ snapshot' \in {snapshot, targets, None}
      /\ \/ UNCHANGED <<channel, served, shared>>
         \/ channel' = snapshot /\ UNCHANGED <<served, shared>>
         \/ channel # None /\ served' = channel /\ channel' = None /\ shared' \in {{"served"}, {}}
  BY DEF Subscribe, ReadSnapshot, SendSnapshot, Receive, environment, pass
<1> QED  BY <1>1 DEF TypeOK

\* The checks and their marks.
LEMMA CheckType ==
    ASSUME TypeOK, CheckAllTargets \/ \E c \in checks : Answer(c) \/ UpdateTargetHealth(c) PROVE TypeOK'
<1>1. checks \subseteq [n : Nat, url : Urls, answer : {"asked", "up", "down"}]
  BY DEF TypeOK
<1>2. CASE CheckAllTargets
  <2>1. served \in Published
    BY DEF TypeOK
  <2>2. \A i \in DOMAIN served : i \in Nat /\ served[i].url \in Urls
    BY <2>1, TargetsOf
  <2>3. checks' = {[n |-> i, url |-> served[i].url, answer |-> "asked"] : i \in DOMAIN served}
        /\ UNCHANGED <<cluster, up, next, found, complete, publishing, targets, subscriber, snapshot,
                       channel, served, shared>>
    BY <1>2 DEF CheckAllTargets, environment, pass
  <2>4. checks' \subseteq [n : Nat, url : Urls, answer : {"asked", "up", "down"}]
    BY <2>2, <2>3
  <2> QED  BY <2>3, <2>4 DEF TypeOK
<1>3. ASSUME NEW c \in checks, Answer(c) PROVE TypeOK'
  <2>1. checks' = (checks \ {c}) \cup {[c EXCEPT !.answer = IF up[c.url] THEN "up" ELSE "down"]}
        /\ UNCHANGED <<cluster, up, next, found, complete, publishing, targets, subscriber, snapshot,
                       channel, served, shared>>
    BY <1>3 DEF Answer, environment, pass
  <2>2. [c EXCEPT !.answer = IF up[c.url] THEN "up" ELSE "down"]
           \in [n : Nat, url : Urls, answer : {"asked", "up", "down"}]
    BY <1>1, <1>3
  <2>3. checks' \subseteq [n : Nat, url : Urls, answer : {"asked", "up", "down"}]
    BY <1>1, <2>1, <2>2
  <2> QED  BY <2>1, <2>3 DEF TypeOK
<1>4. ASSUME NEW c \in checks, UpdateTargetHealth(c) PROVE TypeOK'
  <2>1. /\ served' = Marked(served, c.url, c.answer = "up")
        /\ targets' \in {served', targets} /\ checks' = checks \ {c}
        /\ UNCHANGED <<cluster, up, next, found, complete, publishing, subscriber, snapshot, channel, shared>>
    BY <1>4 DEF UpdateTargetHealth, environment, pass
  <2>2. served' \in Published
    <3>1. served \in Published /\ (c.answer = "up") \in BOOLEAN
      BY DEF TypeOK
    <3> QED  BY <2>1, <3>1, MarkedIs
  <2> QED  BY <2>1, <2>2 DEF TypeOK
<1> QED  BY <1>2, <1>3, <1>4

\* The environment.
LEMMA EnvironmentType ==
    ASSUME TypeOK,
           ClusterChanges \/ \E u \in Flaky : BackendFailsOrRecovers(u)
    PROVE  TypeOK'
<1>1. UNCHANGED <<next, found, complete, publishing, targets, subscriber, snapshot, channel,
                  served, shared, checks>>
  BY DEF ClusterChanges, BackendFailsOrRecovers, pass
<1>2. \A t \in ToSet(Scopes) : cluster'[t] \in Listings[t]
  BY DEF ClusterChanges, BackendFailsOrRecovers, TypeOK, Clusters
<1>3. up' \in [Urls -> BOOLEAN]
  BY DEF ClusterChanges, BackendFailsOrRecovers, TypeOK
<1> QED  BY <1>1, <1>2, <1>3 DEF TypeOK

\* The types are inductive.
LEMMA TypeNext == ASSUME TypeOK, [Next]_vars PROVE TypeOK'
<1>1. CASE UNCHANGED vars
  BY <1>1 DEF vars, TypeOK
<1> QED
  BY <1>1, DiscoverType, PublishType, SubscriptionType, CheckType, EnvironmentType DEF Next

(***************************************************************************)
(* Every reachable state is well typed: among other things, every list     *)
(* published, on its way or served is what one pass found, whichever of    *)
(* its Lists failed.                                                       *)
(***************************************************************************)
THEOREM TypeCorrect == Spec => []TypeOK
<1>1. TypeOK /\ [Next]_vars => TypeOK'
  BY TypeNext
<1> QED  BY <1>1, TypeInit, PTL DEF Spec

-----------------------------------------------------------------------------
(* Marks.                                                                  *)

\* Every unhealthy target of the list has a backend that can fail.
Blames(list) == \A i \in DOMAIN list : list[i].healthy \/ list[i].url \in Flaky

(***************************************************************************)
(* The inductive invariant: a backend that is down, or was when it was     *)
(* asked, can fail; and so for all the lists that come to be served.       *)
(***************************************************************************)
MarksInv ==
    /\ TypeOK
    /\ \A u \in Urls : up[u] \/ u \in Flaky
    /\ \A c \in checks : c.answer = "down" => c.url \in Flaky
    /\ Blames(targets) /\ Blames(served)
    /\ snapshot # None => Blames(snapshot)
    /\ channel # None => Blames(channel)

\* A mark blames the backend of its check.
LEMMA MarkBlames ==
    ASSUME NEW list \in Published, Blames(list), NEW u, NEW h \in BOOLEAN, h \/ u \in Flaky
    PROVE  Blames(Marked(list, u, h))
<1> DEFINE new == Marked(list, u, h)
<1>1. /\ DOMAIN new = DOMAIN list
      /\ \A i \in DOMAIN list : \/ new[i] = list[i]
                                \/ list[i].url = u /\ new[i].url = u /\ new[i].healthy = h
  BY MarkedIs
<1> HIDE DEF new
<1>2. Blames(new)
  BY <1>1 DEF Blames
<1> QED  BY <1>2 DEF new

\* MarksInv is inductive.
LEMMA MarksNext == ASSUME MarksInv, [Next]_vars PROVE MarksInv'
<1>0. TypeOK /\ TypeOK'
  BY TypeNext DEF MarksInv
<1>1. CASE UpdateTargets
  <2>1. targets' = [i \in DOMAIN found |-> [url |-> found[i], healthy |-> TRUE]]
        /\ UNCHANGED <<up, snapshot, channel, served, checks>>
    BY <1>1 DEF UpdateTargets, environment
  <2>2. Blames(targets')
    BY <2>1 DEF Blames
  <2> QED  BY <1>0, <2>1, <2>2 DEF MarksInv, Blames
<1>2. CASE NotifySubscribers
  <2>1. channel' \in {targets, channel} /\ UNCHANGED <<up, targets, snapshot, served, checks>>
    BY <1>2 DEF NotifySubscribers, environment
  <2> QED  BY <1>0, <2>1 DEF MarksInv, Blames
<1>3. CASE Subscribe \/ ReadSnapshot \/ SendSnapshot \/ Receive
  <2>1. /\ UNCHANGED <<up, targets, checks>>
        /\ snapshot' \in {snapshot, targets, None}
        /\ \/ UNCHANGED <<channel, served>>
           \/ channel' = snapshot /\ UNCHANGED served
           \/ channel # None /\ served' = channel /\ channel' = None
    BY <1>3 DEF Subscribe, ReadSnapshot, SendSnapshot, Receive, environment, pass
  <2> QED  BY <1>0, <2>1 DEF MarksInv, Blames
<1>4. CASE CheckAllTargets
  <2>1. UNCHANGED <<up, targets, snapshot, channel, served>>
        /\ checks' = {[n |-> i, url |-> served[i].url, answer |-> "asked"] : i \in DOMAIN served}
    BY <1>4 DEF CheckAllTargets, environment, pass
  <2>2. \A c \in checks' : c.answer = "asked"
    BY <2>1
  <2> QED  BY <1>0, <2>1, <2>2 DEF MarksInv, Blames
<1>5. ASSUME NEW c \in checks, Answer(c) PROVE MarksInv'
  <2>1. /\ UNCHANGED <<up, targets, snapshot, channel, served>>
        /\ checks' = (checks \ {c}) \cup {[c EXCEPT !.answer = IF up[c.url] THEN "up" ELSE "down"]}
    BY <1>5 DEF Answer, environment, pass
  <2>2. c \in [n : Nat, url : Urls, answer : {"asked", "up", "down"}]
    BY <1>0, <1>5 DEF TypeOK
  <2> DEFINE d == [c EXCEPT !.answer = IF up[c.url] THEN "up" ELSE "down"]
  <2>3. d.url = c.url /\ d.answer = (IF up[c.url] THEN "up" ELSE "down")
    BY <2>2
  <2>4. d.answer = "down" => d.url \in Flaky
    BY <2>2, <2>3 DEF MarksInv
  <2> HIDE DEF d
  <2>5. \A e \in checks' : e.answer = "down" => e.url \in Flaky
    BY <2>1, <2>4 DEF MarksInv, d
  <2> QED  BY <1>0, <2>1, <2>5 DEF MarksInv, Blames
<1>6. ASSUME NEW c \in checks, UpdateTargetHealth(c) PROVE MarksInv'
  <2>1. /\ served' = Marked(served, c.url, c.answer = "up") /\ c.answer # "asked"
        /\ targets' \in {served', targets} /\ checks' = checks \ {c}
        /\ UNCHANGED <<up, snapshot, channel>>
    BY <1>6 DEF UpdateTargetHealth, environment, pass
  <2>2. (c.answer = "up") \/ c.url \in Flaky
    <3>1. c \in [n : Nat, url : Urls, answer : {"asked", "up", "down"}]
      BY <1>0, <1>6 DEF TypeOK
    <3> QED  BY <2>1, <3>1 DEF MarksInv
  <2>3. served \in Published /\ Blames(served)
    BY <1>0 DEF MarksInv, TypeOK
  <2>4. Blames(served')
    BY <2>1, <2>2, <2>3, MarkBlames
  <2> QED  BY <1>0, <2>1, <2>4 DEF MarksInv, Blames
<1>7. ASSUME NEW u \in Flaky, BackendFailsOrRecovers(u) PROVE MarksInv'
  <2>1. up' = [up EXCEPT ![u] = ~@] /\ UNCHANGED <<targets, snapshot, channel, served, checks>>
    BY <1>7 DEF BackendFailsOrRecovers
  <2>2. \A v \in Urls : up'[v] \/ v \in Flaky
    BY <1>0, <1>7, <2>1 DEF MarksInv, TypeOK
  <2> QED  BY <1>0, <2>1, <2>2 DEF MarksInv, Blames
<1>8. CASE UNCHANGED <<up, targets, snapshot, channel, served, checks>>
  BY <1>0, <1>8 DEF MarksInv, Blames
<1> QED
  BY <1>1, <1>2, <1>3, <1>4, <1>5, <1>6, <1>7, <1>8
     DEF Next, DiscoverResourceType, ClusterChanges, environment, vars

(***************************************************************************)
(* However late an answer comes and whatever list it finds: a target is    *)
(* marked unhealthy only if its own backend can fail.                      *)
(***************************************************************************)
THEOREM MarksAreEarned == Spec => []OnlyFailuresAreMarked
<1>1. Init => MarksInv
  <2> SUFFICES ASSUME Init PROVE MarksInv
    OBVIOUS
  <2>1. TypeOK
    BY TypeInit
  <2> QED  BY <2>1 DEF Init, MarksInv, Blames
<1>2. MarksInv /\ [Next]_vars => MarksInv'
  BY MarksNext
<1>3. MarksInv => OnlyFailuresAreMarked
  BY DEF MarksInv, Blames, OnlyFailuresAreMarked
<1> QED  BY <1>1, <1>2, <1>3, PTL DEF Spec

-----------------------------------------------------------------------------
(* The array discovery and the balancer share.                             *)

(***************************************************************************)
(* What the channel and the balancer hold, where they hold the array of    *)
(* kd.targets, is kd.targets, never both at once: so that a mark on a      *)
(* shared list reaches the collectors and no mark misses its list.         *)
(***************************************************************************)
SharingInv ==
    /\ TypeOK
    /\ publishing => shared = {}
    /\ shared # {"channel", "served"}
    /\ "channel" \in shared => channel = targets
    /\ "served" \in shared => served = targets

\* SharingInv is inductive.
LEMMA SharingNext == ASSUME SharingInv, [Next]_vars PROVE SharingInv'
<1>0. TypeOK /\ TypeOK'
  BY TypeNext DEF SharingInv
<1>1. targets # None
  BY <1>0, NoneAssumption DEF TypeOK, Published
<1>2. shared \subseteq {"channel", "served"}
  BY <1>0 DEF TypeOK
<1>3. CASE UpdateTargets
  <2>1. shared' = {}
    BY <1>3 DEF UpdateTargets
  <2> QED  BY <1>0, <2>1 DEF SharingInv
<1>4. CASE NotifySubscribers
  <2>1. /\ publishing /\ publishing' = FALSE /\ UNCHANGED <<targets, served>>
        /\ \/ channel' = targets /\ shared' = shared \cup {"channel"}
           \/ UNCHANGED <<channel, shared>>
    BY <1>4 DEF NotifySubscribers
  <2> QED  BY <1>0, <2>1 DEF SharingInv
<1>5. CASE SendSnapshot
  <2>1. channel = None /\ UNCHANGED <<publishing, targets, served, shared>>
    BY <1>5 DEF SendSnapshot, pass
  <2>2. "channel" \notin shared
    BY <1>1, <2>1 DEF SharingInv
  <2> QED  BY <1>0, <2>1, <2>2 DEF SharingInv
<1>6. CASE Receive
  <2>1. /\ served' = channel /\ UNCHANGED <<publishing, targets>>
        /\ shared' = IF "channel" \in shared THEN {"served"} ELSE {}
    BY <1>6 DEF Receive, pass
  <2> QED  BY <1>0, <2>1 DEF SharingInv
<1>7. ASSUME NEW c \in checks, UpdateTargetHealth(c) PROVE SharingInv'
  <2>1. /\ targets' = IF "served" \in shared THEN served' ELSE targets
        /\ UNCHANGED <<publishing, channel, shared>>
    BY <1>7 DEF UpdateTargetHealth, pass
  <2>2. "served" \in shared => "channel" \notin shared
    BY <1>2 DEF SharingInv
  <2> QED  BY <1>0, <2>1, <2>2 DEF SharingInv
<1>8. CASE UNCHANGED <<publishing, targets, channel, served, shared>>
  BY <1>0, <1>8 DEF SharingInv
<1> QED
  BY <1>3, <1>4, <1>5, <1>6, <1>7, <1>8
     DEF Next, DiscoverResourceType, Subscribe, ReadSnapshot, CheckAllTargets, Answer, ClusterChanges,
         BackendFailsOrRecovers, environment, pass, vars

\* The balancer marks the published list or one that was replaced, and shared
\* says which.
LEMMA SharingIsSound == Spec => []SharingInv
<1>1. Init => SharingInv
  <2> SUFFICES ASSUME Init PROVE SharingInv
    OBVIOUS
  <2>1. TypeOK
    BY TypeInit
  <2> QED  BY <2>1 DEF Init, SharingInv
<1>2. SharingInv /\ [Next]_vars => SharingInv'
  BY SharingNext
<1> QED  BY <1>1, <1>2, PTL DEF Spec

-----------------------------------------------------------------------------
(* The balancer catches up.  Once nothing changes in the cluster, what is   *)
(* fresh comes down the line: the pass, kd.targets, the channel, and what   *)
(* the balancer serves.                                                     *)

\* What the first k Lists of an undisturbed pass give.
ListedFirst(k) == FlattenSeq([i \in 1 .. k |-> cluster[Scopes[i]]])

PassIsFresh    == found = ListedFirst(next - 1)
TargetsAreFresh == UrlsOf(targets) = Found
ChannelIsFresh == channel # None => UrlsOf(channel) = Found
ServedIsFresh  == UrlsOf(served) = Found

\* A step that is neither a List that fails nor a change of the cluster.
CalmStep ==
    /\ SharingInv /\ SharingInv'
    /\ DiscoverResourceType => DiscoverInNamespace
    /\ cluster' = cluster
    /\ Next

\* Each List of an undisturbed pass adds what its type has; all of them give
\* Found.
LEMMA ListedFirstIs ==
    ASSUME TypeOK
    PROVE  /\ ListedFirst(0) = <<>>
           /\ \A k \in 1 .. Len(Scopes) :
                 ListedFirst(k) = ListedFirst(k - 1) \o cluster[Scopes[k]]
           /\ ListedFirst(Len(Scopes)) = Found
<1>1. /\ Len(Scopes) \in Nat /\ DOMAIN Scopes = 1 .. Len(Scopes)
      /\ \A i \in 1 .. Len(Scopes) : Scopes[i] \in ToSet(Scopes)
  BY TargetsAssumption
<1>2. \A i \in 1 .. Len(Scopes) : cluster[Scopes[i]] \in Seq(Urls)
  BY <1>1, TargetsAssumption DEF TypeOK
<1>3. ListedFirst(0) = <<>>
  <2>1. [i \in 1 .. 0 |-> cluster[Scopes[i]]] = <<>>
    OBVIOUS
  <2>2. FlattenSeq(<<>>) = <<>>
    BY DEF FlattenSeq
  <2> QED  BY <2>1, <2>2 DEF ListedFirst
<1>4. ASSUME NEW k \in 1 .. Len(Scopes)
      PROVE  ListedFirst(k) = ListedFirst(k - 1) \o cluster[Scopes[k]]
  <2> DEFINE less == [i \in 1 .. k - 1 |-> cluster[Scopes[i]]]
             more == [i \in 1 .. k |-> cluster[Scopes[i]]]
  <2>1. k \in Nat /\ k - 1 \in Nat /\ \A i \in 1 .. k : i \in 1 .. Len(Scopes)
    BY <1>1
  <2>2. less \in Seq(Seq(Urls)) /\ Len(less) = k - 1
    BY <1>2, <2>1
  <2>3. more \in Seq(Seq(Urls)) /\ Len(more) = k
    BY <1>2, <2>1
  <2>4. /\ \A i \in 1 .. k - 1 : more[i] = less[i]
        /\ more[k] = cluster[Scopes[k]]
    BY <2>1
  <2>5. FlattenSeq(more) = FlattenSeq(less) \o more[k]
    <3> HIDE DEF more, less
    <3>1. Len(more) = Len(less) + 1 /\ \A i \in 1 .. Len(less) : more[i] = less[i]
      BY <2>1, <2>2, <2>3, <2>4
    <3> QED  BY <2>2, <2>3, <3>1, FlattenOneMore
  <2> QED  BY <2>4, <2>5 DEF ListedFirst
<1>5. ListedFirst(Len(Scopes)) = Found
  BY <1>1 DEF ListedFirst, Found
<1> QED  BY <1>3, <1>4, <1>5

\* What a mark does to the lists: nothing, but for the flags.
LEMMA MarksKeepUrls ==
    ASSUME SharingInv, NEW c \in checks, UpdateTargetHealth(c)
    PROVE  UrlsOf(served') = UrlsOf(served) /\ UrlsOf(targets') = UrlsOf(targets)
<1>1. /\ served' = Marked(served, c.url, c.answer = "up")
      /\ targets' = IF "served" \in shared THEN served' ELSE targets
  BY DEF UpdateTargetHealth
<1>2. served \in Published
  BY DEF SharingInv, TypeOK
<1>3. PICK h \in BOOLEAN : h = (c.answer = "up")
  OBVIOUS
<1> DEFINE new == Marked(served, c.url, h)
<1>4. /\ DOMAIN new = DOMAIN served
      /\ \A i \in DOMAIN served : new[i] = served[i] \/ (served[i].url = c.url /\ new[i].url = c.url)
  BY <1>2, MarkedIs
<1>5. served' = new
  BY <1>1, <1>3
<1> HIDE DEF new
<1>6. UrlsOf(served') = UrlsOf(served)
  <2>1. \A i \in DOMAIN served : new[i].url = served[i].url
    BY <1>4
  <2> QED  BY <1>4, <1>5, <2>1 DEF UrlsOf
<1> QED  BY <1>1, <1>6 DEF SharingInv

\* A pass begun after the last change stays fresh; every pass begins so.
LEMMA PassStep ==
    ASSUME [CalmStep]_vars
    PROVE  /\ PassIsFresh => PassIsFresh'
           /\ publishing /\ ~publishing' => PassIsFresh'
<1>1. CASE UNCHANGED vars
  BY <1>1 DEF vars, PassIsFresh, ListedFirst
<1>2. CASE CalmStep
  <2>1. TypeOK /\ UNCHANGED cluster /\ \A k : ListedFirst(k)' = ListedFirst(k)
    BY <1>2 DEF CalmStep, SharingInv, ListedFirst
  <2>2. CASE DiscoverResourceType
    <3>1. next \in 1 .. Len(Scopes) /\ next - 1 + 1 = next
      BY <1>2, <2>1, <2>2, TargetsAssumption
      DEF CalmStep, DiscoverResourceType, DiscoverInNamespace, TypeOK
    <3>2. found' = found \o cluster[Scopes[next]] /\ next' = next + 1
      BY <1>2, <2>2 DEF DiscoverResourceType, DiscoverInNamespace, CalmStep
    <3>3. next' - 1 = next
      BY <3>1, <3>2, TargetsAssumption
    <3> QED
      BY <2>1, <2>2, <3>1, <3>2, <3>3, ListedFirstIs DEF PassIsFresh, DiscoverResourceType
  <2>3. CASE NotifySubscribers
    <3>1. next' - 1 = 0 /\ found' = <<>>
      BY <2>3 DEF NotifySubscribers
    <3> QED  BY <2>1, <3>1, ListedFirstIs DEF PassIsFresh
  <2>4. CASE UpdateTargets
    BY <2>1, <2>4 DEF UpdateTargets, PassIsFresh
  <2>5. CASE UNCHANGED <<next, found, complete, publishing>>
    BY <2>1, <2>5 DEF PassIsFresh
  <2> QED
    BY <1>2, <2>2, <2>3, <2>4, <2>5
       DEF CalmStep, Next, Subscribe, ReadSnapshot, SendSnapshot, Receive, CheckAllTargets, Answer,
           UpdateTargetHealth, ClusterChanges, BackendFailsOrRecovers, pass
<1> QED  BY <1>1, <1>2

\* A fresh pass publishes a fresh list, and only passes change whose it is.
LEMMA TargetsStep ==
    ASSUME [CalmStep]_vars, PassIsFresh
    PROVE  /\ TargetsAreFresh => TargetsAreFresh'
           /\ ~publishing /\ publishing' => TargetsAreFresh'
<1>1. CASE UNCHANGED vars
  BY <1>1 DEF vars, TargetsAreFresh, Found
<1>2. CASE CalmStep
  <2>1. TypeOK /\ Found' = Found
    BY <1>2 DEF CalmStep, SharingInv, Found
  <2>2. CASE UpdateTargets
    <3>1. next - 1 = Len(Scopes)
      BY <2>1, <2>2, TargetsAssumption DEF UpdateTargets, TypeOK
    <3>2. found = Found
      BY <2>1, <3>1, ListedFirstIs DEF PassIsFresh
    <3>3. found \in Seq(Urls)
      <4>1. Len(Scopes) \in 0 .. Len(Scopes) /\ found \in Finds[Len(Scopes)]
        BY <2>1, <3>1, TargetsAssumption DEF TypeOK
      <4> QED  BY <4>1, FindsTypes
    <3>4. UrlsOf(targets') = found
      <4>1. targets' = [i \in DOMAIN found |-> [url |-> found[i], healthy |-> TRUE]]
        BY <2>2 DEF UpdateTargets
      <4>2. UrlsOf(targets') = [i \in DOMAIN found |-> found[i]]
        BY <4>1 DEF UrlsOf
      <4> QED  BY <3>3, <4>2
    <3> QED  BY <2>1, <3>2, <3>4 DEF TargetsAreFresh
  <2>3. ASSUME NEW c \in checks, UpdateTargetHealth(c)
        PROVE  UrlsOf(targets') = UrlsOf(targets) /\ publishing' = publishing
    BY <1>2, <2>3, MarksKeepUrls DEF CalmStep, UpdateTargetHealth, pass
  <2>4. ASSUME \/ DiscoverResourceType \/ NotifySubscribers
               \/ Subscribe \/ ReadSnapshot \/ SendSnapshot \/ Receive \/ CheckAllTargets
               \/ \E c \in checks : Answer(c)
               \/ ClusterChanges
               \/ \E u \in Flaky : BackendFailsOrRecovers(u)
        PROVE  targets' = targets /\ (publishing' => publishing)
    BY <2>4
       DEF DiscoverResourceType, NotifySubscribers, Subscribe, ReadSnapshot, SendSnapshot, Receive,
           CheckAllTargets, Answer, ClusterChanges, BackendFailsOrRecovers, pass
  <2> QED
    BY <1>2, <2>1, <2>2, <2>3, <2>4 DEF TargetsAreFresh, CalmStep, Next
<1> QED  BY <1>1, <1>2

\* With the first snapshot gone, only fresh lists enter the channel; a pass that
\* ends leaves a list there; and the balancer serves what it takes from it.
LEMMA ChannelStep ==
    ASSUME [CalmStep]_vars, TargetsAreFresh, subscriber = "sent"
    PROVE  /\ ChannelIsFresh => ChannelIsFresh'
           /\ publishing /\ ~publishing' => channel' # None
           /\ ChannelIsFresh /\ channel # None /\ ~(channel' # None) => ServedIsFresh'
           /\ ChannelIsFresh /\ ServedIsFresh => ServedIsFresh'
<1>1. CASE UNCHANGED vars
  BY <1>1 DEF vars, ChannelIsFresh, ServedIsFresh, Found
<1>2. CASE CalmStep
  <2>1. TypeOK /\ targets # None /\ Found' = Found
    BY <1>2, NoneAssumption DEF CalmStep, SharingInv, Found, TypeOK, Published
  <2>2. CASE NotifySubscribers
    BY <2>1, <2>2 DEF NotifySubscribers, ChannelIsFresh, ServedIsFresh, TargetsAreFresh
  <2>3. CASE Receive
    BY <2>1, <2>3 DEF Receive, ChannelIsFresh, ServedIsFresh, pass
  <2>4. ASSUME NEW c \in checks, UpdateTargetHealth(c)
        PROVE  UrlsOf(served') = UrlsOf(served) /\ UNCHANGED <<publishing, channel>>
    BY <1>2, <2>4, MarksKeepUrls DEF CalmStep, UpdateTargetHealth, pass
  <2>5. CASE SendSnapshot
    BY <2>5 DEF SendSnapshot
  <2>6. ASSUME \/ DiscoverResourceType \/ UpdateTargets
               \/ Subscribe \/ ReadSnapshot \/ CheckAllTargets
               \/ \E c \in checks : Answer(c)
               \/ ClusterChanges
               \/ \E u \in Flaky : BackendFailsOrRecovers(u)
        PROVE  UNCHANGED <<served, channel>> /\ (publishing => publishing')
    BY <2>6
       DEF DiscoverResourceType, UpdateTargets, Subscribe, ReadSnapshot, CheckAllTargets, Answer,
           ClusterChanges, BackendFailsOrRecovers, pass
  <2> QED
    BY <1>2, <2>1, <2>2, <2>3, <2>4, <2>5, <2>6
       DEF ChannelIsFresh, ServedIsFresh, CalmStep, Next
<1> QED  BY <1>1, <1>2

(***************************************************************************)
(* Where lists keep flowing from discovery to the balancer, the balancer   *)
(* catches up with the cluster, whatever the types and their listings.     *)
(***************************************************************************)
THEOREM FlowingListsCatchUp == Spec /\ ListsKeepFlowing => BalancerCatchesUp
<1>1. /\ SharingInv /\ SharingInv' /\ [Next]_vars
      /\ [DiscoverResourceType => DiscoverInNamespace]_vars /\ [FALSE]_cluster
      => [CalmStep]_vars
  BY DEF CalmStep
<1>2. /\ Spec
      /\ <>[][DiscoverResourceType => DiscoverInNamespace]_vars /\ <>[][FALSE]_cluster
      => <>[][CalmStep]_vars
  BY <1>1, SharingIsSound, PTL DEF Spec
<1>3. /\ <>[][CalmStep]_vars /\ []<>publishing /\ []<>(~publishing)
      => <>([][CalmStep]_vars /\ []PassIsFresh)
  <2>1. /\ [CalmStep]_vars /\ PassIsFresh => PassIsFresh'
        /\ [CalmStep]_vars /\ publishing /\ ~publishing' => PassIsFresh'
    BY PassStep
  <2> QED  BY <2>1, PTL
<1>4. /\ <>([][CalmStep]_vars /\ []PassIsFresh) /\ []<>publishing /\ []<>(~publishing)
      => <>([][CalmStep]_vars /\ []TargetsAreFresh)
  <2>1. /\ [CalmStep]_vars /\ PassIsFresh /\ TargetsAreFresh => TargetsAreFresh'
        /\ [CalmStep]_vars /\ PassIsFresh /\ ~publishing /\ publishing' => TargetsAreFresh'
    BY TargetsStep
  <2> QED  BY <2>1, PTL
<1>5. /\ <>([][CalmStep]_vars /\ []TargetsAreFresh) /\ <>[](subscriber = "sent")
      /\ []<>(channel = None)
      => <>([][CalmStep]_vars /\ []TargetsAreFresh /\ [](subscriber = "sent") /\ []ChannelIsFresh)
  <2>1. /\ [CalmStep]_vars /\ TargetsAreFresh /\ subscriber = "sent" /\ ChannelIsFresh
              => ChannelIsFresh'
        /\ channel = None => ChannelIsFresh
    BY ChannelStep DEF ChannelIsFresh
  <2> QED  BY <2>1, PTL
<1>6. /\ <>([][CalmStep]_vars /\ []TargetsAreFresh /\ [](subscriber = "sent") /\ []ChannelIsFresh)
      /\ []<>publishing /\ []<>(~publishing) /\ []<>(channel = None)
      => <>[]ServedIsFresh
  <2>1. [CalmStep]_vars /\ TargetsAreFresh /\ subscriber = "sent" =>
           /\ publishing /\ ~publishing' => (channel # None)'
           /\ ChannelIsFresh /\ channel # None /\ ~(channel # None)' => ServedIsFresh'
           /\ ChannelIsFresh /\ ServedIsFresh => ServedIsFresh'
    BY ChannelStep
  <2>2. channel = None => ~(channel # None)
    OBVIOUS
  <2> QED  BY <2>1, <2>2, PTL
<1>7. ServedIsFresh <=> UrlsOf(served) = Found
  BY DEF ServedIsFresh
<1> QED
  BY <1>2, <1>3, <1>4, <1>5, <1>6, <1>7, PTL DEF BalancerCatchesUp, ListsKeepFlowing
=============================================================================
