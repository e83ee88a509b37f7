-------------------------- MODULE QueryHandlerProofs --------------------------
(***************************************************************************)
(* Proofs about QueryHandler, for any resources, patterns, series, watched *)
(* namespaces and targets.                                                 *)
(***************************************************************************)
EXTENDS QueryHandler, RecursionFacts, TLAPS

-----------------------------------------------------------------------------
(* Patterns.                                                               *)

\* A set of numbers up to n has a last one.
LEMMA LastOfSome ==
    ASSUME NEW n \in Nat, NEW S, S \subseteq 1 .. n, S # {}
    PROVE  \E i \in S : \A j \in S : j <= i
<1> DEFINE T == {n - i : i \in S}
<1>1. T \subseteq Nat /\ T # {}
  <2>1. \A i \in S : n - i \in Nat
    OBVIOUS
  <2> QED  BY <2>1
<1>2. PICK x \in T : \A y \in T : x <= y
  BY <1>1, LeastNat
<1>3. PICK i \in S : x = n - i
  BY <1>2
<1>4. ASSUME NEW j \in S PROVE j <= i
  <2>1. n - j \in T
    OBVIOUS
  <2>2. n - i <= n - j
    BY <1>2, <1>3, <2>1
  <2> QED  BY <2>2
<1> QED  BY <1>4

\* Every matcher of a selector sets labels, and every label set by a selector
\* is set by one of its matchers.
LEMMA SelectorLabels ==
    ASSUME NEW ms, NEW n \in Nat, DOMAIN ms = 1 .. n
    PROVE  /\ DOMAIN ParsePromQLSelector(ms) = UNION {DOMAIN LabelsSet(ms[i]) : i \in 1 .. n}
           /\ \A l \in DOMAIN ParsePromQLSelector(ms) : \E i \in 1 .. n :
                 l \in DOMAIN LabelsSet(ms[i]) /\ ParsePromQLSelector(ms)[l] = LabelsSet(ms[i])[l]
<1> DEFINE Sets(i, l) == l \in DOMAIN LabelsSet(ms[i])
           IsLast(i, l) == Sets(i, l) /\ \A j \in DOMAIN ms : Sets(j, l) => j <= i
           LastSetting(l) == CHOOSE i \in DOMAIN ms : IsLast(i, l)
           labels == UNION {DOMAIN LabelsSet(m) : m \in Range(ms)}
<1>1. labels = UNION {DOMAIN LabelsSet(ms[i]) : i \in 1 .. n}
  BY DEF Range
<1>2. ParsePromQLSelector(ms) = [l \in labels |-> LabelsSet(ms[LastSetting(l)])[l]]
  BY Zenon DEF ParsePromQLSelector
<1>3. ASSUME NEW l \in labels PROVE LastSetting(l) \in 1 .. n /\ Sets(LastSetting(l), l)
  <2> HIDE DEF Sets
  <2> DEFINE S == {i \in 1 .. n : Sets(i, l)}
  <2>1. S # {}
    BY <1>1 DEF Sets
  <2>2. \E i \in S : \A j \in S : j <= i
    BY <2>1, LastOfSome
  <2>3. \E i \in DOMAIN ms : IsLast(i, l)
    BY <2>2
  <2> QED  BY <2>3
<1> HIDE DEF LastSetting, labels
<1>4. \A l \in labels : ParsePromQLSelector(ms)[l] = LabelsSet(ms[LastSetting(l)])[l]
  BY <1>2
<1>5. DOMAIN ParsePromQLSelector(ms) = labels
  BY <1>2
<1> QED  BY <1>1, <1>3, <1>4, <1>5

\* What a pattern's selector holds if its text is cut as it is meant: the name,
\* the labels to be equal to, and of other matchers what no series has.
LEMMA NarrowSelector ==
    ASSUME NEW p, IsPattern(p), p.form = "selector", Narrow(p),
           NEW labels, labels = ParseMetricWithLabels(p.name, p.matchers)
    PROVE  /\ p.name # NoName => "__name__" \in DOMAIN labels /\ labels["__name__"] = p.name
           /\ \A m \in Range(p.matchers) :
                 /\ m.op = "=" => m.label \in DOMAIN labels /\ labels[m.label] = m.first
                 /\ m.op = "=~" => m.label \in DOMAIN labels /\ labels[m.label] = None
                 /\ m.op = "!=" => None \in DOMAIN labels
           /\ \A l \in DOMAIN labels :
                 \/ l = "__name__" /\ p.name # NoName
                 \/ \E m \in Range(p.matchers) :
                       l \in DOMAIN LabelsSet(m) /\ labels[l] = LabelsSet(m)[l]
<1> DEFINE ms == p.matchers
           sel == ParsePromQLSelector(ms)
<1>1. Len(ms) \in Nat /\ DOMAIN ms = 1 .. Len(ms) /\ p.form \notin {"names", "invalid"}
  BY DEF IsPattern
<1>2. /\ DOMAIN sel = UNION {DOMAIN LabelsSet(ms[i]) : i \in 1 .. Len(ms)}
      /\ \A l \in DOMAIN sel : \E i \in 1 .. Len(ms) :
            l \in DOMAIN LabelsSet(ms[i]) /\ sel[l] = LabelsSet(ms[i])[l]
  BY <1>1, SelectorLabels
<1>3. ASSUME NEW i \in 1 .. Len(ms)
      PROVE  /\ ms[i].op \in {"=", "!=", "=~"} /\ ms[i].label # None
             /\ ms[i].label = "__name__" => p.name = NoName
             /\ ms[i].op = "!=" => DOMAIN LabelsSet(ms[i]) = {None}
             /\ ms[i].op # "!=" => DOMAIN LabelsSet(ms[i]) = {ms[i].label}
             /\ ms[i].op = "=" => LabelsSet(ms[i])[ms[i].label] = ms[i].first
             /\ ms[i].op = "=~" => LabelsSet(ms[i])[ms[i].label] = None
  <2> DEFINE m == ms[i]
  <2>1. m \in Range(ms)
    BY <1>1 DEF Range
  <2>2. /\ m.op \in {"=", "!=", "=~"} /\ m.label # None /\ m.more = <<>>
        /\ m.label = "__name__" => p.name = NoName
    BY <1>1, <2>1 DEF IsPattern, Narrow
  <2>3. DOMAIN <<>> = {}
    OBVIOUS
  <2>4. CASE m.op = "="
    <3>1. LabelsSet(m) = Over(<<>>, [l \in {m.label} |-> m.first])
      BY <2>2, <2>4 DEF LabelsSet
    <3> QED  BY <2>2, <2>3, <2>4, <3>1 DEF Over
  <2>5. CASE m.op = "=~"
    <3>1. LabelsSet(m) = Over(<<>>, [l \in {m.label} |-> None])
      BY <2>2, <2>5 DEF LabelsSet
    <3> QED  BY <2>2, <2>3, <2>5, <3>1 DEF Over
  <2>6. CASE m.op = "!="
    <3>1. LabelsSet(m) = Over(<<>>, [l \in {None} |-> None])
      BY <2>2, <2>6 DEF LabelsSet
    <3> QED  BY <2>2, <2>3, <2>6, <3>1 DEF Over
  <2> QED  BY <2>2, <2>4, <2>5, <2>6
<1>4. ASSUME NEW i \in 1 .. Len(ms), ms[i].op # "!="
      PROVE  /\ ms[i].label \in DOMAIN sel
             /\ sel[ms[i].label] = IF ms[i].op = "=" THEN ms[i].first ELSE None
  <2> DEFINE l == ms[i].label
  <2>1. l \in DOMAIN LabelsSet(ms[i])
    BY <1>3, <1>4
  <2>2. l \in DOMAIN sel
    BY <1>2, <2>1
  <2>3. PICK j \in 1 .. Len(ms) : l \in DOMAIN LabelsSet(ms[j]) /\ sel[l] = LabelsSet(ms[j])[l]
    BY <1>2, <2>2
  <2>4. ms[j].label = l
    <3>1. l # None /\ l \in DOMAIN LabelsSet(ms[j])
      BY <1>3, <2>3
    <3> QED  BY <1>3, <3>1
  <2>5. i = j
    BY <1>1, <2>4 DEF Narrow
  <2> QED  BY <1>3, <1>4, <2>2, <2>3, <2>5
<1>5. ASSUME NEW i \in 1 .. Len(ms), ms[i].op = "!=" PROVE None \in DOMAIN sel
  <2>1. None \in DOMAIN LabelsSet(ms[i])
    BY <1>3, <1>5
  <2> QED  BY <1>2, <2>1
<1>6. /\ DOMAIN sel \subseteq DOMAIN labels
      /\ p.name = NoName => labels = sel
      /\ p.name # NoName => /\ DOMAIN labels = {"__name__"} \cup DOMAIN sel
                            /\ labels["__name__"] = p.name
      /\ \A l \in DOMAIN sel : l # "__name__" \/ p.name = NoName => labels[l] = sel[l]
  BY DEF ParseMetricWithLabels, Over
<1>7. \A m \in Range(ms) : \E i \in 1 .. Len(ms) : m = ms[i]
  BY <1>1 DEF Range
<1>8. \A i \in 1 .. Len(ms) : ms[i] \in Range(ms)
  BY <1>1 DEF Range
<1> HIDE DEF sel
<1>9. ASSUME NEW m \in Range(ms)
      PROVE  /\ m.op = "=" => m.label \in DOMAIN labels /\ labels[m.label] = m.first
             /\ m.op = "=~" => m.label \in DOMAIN labels /\ labels[m.label] = None
             /\ m.op = "!=" => None \in DOMAIN labels
  <2>1. PICK i \in 1 .. Len(ms) : m = ms[i]
    BY <1>7
  <2>2. m.label = "__name__" => p.name = NoName
    BY <1>3, <2>1
  <2> QED  BY <1>4, <1>5, <1>6, <2>1, <2>2
<1>10. ASSUME NEW l \in DOMAIN labels, ~(l = "__name__" /\ p.name # NoName)
       PROVE  \E m \in Range(ms) : l \in DOMAIN LabelsSet(m) /\ labels[l] = LabelsSet(m)[l]
  <2>1. l \in DOMAIN sel /\ labels[l] = sel[l]
    BY <1>6, <1>10
  <2> QED  BY <1>2, <1>8, <2>1
<1> QED  BY <1>6, <1>9, <1>10

\* A narrow pattern is read as accepting only what it accepts,
LEMMA ReadsNarrow ==
    ASSUME NEW p, IsPattern(p), Narrow(p), NEW s \in Series, Reads(p, s)
    PROVE  Accepts(p, s)
<1>1. CASE p.form = "names"
  BY <1>1 DEF Narrow, Reads, ParseMetricPattern, MatchesPattern, Accepts
<1>2. CASE p.form = "invalid"
  BY <1>2 DEF Narrow, Reads, Parses
<1>3. CASE p.form = "selector"
  <2> DEFINE labels == ParseMetricWithLabels(p.name, p.matchers)
  <2>1. \A l \in DOMAIN labels : IF l = "__name__" THEN MetricName(s) = labels[l]
                                                  ELSE l \in DOMAIN s /\ s[l] = labels[l]
    BY <1>3 DEF Reads, ParseMetricPattern, MatchesPattern
  <2> HIDE DEF labels
  <2>2. /\ p.name # NoName => "__name__" \in DOMAIN labels /\ labels["__name__"] = p.name
        /\ \A m \in Range(p.matchers) :
              /\ m.op = "=" => m.label \in DOMAIN labels /\ labels[m.label] = m.first
              /\ m.op = "=~" => m.label \in DOMAIN labels /\ labels[m.label] = None
              /\ m.op = "!=" => None \in DOMAIN labels
    BY <1>3, NarrowSelector DEF labels
  <2>3. /\ None \notin DOMAIN s
        /\ \A l : Value(s, l) # None
    BY TenantsAssumption DEF Value, Range
  <2>4. \A l \in DOMAIN labels : l # None /\ Value(s, l) = labels[l]
    BY <2>1, <2>3, TenantsAssumption DEF MetricName, Value
  <2>5. ASSUME NEW m \in Range(p.matchers) PROVE m.op = "=" /\ Value(s, m.label) \in m.values
    <3>1. m.op \in {"=", "!=", "=~"} /\ (m.op = "=" => m.first \in m.values)
      BY <1>3 DEF IsPattern, Narrow
    <3> QED  BY <2>2, <2>3, <2>4, <3>1
  <2>6. p.name \in {NoName, MetricName(s)}
    BY <2>1, <2>2
  <2> QED  BY <1>3, <2>5, <2>6 DEF Accepts
<1> QED  BY <1>1, <1>2, <1>3 DEF IsPattern

\* and a plain one is read as accepting all that.
LEMMA ReadsPlain ==
    ASSUME NEW p, IsPattern(p), Plain(p), NEW s \in Series, Accepts(p, s)
    PROVE  Reads(p, s)
<1>1. CASE p.form = "names"
  BY <1>1 DEF Plain, Narrow, Reads, Parses, ParseMetricPattern, MatchesPattern, Accepts
<1>2. CASE p.form = "selector"
  <2> DEFINE labels == ParseMetricWithLabels(p.name, p.matchers)
  <2>1. /\ p.name # NoName => "__name__" \in DOMAIN labels /\ labels["__name__"] = p.name
        /\ \A m \in Range(p.matchers) : m.label \in DOMAIN labels /\ labels[m.label] = m.first
        /\ \A l \in DOMAIN labels :
              \/ l = "__name__" /\ p.name # NoName
              \/ \E m \in Range(p.matchers) :
                    l \in DOMAIN LabelsSet(m) /\ labels[l] = LabelsSet(m)[l]
    BY <1>2, NarrowSelector DEF Plain
  <2> HIDE DEF labels
  <2>2. p.name \in {NoName, MetricName(s)}
    BY <1>2 DEF Accepts
  <2>3. ASSUME NEW m \in Range(p.matchers)
        PROVE  /\ DOMAIN LabelsSet(m) = {m.label}
               /\ labels[m.label] = m.first /\ m.first # NoName /\ Value(s, m.label) = m.first
    <3>1. m.op = "=" /\ m.values = {m.first} /\ m.first # NoName /\ m.more = <<>>
      BY <1>2 DEF Plain, Narrow
    <3>2. Value(s, m.label) = m.first
      BY <1>2, <3>1 DEF Accepts
    <3>3. DOMAIN LabelsSet(m) = {m.label}
      BY <3>1 DEF LabelsSet, Over
    <3> QED  BY <2>1, <3>1, <3>2, <3>3
  <2>4. ASSUME NEW l \in DOMAIN labels
        PROVE  IF l = "__name__" THEN MetricName(s) = labels[l]
                                 ELSE l \in DOMAIN s /\ s[l] = labels[l]
    <3>1. CASE l = "__name__" /\ p.name # NoName
      BY <2>1, <2>2, <3>1
    <3>2. CASE \E m \in Range(p.matchers) : l = m.label
      BY <2>3, <3>2 DEF MetricName, Value
    <3> QED  BY <2>1, <2>3, <3>1, <3>2
  <2> QED  BY <1>2, <2>4 DEF Reads, Parses, ParseMetricPattern, MatchesPattern, labels
<1> QED  BY <1>1, <1>2 DEF Accepts

\* The converted rules of a specification let through what its patterns are
\* read as allowing, those that do not parse aside.
LEMMA ConvertReads ==
    ASSUME NEW spec, NEW s
    PROVE  (/\ \E pattern \in ConvertToTenantInfo(spec).patterns : MatchesPattern(pattern, s)
            /\ Carries(s, ConvertToTenantInfo(spec).selectors))
           <=> ReadsAsAllowing(spec, s)
BY DEF ConvertToTenantInfo, ParseMetricPatterns, Reads, ReadsAsAllowing

\* What a resource is read as allowing is what it allows, if its patterns are plain.
LEMMA GrantedReads ==
    ASSUME NEW spec \in AllSpecs, NEW s \in Series
    PROVE  s \in Granted(spec) <=> ReadsAsAllowing(spec, s)
<1>1. CASE \A p \in spec.metrics : Plain(p)
  <2>1. \A p \in spec.metrics : Reads(p, s) <=> Accepts(p, s)
    BY <1>1, ReadsNarrow, ReadsPlain, TenantsAssumption DEF Plain
  <2> QED  BY <1>1, <2>1 DEF Granted, Allows, ReadsAsAllowing
<1>2. CASE ~\A p \in spec.metrics : Plain(p)
  BY <1>2 DEF Granted
<1> QED  BY <1>1, <1>2

\* A pass has at least one List.
LEMMA SomeScope == Len(GetWatchNamespaces) \in Nat /\ Len(GetWatchNamespaces) >= 1
<1>1. CASE WatchAll \/ WatchNamespaces = <<>>
  BY <1>1 DEF GetWatchNamespaces
<1>2. CASE ~(WatchAll \/ WatchNamespaces = <<>>)
  BY <1>2, TenantsAssumption DEF GetWatchNamespaces
<1> QED  BY <1>1, <1>2

-----------------------------------------------------------------------------
(* Types.                                                                  *)

\* The next List of a pass is one of its Lists, or none.
LEMMA NextScopeType ==
    ASSUME scope \in 0 .. Len(GetWatchNamespaces) PROVE NextScope \in 0 .. Len(GetWatchNamespaces)
BY SomeScope DEF NextScope

\* A request is identified with a tenant, with a fixed identity or with nobody.
LEMMA IdType == ASSUME NEW r \in Requests PROVE ExtractTenantInfo(r) \in Keys \cup {None, Internal, Merged}
<1> DEFINE known == GetTenantsByNamespace(NamespaceOfRequest(r))
<1>1. known \subseteq Keys
  BY DEF GetTenantsByNamespace
<1>2. CASE \E k \in known : known = {k}
  BY <1>1, <1>2 DEF ExtractTenantInfo, MergedTenantForNamespace
<1>3. CASE ~\E k \in known : known = {k}
  BY <1>3 DEF ExtractTenantInfo, MergedTenantForNamespace
<1> QED  BY <1>2, <1>3

\* Between two requests nothing is left of the last one, and nothing is
\* filtered before every target was asked.
Resets ==
    /\ at = "idle" => id = None /\ successes = 0 /\ results = <<>>
    /\ at \in {"idle", "fetching"} => filtered = 0 /\ answer = <<>>

\* Types hold initially.
LEMMA TypeInit == Init => TypeOK /\ Resets
BY SomeScope, HandlerAssumption DEF Init, TenantsInit, HandlerInit, TypeOK, TenantsTypeOK, Resets

\* Every step preserves them,
LEMMA TypeStep == ASSUME TypeOK, Resets, [Next]_vars PROVE TypeOK'
<1> USE DEF TypeOK, TenantsTypeOK
<1>1. CASE ManagerNext /\ UNCHANGED requestVars
  <2>1. CASE Tick
    BY <1>1, <2>1, SomeScope DEF Tick, requestVars
  <2>2. CASE List
    <3>1. items' \in SUBSET [key : Keys, spec : AllSpecs]
      BY <2>2 DEF List
    <3>2. sinceList' \in [Keys -> SUBSET (AllSpecs \cup {None})]
      BY <2>2 DEF List
    <3> QED  BY <1>1, <2>2, <3>1, <3>2 DEF List, requestVars
  <2>3. CASE ListFails
    BY <1>1, <2>3, NextScopeType DEF ListFails, requestVars
  <2>4. CASE NamespaceDone
    BY <1>1, <2>4, NextScopeType DEF NamespaceDone, requestVars
  <2>5. ASSUME items # None, NEW item \in items, ProcessTenantUpdate(item) PROVE TypeOK'
    <3>1. item \in [key : Keys, spec : AllSpecs]
      BY <2>5
    <3>2. items' \in SUBSET [key : Keys, spec : AllSpecs]
      BY <2>5 DEF ProcessTenantUpdate
    <3> QED  BY <1>1, <2>5, <3>1, <3>2 DEF ProcessTenantUpdate, requestVars
  <2> QED  BY <1>1, <2>1, <2>2, <2>3, <2>4, <2>5 DEF ManagerNext
<1>2. ASSUME NEW r \in Requests, NEW n \in 0 .. MaxTargets,
             Refuse(r, n) \/ ProxyToOneTarget(r, n) \/ QueryAllTargets(r, n)
      PROVE  TypeOK'
  <2>1. CASE Refuse(r, n) \/ ProxyToOneTarget(r, n)
    BY <2>1 DEF Refuse, ProxyToOneTarget, Unanswered, tenantVars
  <2>2. CASE QueryAllTargets(r, n)
    <3>1. SpecsOfRequest(r) \in [Keys -> SUBSET (AllSpecs \cup {None})]
      BY DEF SpecsOfRequest
    <3>2. successes' = 0 /\ left' = n
      BY <2>2 DEF QueryAllTargets, Resets
    <3> QED  BY <2>2, <3>1, <3>2, IdType, HandlerAssumption DEF QueryAllTargets, tenantVars
  <2> QED  BY <1>2, <2>1, <2>2
<1>3. CASE Handle
  <2>1. CASE TargetAnswers
    BY <2>1, HandlerAssumption DEF TargetAnswers, tenantVars
  <2>2. CASE TargetFails
    BY <2>2, HandlerAssumption DEF TargetFails, tenantVars
  <2>3. CASE FetchDone \/ FilterDone
    BY <2>3 DEF FetchDone, FilterDone, tenantVars
  <2>4. CASE FilterNext
    BY <2>4 DEF FilterNext, tenantVars
  <2>5. CASE Respond
    BY <2>5, HandlerAssumption DEF Respond, NoRequest, tenantVars
  <2> QED  BY <1>3, <2>1, <2>2, <2>3, <2>4, <2>5 DEF Handle
<1>4. ASSUME NEW k \in Keys, EditDuringRequest(k) PROVE TypeOK'
  BY <1>4 DEF EditDuringRequest, EditMetricAccess, AllSpecs
<1>5. CASE RestartProcess
  BY <1>5, SomeScope, HandlerAssumption DEF RestartProcess, Restart, NoRequest
<1>6. CASE UNCHANGED vars
  BY <1>6 DEF vars, tenantVars, requestVars
<1> QED  BY <1>1, <1>2, <1>3, <1>4, <1>5, <1>6 DEF Next

\* Every step leaves nothing behind from one request to the next.
LEMMA ResetsStep == ASSUME TypeOK, Resets, [Next]_vars PROVE Resets'
<1> USE DEF Resets
<1>1. CASE (ManagerNext /\ UNCHANGED requestVars) \/ UNCHANGED vars
  BY <1>1 DEF requestVars, vars
<1>2. ASSUME NEW r \in Requests, NEW n \in 0 .. MaxTargets,
             Refuse(r, n) \/ ProxyToOneTarget(r, n) \/ QueryAllTargets(r, n)
      PROVE  Resets'
  BY <1>2 DEF Refuse, ProxyToOneTarget, QueryAllTargets, Unanswered
<1>3. CASE Handle
  BY <1>3 DEF Handle, TargetAnswers, TargetFails, FetchDone, FilterNext, FilterDone, Respond,
              NoRequest
<1>4. ASSUME NEW k \in Keys, EditDuringRequest(k) PROVE Resets'
  BY <1>4 DEF EditDuringRequest
<1>5. CASE RestartProcess
  BY <1>5 DEF RestartProcess, NoRequest
<1> QED  BY <1>1, <1>2, <1>3, <1>4, <1>5 DEF Next

\* Every reachable state is well typed.
THEOREM TypeCorrect == Spec => []TypeOK
<1>1. TypeOK /\ Resets /\ [Next]_vars => TypeOK' /\ Resets'
  BY TypeStep, ResetsStep
<1> QED  BY TypeInit, <1>1, PTL DEF Spec

-----------------------------------------------------------------------------
(* The inductive invariant of access.                                      *)

\* The rules of a tenant are those of a specification its resource had since
\* the List they come from.
RulesFromResource ==
    \A k \in Keys : tenants[k] # None =>
        \E spec \in sinceRules[k] \ {None} : tenants[k] = ConvertToTenantInfo(spec)

\* A later List saw a part of what an earlier one saw or will see.
ListsAreInOrder ==
    /\ \A k \in Keys : cr[k] \in sinceList[k] /\ sinceList[k] \subseteq sinceRules[k]
    /\ items # None => \A item \in items : item.spec \in sinceList[item.key]

\* A request knows the specifications its tenants can have rules from.
RequestKnowsRules ==
    /\ \A k \in Keys : specs[k] # {} => tenants[k] # None /\ sinceRules[k] \subseteq specs[k]
    /\ id \in Keys => specs[id] # {}

\* What AnswerIsComplete says, of what has been filtered so far.
FilteredIsComplete ==
    /\ id \in Keys => \A i \in 1 .. filtered :
                          AlwaysAllowed(id, results[i]) => InSeq(results[i], answer)
    /\ at = "answered" => filtered = Len(results)

AccessInv ==
    /\ TypeOK
    /\ Resets
    /\ RulesFromResource
    /\ ListsAreInOrder
    /\ RequestKnowsRules
    /\ AnswerIsSound
    /\ FilteredIsComplete

\* The access invariant holds before the first pass.
LEMMA AccessInit == Init => AccessInv
<1> SUFFICES ASSUME Init PROVE AccessInv
  OBVIOUS
<1> USE DEF Init, TenantsInit, HandlerInit
<1>1. RulesFromResource /\ ListsAreInOrder
  BY DEF RulesFromResource, ListsAreInOrder
<1>2. RequestKnowsRules /\ FilteredIsComplete
  BY HandlerAssumption DEF RequestKnowsRules, FilteredIsComplete
<1>3. AnswerIsSound
  BY DEF AnswerIsSound, InSeq
<1> QED  BY <1>1, <1>2, <1>3, TypeInit DEF AccessInv

\* A step of the manager or of its environment, or one that leaves both alone.
LEMMA RulesStep == ASSUME AccessInv, [Next]_vars PROVE RulesFromResource' /\ ListsAreInOrder'
<1> USE DEF AccessInv, TypeOK, TenantsTypeOK, RulesFromResource, ListsAreInOrder
<1>1. CASE UNCHANGED tenantVars
  BY <1>1 DEF tenantVars
<1>2. CASE Tick \/ ListFails \/ NamespaceDone
  BY <1>2 DEF Tick, ListFails, NamespaceDone
<1>3. CASE List
  <2>1. \A k \in Keys : sinceList'[k] = sinceList[k] \/ sinceList'[k] = {cr[k]}
    BY <1>3 DEF List
  <2>2. \A item \in items' : item.spec \in sinceList'[item.key]
    BY <1>3 DEF List
  <2> QED  BY <1>3, <2>1, <2>2 DEF List
<1>4. ASSUME items # None, NEW item \in items, ProcessTenantUpdate(item)
      PROVE  RulesFromResource' /\ ListsAreInOrder'
  <2>1. item.key \in Keys /\ item.spec \in AllSpecs
    BY <1>4
  <2>2. item.spec \in sinceList[item.key] \ {None}
    BY <1>4, <2>1, TenantsAssumption
  <2>3. /\ tenants' = [tenants EXCEPT ![item.key] = ConvertToTenantInfo(item.spec)]
        /\ sinceRules' = [sinceRules EXCEPT ![item.key] = sinceList[item.key]]
        /\ UNCHANGED <<cr, sinceList>> /\ items' \subseteq items
    BY <1>4 DEF ProcessTenantUpdate
  <2>4. RulesFromResource'
    BY <2>1, <2>2, <2>3
  <2>5. ListsAreInOrder'
    BY <1>4, <2>1, <2>3
  <2> QED  BY <2>4, <2>5
<1>5. ASSUME NEW k \in Keys, EditMetricAccess(k)
      PROVE  RulesFromResource' /\ ListsAreInOrder'
  <2>1. cr' = [cr EXCEPT ![k] = cr'[k]]
    BY <1>5 DEF EditMetricAccess
  <2>2. \A j \in Keys : /\ sinceList[j] \subseteq sinceList'[j] /\ sinceRules[j] \subseteq sinceRules'[j]
                       /\ cr'[j] \in sinceList'[j] /\ sinceList'[j] \subseteq sinceRules'[j]
    BY <1>5, <2>1 DEF EditMetricAccess
  <2>3. UNCHANGED <<tenants, items>>
    BY <1>5 DEF EditMetricAccess
  <2> QED  BY <2>2, <2>3
<1>6. CASE Restart
  BY <1>6 DEF Restart
<1> QED
  BY <1>1, <1>2, <1>3, <1>4, <1>5, <1>6
  DEF Next, ManagerNext, Handle, Refuse, ProxyToOneTarget, QueryAllTargets, TargetAnswers, TargetFails,
      FetchDone, FilterNext, FilterDone, Respond, EditDuringRequest, RestartProcess, vars, tenantVars

\* A tenant identified in a request has rules, older than the request or listed during it.
LEMMA RequestStep == ASSUME AccessInv, [Next]_vars PROVE RequestKnowsRules'
<1> USE DEF AccessInv, TypeOK, TenantsTypeOK, RequestKnowsRules
<1>1. CASE UNCHANGED <<tenantVars, id, specs>>
  BY <1>1 DEF tenantVars
<1>2. CASE ManagerNext /\ UNCHANGED requestVars
  <2>1. CASE Tick \/ List \/ ListFails \/ NamespaceDone
    BY <1>2, <2>1 DEF Tick, List, ListFails, NamespaceDone, requestVars
  <2>2. ASSUME items # None, NEW item \in items, ProcessTenantUpdate(item)
        PROVE  RequestKnowsRules'
    <3>1. item.key \in Keys /\ ConvertToTenantInfo(item.spec) # None
      BY <2>2, TenantsAssumption
    <3>2. \A k \in Keys : /\ tenants[k] # None => tenants'[k] # None
                          /\ sinceRules'[k] \subseteq sinceRules[k]
      BY <2>2, <3>1 DEF ProcessTenantUpdate, ListsAreInOrder
    <3> QED  BY <1>2, <3>2 DEF requestVars
  <2> QED  BY <1>2, <2>1, <2>2 DEF ManagerNext
<1>3. ASSUME NEW r \in Requests, NEW n \in 0 .. MaxTargets, QueryAllTargets(r, n)
      PROVE  RequestKnowsRules'
  <2> DEFINE known == GetTenantsByNamespace(NamespaceOfRequest(r))
  <2>1. /\ id' = ExtractTenantInfo(r) /\ specs' = SpecsOfRequest(r)
        /\ UNCHANGED <<tenants, sinceRules>>
    BY <1>3 DEF QueryAllTargets, tenantVars
  <2>2. \A k \in Keys : specs'[k] # {} => k \in known /\ specs'[k] = sinceRules[k]
    BY <2>1 DEF SpecsOfRequest
  <2>3. \A k \in known : k \in Keys /\ tenants[k] # None
    BY DEF GetTenantsByNamespace
  <2>4. ASSUME id' \in Keys PROVE specs'[id'] # {}
    <3>1. ~r.internal /\ id' \in known
      BY <2>1, <2>4, HandlerAssumption DEF ExtractTenantInfo, MergedTenantForNamespace
    <3>2. specs'[id'] = sinceRules[id']
      BY <2>1, <2>4, <3>1 DEF SpecsOfRequest
    <3> QED  BY <2>4, <3>2 DEF ListsAreInOrder
  <2> QED  BY <2>1, <2>2, <2>3, <2>4
<1>4. ASSUME NEW k \in Keys, EditDuringRequest(k) PROVE RequestKnowsRules'
  <2>1. tenants' = tenants /\ id' = id
    BY <1>4 DEF EditDuringRequest, EditMetricAccess
  <2>2. \A j \in Keys : specs'[j] # {} <=> specs[j] # {}
    BY <1>4 DEF EditDuringRequest
  <2>3. \A j \in Keys : specs[j] # {} /\ sinceRules[j] \subseteq specs[j]
                             => sinceRules'[j] \subseteq specs'[j]
    BY <1>4 DEF EditDuringRequest, EditMetricAccess
  <2>4. \A j \in Keys : specs'[j] # {} => tenants'[j] # None /\ sinceRules'[j] \subseteq specs'[j]
    BY <2>1, <2>2, <2>3, Zenon
  <2>5. id' \in Keys => specs'[id'] # {}
    BY <2>1, <2>2, Zenon
  <2> QED  BY <2>4, <2>5
<1>5. CASE NoRequest
  BY <1>5, HandlerAssumption DEF NoRequest
<1> QED
  BY <1>1, <1>2, <1>3, <1>4, <1>5
  DEF Next, Handle, Refuse, ProxyToOneTarget, TargetAnswers, TargetFails, FetchDone, FilterNext,
      FilterDone, Respond, RestartProcess, vars, tenantVars, requestVars

\* What the tenant of a request may see comes from a specification its
\* resource had during the request.
LEMMA AccessIsFromSpecs ==
    ASSUME AccessInv, id \in Keys
    PROVE  /\ tenants[id] # None
           /\ \E spec \in specs[id] \ {None} :
                 spec \in AllSpecs /\ tenants[id] = ConvertToTenantInfo(spec)
<1>1. tenants[id] # None /\ sinceRules[id] \subseteq specs[id]
  BY DEF AccessInv, RequestKnowsRules
<1>2. PICK spec \in sinceRules[id] \ {None} : tenants[id] = ConvertToTenantInfo(spec)
  BY <1>1 DEF AccessInv, RulesFromResource
<1>3. spec \in AllSpecs
  BY <1>2 DEF AccessInv, TypeOK, TenantsTypeOK
<1> QED  BY <1>1, <1>2, <1>3

\* What is put in the answer is allowed by the rules in force, hence by a specification.
LEMMA SoundStep == ASSUME AccessInv, [Next]_vars PROVE AnswerIsSound'
<1> USE DEF AccessInv, AnswerIsSound
<1>1. CASE UNCHANGED <<answer, specs>>
  BY <1>1 DEF InSeq
<1>2. CASE answer' = <<>>
  BY <1>2 DEF InSeq
<1>3. ASSUME NEW k \in Keys, EditDuringRequest(k) PROVE AnswerIsSound'
  <2>1. answer' = answer /\ \A j \in Keys : specs[j] \subseteq specs'[j]
    BY <1>3 DEF EditDuringRequest, TypeOK
  <2> QED  BY <2>1 DEF InSeq
<1>4. CASE FilterNext
  <2> DEFINE next == results[filtered + 1]
  <2>1. specs' = specs /\ answer \in Seq(Series)
    BY <1>4 DEF FilterNext, TypeOK
  <2>2. CASE ~ValidateAccess(id, next)
    BY <1>4, <2>1, <2>2 DEF FilterNext, InSeq
  <2>3. CASE ValidateAccess(id, next)
    <3>1. id \in Keys
      BY <2>3 DEF ValidateAccess
    <3>2. PICK spec \in specs[id] \ {None} :
             spec \in AllSpecs /\ tenants[id] = ConvertToTenantInfo(spec)
      BY <3>1, AccessIsFromSpecs
    <3>3. next \in Series
      BY <1>4 DEF FilterNext, TypeOK
    <3>4. ReadsAsAllowing(spec, next)
      BY <2>3, <3>2, ConvertReads DEF ValidateAccess
    <3>5. PICK p \in spec.metrics : Reads(p, next)
      BY <3>4 DEF ReadsAsAllowing
    <3>6. LetsThrough(p, next)
      BY <3>2, <3>3, <3>5, ReadsNarrow, TenantsAssumption DEF LetsThrough
    <3>7. ASSUME NEW s, InSeq(s, answer') PROVE s = next \/ InSeq(s, answer)
      BY <1>4, <2>1, <2>3, <3>7 DEF FilterNext, InSeq
    <3> QED  BY <2>1, <3>1, <3>2, <3>4, <3>5, <3>6, <3>7 DEF ReadsAsAllowing
  <2> QED  BY <2>2, <2>3
<1>5. ASSUME NEW r \in Requests, NEW n \in 0 .. MaxTargets, QueryAllTargets(r, n)
      PROVE  answer' = <<>>
  BY <1>5 DEF QueryAllTargets, Resets
<1> QED
  BY <1>1, <1>2, <1>3, <1>4, <1>5
  DEF Next, Handle, Refuse, ProxyToOneTarget, Unanswered, TargetAnswers, TargetFails, FetchDone,
      FilterDone, Respond, NoRequest, RestartProcess, vars, requestVars

\* What is left out is not allowed by the rules in force, hence not by every specification.
LEMMA CompleteStep == ASSUME AccessInv, [Next]_vars PROVE FilteredIsComplete'
<1> USE DEF AccessInv, FilteredIsComplete
<1>1. CASE UNCHANGED requestVars
  BY <1>1 DEF requestVars, AlwaysAllowed, InSeq
<1>2. CASE filtered' = 0 /\ at' # "answered"
  BY <1>2
<1>3. ASSUME NEW k \in Keys, EditDuringRequest(k) PROVE FilteredIsComplete'
  <2>1. UNCHANGED <<at, id, results, filtered, answer>>
    BY <1>3 DEF EditDuringRequest
  <2>2. \A j \in Keys : \A s : AlwaysAllowed(j, s)' => AlwaysAllowed(j, s)
    BY <1>3 DEF EditDuringRequest, AlwaysAllowed, TypeOK
  <2> QED  BY <2>1, <2>2 DEF InSeq
<1>4. CASE FilterNext
  <2>1. /\ filtered' = filtered + 1 /\ filtered \in 0 .. Len(results)
        /\ UNCHANGED <<at, id, results, specs>> /\ at = "filtering"
        /\ answer \in Seq(Series)
    BY <1>4 DEF FilterNext, TypeOK
  <2>2. ASSUME NEW s, InSeq(s, answer) PROVE InSeq(s, answer')
    BY <1>4, <2>1, <2>2 DEF FilterNext, InSeq
  <2>3. ASSUME id \in Keys, AlwaysAllowed(id, results[filtered + 1])
        PROVE  InSeq(results[filtered + 1], answer')
    <3>1. PICK spec \in specs[id] \ {None} :
             spec \in AllSpecs /\ tenants[id] = ConvertToTenantInfo(spec)
      BY <2>3, AccessIsFromSpecs
    <3>2. PICK p \in spec.metrics : Plain(p) /\ Accepts(p, results[filtered + 1])
      BY <2>3, <3>1 DEF AlwaysAllowed
    <3>3. results[filtered + 1] \in Series
      BY <1>4 DEF FilterNext, TypeOK
    <3>4. Reads(p, results[filtered + 1])
      BY <3>1, <3>2, <3>3, ReadsPlain, TenantsAssumption
    <3>5. ReadsAsAllowing(spec, results[filtered + 1])
      BY <2>3, <3>1, <3>4 DEF AlwaysAllowed, ReadsAsAllowing
    <3>6. ValidateAccess(id, results[filtered + 1])
      BY <2>3, <3>1, <3>5, AccessIsFromSpecs, ConvertReads DEF ValidateAccess
    <3>7. answer' = Append(answer, results[filtered + 1])
      BY <1>4, <3>6 DEF FilterNext
    <3> QED  BY <2>1, <3>7 DEF InSeq
  <2>4. ASSUME NEW i \in 1 .. filtered', id \in Keys, AlwaysAllowed(id, results[i])'
        PROVE  InSeq(results[i], answer')
    <3>1. AlwaysAllowed(id, results[i])
      BY <2>1, <2>4 DEF AlwaysAllowed
    <3>2. i \in 1 .. filtered \/ i = filtered + 1
      BY <2>1
    <3> QED  BY <2>2, <2>3, <2>4, <3>1, <3>2
  <2> QED  BY <2>1, <2>4 DEF InSeq
<1>5. CASE FilterDone
  BY <1>5 DEF FilterDone, AlwaysAllowed, InSeq
<1>6. CASE TargetAnswers \/ TargetFails
  BY <1>6 DEF TargetAnswers, TargetFails, Resets
<1>7. CASE FetchDone
  BY <1>7 DEF FetchDone, Resets
<1>8. ASSUME NEW r \in Requests, NEW n \in 0 .. MaxTargets,
             Refuse(r, n) \/ ProxyToOneTarget(r, n) \/ QueryAllTargets(r, n)
      PROVE  FilteredIsComplete'
  BY <1>8 DEF Refuse, ProxyToOneTarget, QueryAllTargets, Unanswered, Resets
<1> QED
  BY <1>1, <1>2, <1>3, <1>4, <1>5, <1>6, <1>7, <1>8
  DEF Next, Handle, Respond, NoRequest, RestartProcess, vars

-----------------------------------------------------------------------------
(***************************************************************************)
(* The inductive invariant: the rules in force, the Lists under way and    *)
(* the request each go back to specifications the resource had, the later  *)
(* ones to fewer of them.                                                  *)
(***************************************************************************)
THEOREM AccessInvariant == Spec => []AccessInv
<1>1. AccessInv /\ [Next]_vars => AccessInv'
  <2> SUFFICES ASSUME AccessInv, [Next]_vars PROVE AccessInv'
    OBVIOUS
  <2>1. TypeOK' /\ Resets'
    BY TypeStep, ResetsStep DEF AccessInv
  <2> QED  BY <2>1, RulesStep, RequestStep, SoundStep, CompleteStep DEF AccessInv
<1> QED  BY AccessInit, <1>1, PTL DEF Spec

\* An answer holds only what a pattern of a resource of the namespace accepted
\* (was read as accepting, if it is not Narrow) since the List behind the rules
\* in force when the request arrived.
THEOREM AnswersAreSound == Spec => []AnswerIsSound
<1>1. AccessInv => AnswerIsSound
  BY DEF AccessInv
<1> QED  BY AccessInvariant, <1>1, PTL

\* A lone tenant's answer holds all that its resource allowed all along by
\* patterns that are Plain.
THEOREM AnswersAreComplete == Spec => []AnswerIsComplete
<1>1. AccessInv => AnswerIsComplete
  BY DEF AccessInv, FilteredIsComplete, AnswerIsComplete, TypeOK
<1> QED  BY AccessInvariant, <1>1, PTL

-----------------------------------------------------------------------------
(* Convergence.                                                            *)

\* Kept goes through the series one by one, as the handler does.
LEMMA KeptIs ==
    ASSUME NEW granted, NEW series \in Seq(Series)
    PROVE  /\ Kept(granted, series)[0] = <<>>
           /\ \A i \in 1 .. Len(series) :
                 Kept(granted, series)[i] = IF series[i] \in granted
                                         THEN Append(Kept(granted, series)[i - 1], series[i])
                                         ELSE Kept(granted, series)[i - 1]
<1> DEFINE n == Len(series)
           Step(i, r) == IF series[i] \in granted THEN Append(r, series[i]) ELSE r
           Body(f) == [i \in 0 .. n |-> IF i = 0 THEN <<>> ELSE Step(i, f[i - 1])]
           step == [i \in 1 .. n |-> [r \in Seq(Series) |-> Step(i, r)]]
           f == CHOOSE g : g = Body(g)
<1>1. n \in Nat /\ \A i \in 1 .. n : series[i] \in Series
  OBVIOUS
<1>2. \A i \in 1 .. n : \A r \in Seq(Series) : Step(i, r) \in Seq(Series)
  BY <1>1
<1>3. \E g : g = Body(g)
  <2>1. Steps(n, Seq(Series), <<>>, step)
    BY <1>1, <1>2 DEF Steps
  <2>2. PICK g : Reaches(g, n, Seq(Series), <<>>, step)
    BY <2>1, Iterate
  <2> USE DEF Reaches
  <2> HIDE DEF Step
  <2>3. ASSUME NEW i \in 1 .. n PROVE g[i] = Step(i, g[i - 1])
    <3>1. i - 1 \in 0 .. n
      BY <1>1
    <3>2. g[i - 1] \in Seq(Series) /\ g[i] = step[i][g[i - 1]]
      BY <2>2, <3>1
    <3> QED  BY <3>2
  <2> HIDE DEF step
  <2>4. g = [i \in 0 .. n |-> g[i]]
    BY <2>2
  <2>5. \A i \in 0 .. n : g[i] = IF i = 0 THEN <<>> ELSE Step(i, g[i - 1])
    BY <1>1, <2>2, <2>3
  <2>6. g = Body(g)
    BY <2>4, <2>5, Zenon
  <2> QED  BY <2>6
<1> HIDE DEF Body
<1>4. f = Body(f)
  BY <1>3
<1> HIDE DEF f, Step
<1>5. f[0] = <<>> /\ \A i \in 1 .. n : f[i] = Step(i, f[i - 1])
  BY <1>1, <1>4 DEF Body
<1>6. f = Kept(granted, series)
  BY Zenon DEF Kept, f, Body, Step
<1> QED  BY <1>5, <1>6 DEF Step

\* A step that leaves the resources alone.
CalmStep == AccessInv /\ AccessInv' /\ cr' = cr /\ Next

\* No List of the resource is under way that is older than its last edit.
ListIsFresh(k) == items # None => \A item \in items : item.key = k => item.spec = cr[k]

\* Nor does the tenant have older rules.
RulesAreFresh(k) ==
    ListIsFresh(k) /\ (tenants[k] = None \/ tenants[k] = ConvertToTenantInfo(cr[k]))

\* So far, the answer is what the resource allows.
AnswerIsFresh(k) == id = k => answer = Kept(Granted(cr[k]), results)[filtered]

\* Fresh Lists and rules stay fresh, and a listed resource comes to have fresh rules.
LEMMA FreshStep ==
    ASSUME NEW k \in Keys, cr[k] # None, [CalmStep]_vars, ListIsFresh(k)
    PROVE  /\ ListIsFresh(k)'
           /\ RulesAreFresh(k) => RulesAreFresh(k)'
           /\ Listed(k) => Listed(k)' \/ RulesAreFresh(k)'
<1> USE DEF ListIsFresh, RulesAreFresh, Listed
<1>1. CASE UNCHANGED tenantVars
  BY <1>1 DEF tenantVars
<1>2. CASE Tick \/ ListFails
  BY <1>2 DEF Tick, ListFails
<1>3. CASE List
  <2>1. \A item \in items' : item.spec = cr[item.key]
    BY <1>3 DEF List
  <2>2. UNCHANGED <<cr, tenants>> /\ items = None
    BY <1>3 DEF List
  <2> QED  BY <2>1, <2>2
<1>4. CASE NamespaceDone
  BY <1>4 DEF NamespaceDone
<1>5. ASSUME items # None, NEW item \in items, ProcessTenantUpdate(item), CalmStep
      PROVE  /\ ListIsFresh(k)'
             /\ RulesAreFresh(k) => RulesAreFresh(k)'
             /\ Listed(k) => Listed(k)' \/ RulesAreFresh(k)'
  <2>1. /\ UNCHANGED cr /\ items' = items \ {item}
        /\ tenants' = [tenants EXCEPT ![item.key] = ConvertToTenantInfo(item.spec)]
    BY <1>5 DEF ProcessTenantUpdate
  <2>2. tenants \in [Keys -> {ConvertToTenantInfo(spec) : spec \in AllSpecs} \cup {None}]
    BY <1>5 DEF CalmStep, AccessInv, TypeOK, TenantsTypeOK
  <2>3. ListIsFresh(k)'
    BY <1>5, <2>1
  <2>4. CASE item.key = k
    <3>1. tenants'[k] = ConvertToTenantInfo(cr[k])
      BY <1>5, <2>1, <2>2, <2>4
    <3> QED  BY <2>1, <2>3, <3>1
  <2>5. CASE item.key # k
    <3>1. tenants'[k] = tenants[k]
      BY <2>1, <2>2, <2>5
    <3>2. items' # None /\ Listed(k) => Listed(k)'
      BY <2>1, <2>5
    <3>3. items' # None
      <4>1. items \in SUBSET [key : Keys, spec : AllSpecs]
        BY <1>5 DEF CalmStep, AccessInv, TypeOK, TenantsTypeOK
      <4>2. items' \in SUBSET [key : Keys, spec : AllSpecs]
        BY <2>1, <4>1
      <4> QED  BY <4>2, TenantsAssumption
    <3> QED  BY <2>1, <2>3, <3>1, <3>2, <3>3
  <2> QED  BY <2>4, <2>5
<1>6. CASE Restart
  BY <1>6 DEF Restart
<1>7. CASE CalmStep
  <2>1. ASSUME NEW j \in Keys PROVE ~EditMetricAccess(j)
    BY <1>7 DEF CalmStep, EditMetricAccess, AccessInv, TypeOK, TenantsTypeOK
  <2> QED
    BY <1>1, <1>2, <1>3, <1>4, <1>5, <1>6, <1>7, <2>1
    DEF CalmStep, Next, ManagerNext, Handle, Refuse, ProxyToOneTarget, QueryAllTargets, TargetAnswers,
        TargetFails, FetchDone, FilterNext, FilterDone, Respond, EditDuringRequest, RestartProcess
<1> QED  BY <1>1, <1>7 DEF vars

\* With fresh rules the answer stays fresh.
LEMMA AnswerStep ==
    ASSUME NEW k \in Keys, cr[k] # None, [CalmStep]_vars, RulesAreFresh(k), AnswerIsFresh(k)
    PROVE  AnswerIsFresh(k)'
<1> USE DEF AnswerIsFresh
<1>1. CASE UNCHANGED <<cr, id, results, filtered, answer>>
  BY <1>1
<1>2. CASE CalmStep /\ filtered' = 0 /\ answer' = <<>>
  <2>1. results' \in Seq(Series)
    BY <1>2 DEF CalmStep, AccessInv, TypeOK
  <2>2. Kept(Granted(cr'[k]), results')[0] = <<>>
    BY <2>1, KeptIs
  <2> QED  BY <1>2, <2>2
<1>3. CASE CalmStep /\ id' = None
  BY <1>3, HandlerAssumption
<1>4. CASE CalmStep /\ FilterNext
  <2> SUFFICES ASSUME id = k PROVE answer' = Kept(Granted(cr[k]), results)[filtered']
    BY <1>4 DEF CalmStep, FilterNext
  <2> DEFINE n == filtered + 1
  <2>1. /\ filtered' = n /\ n \in 1 .. Len(results) /\ n - 1 = filtered
        /\ results \in Seq(Series) /\ answer = Kept(Granted(cr[k]), results)[filtered]
    BY <1>4 DEF FilterNext, CalmStep, AccessInv, TypeOK
  <2>2. cr[k] \in AllSpecs
    BY <1>4 DEF CalmStep, AccessInv, TypeOK, TenantsTypeOK
  <2>3. tenants[k] = ConvertToTenantInfo(cr[k])
    BY <1>4, AccessIsFromSpecs DEF CalmStep, RulesAreFresh
  <2>4. tenants[k] # None
    BY <1>4, AccessIsFromSpecs DEF CalmStep
  <2>5. ValidateAccess(k, results[n]) <=> results[n] \in Granted(cr[k])
    BY <2>1, <2>2, <2>3, <2>4, ConvertReads, GrantedReads DEF ValidateAccess
  <2>6. answer' = IF ValidateAccess(k, results[n]) THEN Append(answer, results[n]) ELSE answer
    BY <1>4, <2>1 DEF FilterNext
  <2>7. Kept(Granted(cr[k]), results)[n] = IF results[n] \in Granted(cr[k])
                                  THEN Append(Kept(Granted(cr[k]), results)[n - 1], results[n])
                                  ELSE Kept(Granted(cr[k]), results)[n - 1]
    BY <2>1, KeptIs
  <2> QED  BY <2>1, <2>5, <2>6, <2>7
<1>5. CASE CalmStep
  <2>1. at = "idle" \/ at = "fetching" => filtered = 0 /\ answer = <<>>
    BY <1>5 DEF CalmStep, AccessInv, Resets
  <2> QED
    BY <1>1, <1>2, <1>3, <1>4, <1>5, <2>1
    DEF CalmStep, Next, Handle, Refuse, ProxyToOneTarget, QueryAllTargets, Unanswered, TargetAnswers,
        TargetFails, FetchDone, FilterDone, Respond, NoRequest, EditDuringRequest, RestartProcess,
        requestVars
<1> QED  BY <1>1, <1>5 DEF vars, tenantVars, requestVars

\* A complete fresh answer is what the resource grants of all the results.
AnswerFollows(k) ==
    at = "answered" /\ id = k /\ cr[k] # None =>
        answer = Kept(Granted(cr[k]), results)[Len(results)]

(***************************************************************************)
(* Convergence: if Lists, requests and the resources of known tenants keep *)
(* coming, then once the resources stay as they are, every answer is in    *)
(* the end exactly what the tenant's resource grants of what the targets   *)
(* answered, in its order: what it allows, if its patterns are Plain, and  *)
(* what it is read as allowing otherwise.                                  *)
(***************************************************************************)
THEOREM SettledRulesAreFollowed == Spec /\ RulesKeepComing => AnswersFollowResources
<1> DEFINE Comes(k) == <>[](cr[k] # None) => []<>(tenants[k] = None \/ Listed(k))
<1>1. ASSUME NEW k \in Keys
      PROVE  Spec /\ []<>(at = "idle") /\ []<>(items = None) /\ Comes(k) /\ <>[][FALSE]_cr
             => <>[]AnswerFollows(k)
  <2>1. Spec => []AccessInv
    BY AccessInvariant
  <2>2. AccessInv /\ AccessInv' /\ [FALSE]_cr /\ [Next]_vars => [CalmStep]_vars
    BY DEF CalmStep
  <2>3. [CalmStep]_vars => (cr[k] = None <=> (cr[k] = None)')
    BY DEF CalmStep, vars, tenantVars
  <2>4. Spec /\ <>[][FALSE]_cr =>
           <>([][CalmStep]_vars /\ []AccessInv /\ ([](cr[k] = None) \/ [](~(cr[k] = None))))
    BY <2>1, <2>2, <2>3, PTL DEF Spec
  <2>5. /\ ~(cr[k] = None) /\ [CalmStep]_vars /\ ListIsFresh(k) =>
              /\ ListIsFresh(k)'
              /\ RulesAreFresh(k) => RulesAreFresh(k)'
              /\ Listed(k) => Listed(k)' \/ RulesAreFresh(k)'
        /\ items = None => ListIsFresh(k) /\ ~Listed(k)
        /\ ListIsFresh(k) /\ tenants[k] = None => RulesAreFresh(k)
    BY FreshStep DEF ListIsFresh, Listed, RulesAreFresh
  <2>6. /\ ~(cr[k] = None) /\ [CalmStep]_vars /\ RulesAreFresh(k) /\ AnswerIsFresh(k) => AnswerIsFresh(k)'
        /\ AccessInv /\ at = "idle" => AnswerIsFresh(k)
        /\ AccessInv /\ AnswerIsFresh(k) => AnswerFollows(k)
        /\ cr[k] = None => AnswerFollows(k)
    <3>1. AccessInv /\ at = "idle" => AnswerIsFresh(k)
      BY HandlerAssumption DEF AccessInv, Resets, AnswerIsFresh
    <3>2. AccessInv /\ AnswerIsFresh(k) => AnswerFollows(k)
      BY DEF AccessInv, FilteredIsComplete, AnswerIsFresh, AnswerFollows
    <3> QED  BY <3>1, <3>2, AnswerStep DEF AnswerFollows
  <2>7. /\ [][CalmStep]_vars /\ [](~(cr[k] = None)) /\ []<>(items = None)
        => <>([][CalmStep]_vars /\ [](~(cr[k] = None)) /\ []ListIsFresh(k))
    BY <2>5, PTL
  <2>8. /\ [][CalmStep]_vars /\ [](~(cr[k] = None)) /\ []ListIsFresh(k)
        /\ []<>(items = None) /\ []<>(tenants[k] = None \/ Listed(k))
        => <>([][CalmStep]_vars /\ [](~(cr[k] = None)) /\ []RulesAreFresh(k))
    BY <2>5, PTL
  <2>9. /\ [][CalmStep]_vars /\ []AccessInv /\ [](~(cr[k] = None)) /\ []RulesAreFresh(k)
        /\ []<>(at = "idle")
        => <>[]AnswerFollows(k)
    BY <2>6, PTL
  <2>10. []AccessInv /\ [](cr[k] = None) => []AnswerFollows(k)
    BY <2>6, PTL
  <2>11. cr[k] # None <=> ~(cr[k] = None)
    OBVIOUS
  <2> QED  BY <2>1, <2>4, <2>7, <2>8, <2>9, <2>10, <2>11, PTL DEF Comes
<1>2. Spec /\ RulesKeepComing /\ <>[][FALSE]_cr => \A k \in Keys : <>[]AnswerFollows(k)
  BY <1>1 DEF RulesKeepComing
<1> QED  BY <1>2 DEF AnswersFollowResources, AnswerFollows
=============================================================================
