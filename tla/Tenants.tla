------------------------------- MODULE Tenants -------------------------------
(***************************************************************************)
(* The tenant manager (src/internal/tenant/manager.go): it lists the       *)
(* MetricAccess resources every 30 s, one List per watched namespace,      *)
(* turns each resource into a tenant with its access rules, and says       *)
(* whether a tenant may see a series.                                      *)
(*                                                                         *)
(* A tenant's ID is its resource's namespace/name, here the key.  The      *)
(* manager adds and updates tenants and never removes one.                 *)
(***************************************************************************)
EXTENDS Naturals, Sequences, Functions

CONSTANTS
    Keys,           \* the namespace/name of the resources there can be
    Namespaces,
    NamespaceOf,    \* key -> its namespace
    WatchAll,       \* config.WatchAllNamespaces
    WatchNamespaces,\* config.WatchNamespaces, in its order
    Specs,          \* key -> the specifications its resource can have
    Series,         \* label -> value functions: the series there can be
    NoName,         \* the empty text: the name of a series without one, and of a
                    \* selector without one, and the value of a lacking label
    None            \* no resource, no tenant, no listing; a text no series has

AllSpecs == UNION {Specs[k] : k \in Keys}

(***************************************************************************)
(* A pattern as it is written, by what it means and by what the parser     *)
(* sees of its text.  A metric name or a regular expression is the set of  *)
(* metric names it accepts (those of MatchString, which does not anchor);  *)
(* "invalid" is an expression that does not compile.  Of either, "before"  *)
(* is the text before its first brace where it holds both braces, or None. *)
(* A selector is a name and a sequence of matchers.  A matcher has the     *)
(* values that it names or that its expression matches, the text "first"   *)
(* of its value up to the first comma, and "more": what the pieces of the  *)
(* value behind a comma read as, those that hold an "=".                   *)
(***************************************************************************)
IsPattern(p) ==
    \/ p.form \in {"names", "invalid"}
    \/ /\ p.form = "selector"
       /\ p.matchers \in Seq(Range(p.matchers))
       /\ \A m \in Range(p.matchers) : m.op \in {"=", "!=", "=~", "!~"} /\ m.label # None

VARIABLES
    cr,         \* key -> the specification of its MetricAccess resource, or None
    tenants,    \* m.tenants: key -> the rules of the tenant, or None
    scope,      \* the List that is next or under way; 0 between two passes
    items,      \* the listed resources still to be processed, None before the List
    \* History: the specifications a resource has had since the List that ...
    sinceList,  \* ... returned it last
    sinceRules  \* ... its tenant's rules come from

tenantVars == <<cr, tenants, scope, items, sinceList, sinceRules>>

-----------------------------------------------------------------------------
(* Patterns and rules.                                                     *)

\* The labels of both, with the values of the first where both have them.
Over(f, g) == [l \in DOMAIN f \cup DOMAIN g |-> IF l \in DOMAIN f THEN f[l] ELSE g[l]]

(***************************************************************************)
(* The labels a matcher sets: its text is cut at every comma, a quoted one *)
(* too, and each piece at its first "="; a piece without "=" is dropped.   *)
(* Of label=~"re" the value is then ~"re, of label!="v" the label label!:  *)
(* texts that no series has, here None.                                    *)
(***************************************************************************)
LabelsSet(m) ==
    LET own == CASE m.op = "="  -> [l \in {m.label} |-> m.first]
                 [] m.op = "=~" -> [l \in {m.label} |-> None]
                 [] m.op = "!=" -> [l \in {None} |-> None]
                 [] m.op = "!~" -> <<>>
    IN  Over(m.more, own)

\* The last piece that sets a label wins.
ParsePromQLSelector(matchers) ==
    LET Sets(i, l) == l \in DOMAIN LabelsSet(matchers[i])
        LastSetting(l) == CHOOSE i \in DOMAIN matchers :
                       Sets(i, l) /\ \A j \in DOMAIN matchers : Sets(j, l) => j <= i
    IN  [l \in UNION {DOMAIN LabelsSet(m) : m \in Range(matchers)} |->
            LabelsSet(matchers[LastSetting(l)])[l]]

ParseMetricWithLabels(name, matchers) ==
    IF name = NoName THEN ParsePromQLSelector(matchers)
                     ELSE Over([l \in {"__name__"} |-> name], ParsePromQLSelector(matchers))

\* Whatever holds both braces is taken for a name with labels, a regular
\* expression with a repetition too: there is no "=" in it.
ParseMetricPattern(p) ==
    IF p.form = "selector"
    THEN [type |-> "promql", selector |-> ParseMetricWithLabels(p.name, p.matchers)]
    ELSE IF p.before # None
    THEN [type |-> "promql", selector |-> ParseMetricWithLabels(p.before, <<>>)]
    ELSE [type |-> "names", names |-> p.names]

Parses(p) == p.form = "invalid" => p.before # None

\* A pattern that cannot be parsed is logged and dropped, the others stay.
ParseMetricPatterns(metrics) ==
    {ParseMetricPattern(p) : p \in {p \in metrics : Parses(p)}}

\* Mutant: one pattern that cannot be parsed leaves the resource without any.
ConvertAllOrNothing(spec) ==
    [patterns |-> IF \E p \in spec.metrics : ~Parses(p)
                  THEN {} ELSE ParseMetricPatterns(spec.metrics),
     selectors |-> spec.labelSelectors]

ConvertToTenantInfo(spec) ==
    [patterns |-> ParseMetricPatterns(spec.metrics), selectors |-> spec.labelSelectors]

Value(s, l) == IF l \in DOMAIN s THEN s[l] ELSE NoName

MetricName(s) == Value(s, "__name__")

\* The series has every label, with the value given.
Carries(s, labels) == \A l \in DOMAIN labels : l \in DOMAIN s /\ s[l] = labels[l]

MatchesPattern(pattern, s) ==
    IF pattern.type = "promql"
    THEN \A l \in DOMAIN pattern.selector :
            IF l = "__name__" THEN MetricName(s) = pattern.selector[l]
                              ELSE l \in DOMAIN s /\ s[l] = pattern.selector[l]
    ELSE MetricName(s) \in pattern.names

ValidateAccess(id, s) ==
    /\ id \in Keys
    /\ tenants[id] # None
    /\ \E pattern \in tenants[id].patterns : MatchesPattern(pattern, s)
    /\ Carries(s, tenants[id].selectors)

GetTenantsByNamespace(ns) == {k \in Keys : tenants[k] # None /\ NamespaceOf[k] = ns}

\* What each List of a pass covers.
GetWatchNamespaces ==
    IF WatchAll \/ WatchNamespaces = <<>>
    THEN <<Namespaces>>
    ELSE [i \in DOMAIN WatchNamespaces |-> {WatchNamespaces[i]}]

ASSUME TenantsAssumption ==
    /\ \A k \in Keys : NamespaceOf[k] \in Namespaces
    /\ WatchNamespaces \in Seq(Namespaces)
    /\ \A listing \in SUBSET [key : Keys, spec : AllSpecs] : listing # None
    /\ None \notin {NoName, "__name__"}
    /\ \A s \in Series : None \notin DOMAIN s \cup Range(s)
    /\ \A spec \in AllSpecs :
          /\ \A p \in spec.metrics : IsPattern(p)
          /\ None \notin {spec, ConvertToTenantInfo(spec)}

-----------------------------------------------------------------------------
(* The manager: Start and loadExistingTenants.                             *)

\* The pass of Start comes first, before any tick.
TenantsInit ==
    /\ cr \in {c \in [Keys -> AllSpecs \cup {None}] :
                  \A k \in Keys : c[k] \in Specs[k] \cup {None}}
    /\ tenants = [k \in Keys |-> None]
    /\ scope = 1
    /\ items = None
    /\ sinceList = [k \in Keys |-> {cr[k]}]
    /\ sinceRules = sinceList

Tick ==
    /\ scope = 0
    /\ scope' = 1
    /\ UNCHANGED <<cr, tenants, items, sinceList, sinceRules>>

\* Mutant: one namespace too many.
NextScopeTooFar == IF scope <= Len(GetWatchNamespaces) THEN scope + 1 ELSE 0

NextScope == IF scope < Len(GetWatchNamespaces) THEN scope + 1 ELSE 0

List ==
    /\ scope > 0
    /\ items = None
    /\ LET listed == {k \in Keys : cr[k] # None /\ NamespaceOf[k] \in GetWatchNamespaces[scope]}
       IN  /\ items' = {[key |-> k, spec |-> cr[k]] : k \in listed}
           /\ sinceList' = [k \in Keys |-> IF k \in listed THEN {cr[k]} ELSE sinceList[k]]
    /\ UNCHANGED <<cr, tenants, scope, sinceRules>>

\* A List that fails is logged; the pass goes on with the next namespace.
ListFails ==
    /\ scope > 0
    /\ items = None
    /\ scope' = NextScope
    /\ UNCHANGED <<cr, tenants, items, sinceList, sinceRules>>

\* Mutant: a tenant that is known is not updated.
ProcessUnknownTenant(item) ==
    /\ tenants' = [tenants EXCEPT ![item.key] = IF @ = None THEN ConvertToTenantInfo(item.spec)
                                                            ELSE @]
    /\ items' = items \ {item}
    /\ sinceRules' = [sinceRules EXCEPT ![item.key] = sinceList[item.key]]
    /\ UNCHANGED <<cr, scope, sinceList>>

\* Under m.mu, which is released between two resources.
ProcessTenantUpdate(item) ==
    /\ tenants' = [tenants EXCEPT ![item.key] = ConvertToTenantInfo(item.spec)]
    /\ items' = items \ {item}
    /\ sinceRules' = [sinceRules EXCEPT ![item.key] = sinceList[item.key]]
    /\ UNCHANGED <<cr, scope, sinceList>>

\* Mutant: the last namespace is never reached.
SkipLastNamespace ==
    /\ items = {}
    /\ items' = None
    /\ scope' = IF scope + 1 < Len(GetWatchNamespaces) THEN scope + 1 ELSE 0
    /\ UNCHANGED <<cr, tenants, sinceList, sinceRules>>

NamespaceDone ==
    /\ items = {}
    /\ items' = None
    /\ scope' = NextScope
    /\ UNCHANGED <<cr, tenants, sinceList, sinceRules>>

\* A resource is created, edited or deleted.
EditMetricAccess(k) ==
    /\ \E spec \in Specs[k] \cup {None} : spec # cr[k] /\ cr' = [cr EXCEPT ![k] = spec]
    /\ sinceList' = [sinceList EXCEPT ![k] = @ \cup {cr'[k]}]
    /\ sinceRules' = [sinceRules EXCEPT ![k] = @ \cup {cr'[k]}]
    /\ UNCHANGED <<tenants, scope, items>>

\* The process ends and another one starts.
Restart ==
    /\ tenants' = [k \in Keys |-> None]
    /\ scope' = 1
    /\ items' = None
    /\ sinceList' = [k \in Keys |-> {cr[k]}]
    /\ sinceRules' = sinceList'
    /\ UNCHANGED cr

ManagerNext ==
    \/ Tick \/ List \/ ListFails \/ NamespaceDone
    \/ items # None /\ \E item \in items : ProcessTenantUpdate(item)

(***************************************************************************)
(* The manager's goroutine goes on, and each namespace's List is tried     *)
(* again on every tick until, now and then, one succeeds.                  *)
(***************************************************************************)
ManagerFairness ==
    /\ WF_tenantVars(ManagerNext)
    /\ \A n \in 1 .. Len(GetWatchNamespaces) : SF_tenantVars(scope = n /\ List)

-----------------------------------------------------------------------------
(* What a resource says: the meaning of its patterns as they are written,  *)
(* in PromQL, where a label that is lacking is one with the empty text.    *)

Accepts(p, s) ==
    \/ p.form = "names" /\ MetricName(s) \in p.names
    \/ /\ p.form = "selector"
       /\ p.name \in {NoName, MetricName(s)}
       /\ \A m \in Range(p.matchers) : Value(s, m.label) \in m.values <=> m.op \in {"=", "=~"}

Allows(spec, s) ==
    /\ \E p \in spec.metrics : Accepts(p, s)
    /\ Carries(s, spec.labelSelectors)

\* What the manager takes the pattern for.
Reads(p, s) == Parses(p) /\ MatchesPattern(ParseMetricPattern(p), s)

ReadsAsAllowing(spec, s) ==
    /\ \E p \in spec.metrics : Reads(p, s)
    /\ Carries(s, spec.labelSelectors)

(***************************************************************************)
(* The pattern's text does not read as more than it accepts: it is no      *)
(* regular expression cut at a brace, and a selector has no comma in a     *)
(* value, no label twice (nor a name and a matcher for it), and no matcher *)
(* that is dropped.                                                        *)
(***************************************************************************)
Narrow(p) ==
    IF p.form = "selector"
    THEN /\ \A m \in Range(p.matchers) :
               /\ m.op # "!~" /\ m.more = <<>>
               /\ m.op = "=" => m.first \in m.values
               /\ m.label = "__name__" => p.name = NoName
         /\ \A i, j \in DOMAIN p.matchers :
               p.matchers[i].label = p.matchers[j].label => i = j
    ELSE p.before = None

\* Nor as less: its matchers are equalities with values that are not empty.
Plain(p) ==
    /\ Narrow(p)
    /\ p.form = "selector" =>
          \A m \in Range(p.matchers) : m.op = "=" /\ m.values = {m.first} /\ m.first # NoName

TenantsTypeOK ==
    /\ cr \in [Keys -> AllSpecs \cup {None}]
    /\ tenants \in [Keys -> {ConvertToTenantInfo(spec) : spec \in AllSpecs} \cup {None}]
    /\ scope \in 0 .. Len(GetWatchNamespaces)
    /\ items \in (SUBSET [key : Keys, spec : AllSpecs]) \cup {None}
    /\ sinceList \in [Keys -> SUBSET (AllSpecs \cup {None})]
    /\ sinceRules \in [Keys -> SUBSET (AllSpecs \cup {None})]
=============================================================================
