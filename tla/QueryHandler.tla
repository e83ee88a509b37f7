----------------------------- MODULE QueryHandler -----------------------------
(***************************************************************************)
(* The query path (src/internal/proxy/handler.go) over the tenant manager: *)
(* a request finds its tenant, goes to every target one after the other,   *)
(* and what the targets answered is filtered, one series at a time, while  *)
(* the manager goes on replacing the rules it is filtered by.              *)
(*                                                                         *)
(* One request at a time is modelled: requests write nothing another one   *)
(* reads, so that each meets the manager alone.                            *)
(***************************************************************************)
EXTENDS Tenants

CONSTANTS
    AuthConfigured, \* config.Auth is set
    Internal,       \* the ID "internal-collection"
    Merged,         \* the IDs "merged/<namespace>"
    Answers,        \* the sequences of series a target can answer a query with
    MaxTargets      \* bound: targets the load balancer serves

ASSUME HandlerAssumption ==
    /\ AuthConfigured \in BOOLEAN
    /\ Internal \notin Keys /\ Merged \notin Keys /\ None \notin Keys
    /\ None \notin Namespaces
    /\ Answers \subseteq Seq(Series)
    /\ MaxTargets \in Nat

VARIABLES
    at,         \* "idle", "fetching", "filtering", "answered", "proxied", "refused"
    id,         \* tenantInfo.ID
    left,       \* the targets still to be queried
    successes,  \* successCount
    results,    \* the series of the successful responses
    filtered,   \* how many of them have been filtered
    answer,     \* allResults
    \* History: of each tenant the request's namespace had when it arrived, the
    specs       \* specifications its resource had since the List behind the rules

requestVars == <<at, id, left, successes, results, filtered, answer, specs>>
vars == <<tenantVars, requestVars>>

-----------------------------------------------------------------------------
(* The tenant of a request.                                                *)

Requests == [internal : BOOLEAN, header : Namespaces \cup {None},
             parameter : Namespaces \cup {None}, query : BOOLEAN]

\* The namespace a request speaks for.  The parameter counts where no
\* authentication is configured: extractTenantFromAuth fails without header.
NamespaceOfRequest(r) ==
    IF r.header # None THEN r.header
    ELSE IF AuthConfigured THEN None ELSE r.parameter

\* The ID of the tenant, or None: a namespace's only tenant is itself, several
\* are a tenant that is not among the manager's.
MergedTenantForNamespace(ns) ==
    LET known == GetTenantsByNamespace(ns)
    IN  CASE known = {} -> None
          [] \E k \in known : known = {k} -> CHOOSE k \in known : TRUE
          [] OTHER -> Merged

ExtractTenantInfo(r) ==
    IF r.internal THEN Internal ELSE MergedTenantForNamespace(NamespaceOfRequest(r))

-----------------------------------------------------------------------------
HandlerInit ==
    /\ at = "idle"
    /\ id = None
    /\ left = 0
    /\ successes = 0
    /\ results = <<>>
    /\ filtered = 0
    /\ answer = <<>>
    /\ specs = [k \in Keys |-> {}]

Init == TenantsInit /\ HandlerInit

\* The tenants of the request's namespace with the specifications behind them.
SpecsOfRequest(r) ==
    LET known == IF r.internal THEN {} ELSE GetTenantsByNamespace(NamespaceOfRequest(r))
    IN  [k \in Keys |-> IF k \in known THEN sinceRules[k] ELSE {}]

Unanswered == UNCHANGED <<left, successes, results, filtered, answer>>

\* handlePrometheusAPI: a request without tenant, or without any target.
Refuse(r, n) ==
    /\ at = "idle"
    /\ ExtractTenantInfo(r) = None \/ n = 0
    /\ at' = "refused"
    /\ Unanswered
    /\ UNCHANGED <<id, specs, tenantVars>>

\* Any other endpoint than a query goes to one healthy target, as it is, or is
\* refused where there is none.
ProxyToOneTarget(r, n) ==
    /\ at = "idle"
    /\ ExtractTenantInfo(r) # None /\ n > 0 /\ ~r.query
    /\ at' \in {"proxied", "refused"}
    /\ Unanswered
    /\ UNCHANGED <<id, specs, tenantVars>>

\* GetAllTargets gives every target, healthy or not.
QueryAllTargets(r, n) ==
    /\ at = "idle"
    /\ ExtractTenantInfo(r) # None /\ n > 0 /\ r.query
    /\ at' = "fetching"
    /\ id' = ExtractTenantInfo(r)
    /\ left' = n
    /\ specs' = SpecsOfRequest(r)
    /\ UNCHANGED <<successes, results, filtered, answer, tenantVars>>

TargetAnswers ==
    /\ at = "fetching"
    /\ left > 0
    /\ left' = left - 1
    /\ successes' = successes + 1
    /\ \E response \in Answers : results' = results \o response
    /\ UNCHANGED <<at, id, filtered, answer, specs, tenantVars>>

\* An error, a timeout, a body that does not parse or that reports no success:
\* the target is skipped.
TargetFails ==
    /\ at = "fetching"
    /\ left > 0
    /\ left' = left - 1
    /\ UNCHANGED <<at, id, successes, results, filtered, answer, specs, tenantVars>>

FetchDone ==
    /\ at = "fetching"
    /\ left = 0
    /\ at' = IF successes = 0 THEN "refused" ELSE "filtering"
    /\ UNCHANGED <<id, left, successes, results, filtered, answer, specs, tenantVars>>

\* Each series asks the manager again, by the tenant's ID.
FilterNext ==
    /\ at = "filtering"
    /\ filtered < Len(results)
    /\ filtered' = filtered + 1
    /\ answer' = IF ValidateAccess(id, results[filtered'])
                 THEN Append(answer, results[filtered']) ELSE answer
    /\ UNCHANGED <<at, id, left, successes, results, specs, tenantVars>>

FilterDone ==
    /\ at = "filtering"
    /\ filtered = Len(results)
    /\ at' = "answered"
    /\ UNCHANGED <<id, left, successes, results, filtered, answer, specs, tenantVars>>

NoRequest ==
    /\ at' = "idle"
    /\ id' = None
    /\ left' = 0
    /\ successes' = 0
    /\ results' = <<>>
    /\ filtered' = 0
    /\ answer' = <<>>
    /\ specs' = [k \in Keys |-> {}]

\* The response is on its way; the next request may come.
Respond ==
    /\ at \in {"answered", "proxied", "refused"}
    /\ NoRequest
    /\ UNCHANGED tenantVars

\* An edit is also one of the specifications the request may be answered by.
EditDuringRequest(k) ==
    /\ EditMetricAccess(k)
    /\ specs' = [specs EXCEPT ![k] = IF @ = {} THEN {} ELSE @ \cup {cr'[k]}]
    /\ UNCHANGED <<at, id, left, successes, results, filtered, answer>>

RestartProcess == Restart /\ NoRequest

Handle ==
    \/ TargetAnswers \/ TargetFails \/ FetchDone
    \/ FilterNext \/ FilterDone \/ Respond

Next ==
    \/ ManagerNext /\ UNCHANGED requestVars
    \/ \E r \in Requests, n \in 0 .. MaxTargets :
          Refuse(r, n) \/ ProxyToOneTarget(r, n) \/ QueryAllTargets(r, n)
    \/ Handle
    \/ \E k \in Keys : EditDuringRequest(k)
    \/ RestartProcess

Spec == Init /\ [][Next]_vars

(***************************************************************************)
(* Every query to a target ends within the client's 30 s.  Requests need   *)
(* not come, resources need not change, targets need not answer.           *)
(***************************************************************************)
FairSpec == Spec /\ ManagerFairness /\ WF_vars(Handle)

-----------------------------------------------------------------------------
TypeOK ==
    /\ TenantsTypeOK
    /\ at \in {"idle", "fetching", "filtering", "answered", "proxied", "refused"}
    /\ id \in Keys \cup {None, Internal, Merged}
    /\ left \in 0 .. MaxTargets
    /\ successes \in 0 .. MaxTargets - left
    /\ results \in Seq(Series)
    /\ filtered \in 0 .. Len(results)
    /\ answer \in Seq(Series)
    /\ specs \in [Keys -> SUBSET (AllSpecs \cup {None})]

InSeq(s, list) == \E i \in DOMAIN list : list[i] = s

\* The pattern accepts the series, if its text reads as no more than it
\* accepts; otherwise it reads as accepting it.
LetsThrough(p, s) == IF Narrow(p) THEN Accepts(p, s) ELSE Reads(p, s)

(***************************************************************************)
(* No leak by staleness: a series is in an answer only if some resource of *)
(* the request's namespace allowed it, or was read as allowing it, since   *)
(* the List behind the rules that were in force when the request arrived.  *)
(* What a resource stopped allowing before that List is never served       *)
(* again, although the rules are replaced one tenant at a time while the   *)
(* answer is being filtered; and only a pattern that is not Narrow is read *)
(* as allowing more than it says.                                          *)
(***************************************************************************)
AnswerIsSound ==
    \A s \in Series : InSeq(s, answer) =>
        \E k \in Keys : \E spec \in specs[k] \ {None} :
            /\ \E p \in spec.metrics : LetsThrough(p, s)
            /\ Carries(s, spec.labelSelectors)

\* What every specification of k's resource during the request allows, by a
\* pattern that is read as it is written.
AlwaysAllowed(k, s) ==
    /\ specs[k] # {}
    /\ \A spec \in specs[k] \ {None} :
          /\ \E p \in spec.metrics : Plain(p) /\ Accepts(p, s)
          /\ Carries(s, spec.labelSelectors)

(***************************************************************************)
(* Nothing is lost: with one tenant in the namespace, a series that some   *)
(* target answered and that the resource allowed all along is in the       *)
(* answer, although other patterns may not compile or be read as something *)
(* else, other targets fail, and the rules are replaced meanwhile.         *)
(***************************************************************************)
AnswerIsComplete ==
    at = "answered" /\ id \in Keys =>
        \A i \in DOMAIN results : AlwaysAllowed(id, results[i]) => InSeq(results[i], answer)

(***************************************************************************)
(* The same for every tenant of the namespace: "multiple CRs per namespace *)
(* ... each contribute their metric patterns" (handler.go:649).  Refuted:  *)
(* the merged tenant's ID is unknown to ValidateAccess.                    *)
(***************************************************************************)
EveryResourceContributes ==
    at = "answered" =>
        \A k \in Keys, i \in DOMAIN results :
            AlwaysAllowed(k, results[i]) => InSeq(results[i], answer)

\* What the resource allows, if each of its patterns is read as it is written;
\* otherwise what it is read as allowing.
Granted(spec) ==
    {s \in Series : IF \A p \in spec.metrics : Plain(p) THEN Allows(spec, s)
                                                       ELSE ReadsAsAllowing(spec, s)}

\* For each i, which of the first i series are granted, in their order.
Kept(granted, series) ==
    LET kept[i \in 0 .. Len(series)] ==
            IF i = 0 THEN <<>>
            ELSE IF series[i] \in granted THEN Append(kept[i - 1], series[i]) ELSE kept[i - 1]
    IN  kept

(***************************************************************************)
(* Once the resources stay as they are, the answers are what they allow    *)
(* (what they are read as allowing): each namespace is listed in the end   *)
(* whichever Lists fail, known tenants are updated, and restarts only      *)
(* delay it.                                                               *)
(***************************************************************************)
AnswersFollowResources ==
    <>[][FALSE]_cr =>
        \A k \in Keys :
            <>[](at = "answered" /\ id = k /\ cr[k] # None =>
                    answer = Kept(Granted(cr[k]), results)[Len(results)])

\* The resource is among those a List returned and the manager has yet to process.
Listed(k) == items # None /\ \E item \in items : item.key = k

(***************************************************************************)
(* What AnswersFollowResources rests on: no request keeps the handler for  *)
(* ever, the manager comes to the end of every List, and the resource of   *)
(* every tenant it knows is listed again and again, whatever other Lists   *)
(* fail and however often the process is restarted.                        *)
(***************************************************************************)
RulesKeepComing ==
    /\ []<>(at = "idle")
    /\ []<>(items = None)
    /\ \A k \in Keys : <>[](cr[k] # None) => []<>(tenants[k] = None \/ Listed(k))
=============================================================================
