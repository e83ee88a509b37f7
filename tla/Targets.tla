------------------------------- MODULE Targets -------------------------------
(***************************************************************************)
(* Who the backends are and which of them are healthy: service discovery   *)
(* (src/internal/discovery/kubernetes.go) publishes a list of targets, the *)
(* load balancer of the query path receives it over a channel of capacity  *)
(* one (src/internal/proxy/loadbalancer.go), and the health checker marks  *)
(* its targets (src/internal/proxy/health.go).                             *)
(*                                                                         *)
(* A published list is one array that discovery, the channel and the       *)
(* balancer share: a mark the balancer makes under its own lock shows in   *)
(* what GetTargets hands the remote-write collectors, but only while the   *)
(* balancer holds the list discovery published last.                       *)
(***************************************************************************)
EXTENDS Naturals, FiniteSetsExt, SequencesExt

CONSTANTS
    Scopes,         \* what a pass lists, in its order: each configured resource type
                    \* in each configured namespace, [type, namespace]
    Listings,       \* scope -> the sequences of URLs its resources can give
    Flaky,          \* the URLs whose backends can fail
    None            \* no list

Urls == UNION {ToSet(l) : l \in UNION {Listings[t] : t \in ToSet(Scopes)}}

ASSUME TargetsAssumption ==
    /\ Scopes \in Seq(ToSet(Scopes)) /\ Scopes # <<>>
    /\ \A t \in ToSet(Scopes) : \A l \in Listings[t] : l \in Seq(Urls) /\ None # l
    /\ Flaky \subseteq Urls

Lists == Seq([url : Urls, healthy : BOOLEAN])

ASSUME NoneAssumption == None \notin Lists

VARIABLES
    cluster,    \* scope -> the URLs its resources give now
    up,         \* URL -> the backend answers its health check
    \* kubernetesDiscovery
    next,       \* the scope discover lists next
    found,      \* the URLs it found so far, those of
    complete,   \* the types it has listed in every namespace among them
    publishing, \* updateTargets has set targets, subscribers are not notified yet
    targets,    \* kd.targets
    \* the subscription
    subscriber, \* "none", "reading" (its goroutine's copy of targets), "sending", "sent"
    snapshot,   \* that copy, or None
    channel,    \* the list in the channel, or None
    \* the load balancer and its health checker
    served,     \* lb.targets
    shared,     \* which of "channel" and "served" hold the array of kd.targets
    checks      \* health checks under way

vars == <<cluster, up, next, found, complete, publishing, targets,
          subscriber, snapshot, channel, served, shared, checks>>

environment == <<cluster, up>>
pass == <<next, found, complete, publishing>>

\* What k Lists of a pass can have found: of each scope a listing or, where the
\* API server failed it or another List of the type, nothing.
Finds == [k \in 0 .. Len(Scopes) |->
             {FlattenSeq(l) : l \in {l \in [1 .. k -> UNION {Listings[t] \cup {<<>>} :
                                                          t \in ToSet(Scopes)}] :
                 \A i \in 1 .. k : l[i] \in Listings[Scopes[i]] \cup {<<>>}}}]

UrlsOf(list) == [i \in DOMAIN list |-> list[i].url]

\* The lists a pass can publish.
Published == {list \in Lists : UrlsOf(list) \in Finds[Len(Scopes)]}

(***************************************************************************)
(* Types; what a pass has found comes from the scopes it has listed, once  *)
(* each; and every list published, on its way or served is what one pass   *)
(* found, never a mix of two.                                              *)
(***************************************************************************)
TypeOK ==
    /\ \A t \in ToSet(Scopes) : cluster[t] \in Listings[t]
    /\ up \in [Urls -> BOOLEAN]
    /\ next \in 1 .. Len(Scopes) + 1
    /\ found \in Finds[next - 1]
    /\ complete \in Finds[next - 1]
    /\ publishing \in BOOLEAN
    /\ targets \in Published
    /\ subscriber \in {"none", "reading", "sending", "sent"}
    /\ snapshot \in Published \cup {None}
    /\ channel \in Published \cup {None}
    /\ served \in Published
    /\ shared \subseteq {"channel", "served"}
    /\ checks \subseteq [n : Nat, url : Urls, answer : {"asked", "up", "down"}]

Clusters == {c \in [ToSet(Scopes) -> UNION {Listings[t] : t \in ToSet(Scopes)}] :
                \A t \in ToSet(Scopes) : c[t] \in Listings[t]}

Init ==
    /\ cluster \in Clusters
    /\ up = [u \in Urls |-> TRUE]
    /\ next = 1
    /\ found = <<>>
    /\ complete = <<>>
    /\ publishing = FALSE
    /\ targets = <<>>
    /\ subscriber = "none"
    /\ snapshot = None
    /\ channel = None
    /\ served = <<>>
    /\ shared = {}
    /\ checks = {}

-----------------------------------------------------------------------------
(* discover: list each resource type, one namespace after the other, then  *)
(* publish what was found.                                                 *)

\* The first scope of the next resource type.
NextType(i) ==
    Min({j \in i + 1 .. Len(Scopes) + 1 : j <= Len(Scopes) => Scopes[j].type # Scopes[i].type})

\* One List of a resource type.
DiscoverInNamespace ==
    /\ next <= Len(Scopes)
    /\ found' = found \o cluster[Scopes[next]]
    /\ next' = next + 1
    /\ complete' = IF next' = NextType(next) THEN found' ELSE complete

\* One that fails: the type is logged and adds nothing, what its other
\* namespaces gave is lost too.
DiscoverFails ==
    /\ next <= Len(Scopes)
    /\ found' = complete
    /\ next' = NextType(next)
    /\ UNCHANGED complete

DiscoverResourceType ==
    /\ DiscoverInNamespace \/ DiscoverFails
    /\ UNCHANGED <<environment, publishing, targets, subscriber, snapshot, channel,
                   served, shared, checks>>

\* Mutant: a pass that found less than the last one is taken for a failed one.
UpdateUnlessLess ==
    /\ next > Len(Scopes)
    /\ ~publishing
    /\ IF Len(found) < Len(targets)
       THEN UNCHANGED <<targets, shared>>
       ELSE targets' = [i \in DOMAIN found |-> [url |-> found[i], healthy |-> TRUE]] /\ shared' = {}
    /\ publishing' = TRUE
    /\ UNCHANGED <<environment, next, found, complete, subscriber, snapshot, channel, served, checks>>

\* updateTargets: every target it publishes is presumed healthy.
UpdateTargets ==
    /\ next > Len(Scopes)
    /\ ~publishing
    /\ targets' = [i \in DOMAIN found |-> [url |-> found[i], healthy |-> TRUE]]
    /\ shared' = {}
    /\ publishing' = TRUE
    /\ UNCHANGED <<environment, next, found, complete, subscriber, snapshot, channel, served, checks>>

\* Mutant: allTargets outlives the pass.
NotifyKeepsFound ==
    /\ publishing
    /\ publishing' = FALSE
    /\ next' = 1
    /\ IF subscriber # "none" /\ channel = None
       THEN channel' = targets /\ shared' = shared \cup {"channel"}
       ELSE UNCHANGED <<channel, shared>>
    /\ UNCHANGED <<environment, found, complete, targets, subscriber, snapshot, served, checks>>

\* notifySubscribers: the update is dropped where the channel is full.
NotifySubscribers ==
    /\ publishing
    /\ publishing' = FALSE
    /\ next' = 1
    /\ found' = <<>>
    /\ complete' = <<>>
    /\ IF subscriber # "none" /\ channel = None
       THEN channel' = targets /\ shared' = shared \cup {"channel"}
       ELSE UNCHANGED <<channel, shared>>
    /\ UNCHANGED <<environment, targets, subscriber, snapshot, served, checks>>

-----------------------------------------------------------------------------
(* Subscribe, which watchTargets calls once, and the channel.              *)

Subscribe ==
    /\ subscriber = "none"
    /\ subscriber' = "reading"
    /\ UNCHANGED <<environment, pass, targets, snapshot, channel, served, shared, checks>>

\* The goroutine of Subscribe copies the current targets ...
ReadSnapshot ==
    /\ subscriber = "reading"
    /\ subscriber' = "sending"
    /\ snapshot' = targets
    /\ UNCHANGED <<environment, pass, targets, channel, served, shared, checks>>

\* ... and sends the copy whenever the channel has room, later lists or not.
SendSnapshot ==
    /\ subscriber = "sending"
    /\ channel = None
    /\ subscriber' = "sent"
    /\ channel' = snapshot
    /\ snapshot' = None
    /\ UNCHANGED <<environment, pass, targets, served, shared, checks>>

\* Mutant: an empty list is taken for the end of the channel.
ReceiveSome ==
    /\ channel \notin {None, <<>>}
    /\ served' = channel
    /\ channel' = None
    /\ shared' = IF "channel" \in shared THEN {"served"} ELSE {}
    /\ UNCHANGED <<environment, pass, targets, subscriber, snapshot, checks>>

\* watchTargets.
Receive ==
    /\ channel # None
    /\ served' = channel
    /\ channel' = None
    /\ shared' = IF "channel" \in shared THEN {"served"} ELSE {}
    /\ UNCHANGED <<environment, pass, targets, subscriber, snapshot, checks>>

-----------------------------------------------------------------------------
(* The health checker.                                                     *)

\* A tick: one goroutine per target.  The checks of the last tick have ended,
\* their timeout (10 s) being shorter than the interval (30 s).
CheckAllTargets ==
    /\ checks = {}
    /\ served # <<>>
    /\ checks' = {[n |-> i, url |-> served[i].url, answer |-> "asked"] : i \in DOMAIN served}
    /\ UNCHANGED <<environment, pass, targets, subscriber, snapshot, channel, served, shared>>

\* The backend answers, or fails to.
Answer(c) ==
    /\ c.answer = "asked"
    /\ checks' = (checks \ {c})
                     \cup {[c EXCEPT !.answer = IF up[c.url] THEN "up" ELSE "down"]}
    /\ UNCHANGED <<environment, pass, targets, subscriber, snapshot, channel, served, shared>>

\* The first target of the list with that URL is marked.
Marked(list, url, healthy) ==
    LET places == {i \in DOMAIN list : list[i].url = url}
    IN  IF places = {} THEN list ELSE [list EXCEPT ![Min(places)].healthy = healthy]

\* Mutant: a request that fails ends the check without a mark.
UpdateOnAnswerOnly(c) ==
    /\ c.answer # "asked"
    /\ served' = IF c.answer = "up" THEN Marked(served, c.url, TRUE) ELSE served
    /\ targets' = IF "served" \in shared THEN served' ELSE targets
    /\ checks' = checks \ {c}
    /\ UNCHANGED <<environment, pass, subscriber, snapshot, channel, shared>>

\* Mutant: the result is for the place the target had when the check was asked.
UpdateTargetAt(c) ==
    /\ c.answer # "asked"
    /\ served' = [i \in DOMAIN served |->
                     IF i = c.n THEN [served[i] EXCEPT !.healthy = c.answer = "up"] ELSE served[i]]
    /\ targets' = IF "served" \in shared THEN served' ELSE targets
    /\ checks' = checks \ {c}
    /\ UNCHANGED <<environment, pass, subscriber, snapshot, channel, shared>>

\* The check's result, late or not, on the list served by now.
UpdateTargetHealth(c) ==
    /\ c.answer # "asked"
    /\ served' = Marked(served, c.url, c.answer = "up")
    /\ targets' = IF "served" \in shared THEN served' ELSE targets
    /\ checks' = checks \ {c}
    /\ UNCHANGED <<environment, pass, subscriber, snapshot, channel, shared>>

-----------------------------------------------------------------------------
ClusterChanges ==
    /\ cluster' \in Clusters \ {cluster}
    /\ UNCHANGED <<up, pass, targets, subscriber, snapshot, channel, served, shared, checks>>

BackendFailsOrRecovers(u) ==
    /\ up' = [up EXCEPT ![u] = ~@]
    /\ UNCHANGED <<cluster, pass, targets, subscriber, snapshot, channel, served, shared, checks>>

Next ==
    \/ DiscoverResourceType \/ UpdateTargets \/ NotifySubscribers
    \/ Subscribe \/ ReadSnapshot \/ SendSnapshot \/ Receive
    \/ CheckAllTargets
    \/ \E c \in checks : Answer(c) \/ UpdateTargetHealth(c)
    \/ ClusterChanges
    \/ \E u \in Flaky : BackendFailsOrRecovers(u)

Spec == Init /\ [][Next]_vars

(***************************************************************************)
(* Fairness.  Discovery and the checker run on tickers, requests have      *)
(* timeouts.  A receive from a full channel lets the sender that waits for *)
(* it in before anybody else, so SendSnapshot is not overtaken for ever.   *)
(***************************************************************************)
Fairness ==
    /\ WF_vars(DiscoverResourceType \/ UpdateTargets \/ NotifySubscribers)
    /\ WF_vars(Subscribe) /\ WF_vars(ReadSnapshot) /\ SF_vars(SendSnapshot)
    /\ WF_vars(Receive)
    /\ WF_vars(CheckAllTargets)
    /\ WF_vars(\E c \in checks : Answer(c) \/ UpdateTargetHealth(c))

FairSpec == Spec /\ Fairness

-----------------------------------------------------------------------------
\* What a pass that nothing disturbs finds.
Found == FlattenSeq([i \in DOMAIN Scopes |-> cluster[Scopes[i]]])

(***************************************************************************)
(* Once the cluster stays as it is and no List fails any more, the         *)
(* balancer serves exactly the targets discovery finds, for good: neither  *)
(* updates dropped at a full channel, nor a first snapshot that arrives    *)
(* after newer lists, nor a pass that mixed old and new listings stay.     *)
(***************************************************************************)
BalancerCatchesUp ==
    <>[][DiscoverResourceType => DiscoverInNamespace]_vars /\ <>[][FALSE]_cluster
        => <>[](UrlsOf(served) = Found)

(***************************************************************************)
(* What BalancerCatchesUp rests on: passes keep publishing and ending, the *)
(* first snapshot gets its turn at the channel although notifySubscribers  *)
(* takes every slot it finds free, and watchTargets keeps emptying it.     *)
(***************************************************************************)
ListsKeepFlowing ==
    /\ []<>publishing /\ []<>(~publishing)
    /\ <>[](subscriber = "sent")
    /\ []<>(channel = None)

HealthyUrls(list) == {list[i].url : i \in {i \in DOMAIN list : list[i].healthy}}

(***************************************************************************)
(* A target is taken out of service, for the requests or for the           *)
(* collectors, only if its own backend is one that fails: answers that     *)
(* come late, for a list that was replaced and whose places have shifted,  *)
(* blame nobody else, nor does the array that discovery and the balancer   *)
(* share.                                                                  *)
(***************************************************************************)
OnlyFailuresAreMarked ==
    \A list \in {served, targets} : \A i \in DOMAIN list : list[i].healthy \/ list[i].url \in Flaky

(***************************************************************************)
(* A backend that is down for good is taken out of what GetTarget picks    *)
(* from, again after every refresh that presumed it healthy: checks answer *)
(* on lists replaced since they were asked.                                *)
(***************************************************************************)
DownTargetIsMarked ==
    \A u \in Flaky : <>[](~up[u]) => []<>(u \notin HealthyUrls(served))
=============================================================================
