# Verification of prometheus-multi-tenant-proxy

TLA+ models of the proxy's concurrent parts, TLC runs over small instances of
them, and TLAPS proofs of what matters most for every instance. Everything is
translated from the Go source under `src/`; paths below are relative to it.
`PROJECT.json` maps every definition to the lines it stands for, lists the runs,
the mutated definition each property refutes, the disagreements between code and
documentation, the hazards and the theorems.

    tlc -workers 2 -config selfheal.cfg MCSelfHeal      # one run
    tlapm SelfHealProofs.tla                            # one module of proofs

## 1. The system

One process (`cmd/proxy/main.go`) runs a query path and a push path over the same
discovered Prometheus backends ("targets").

| Component | State | Operations | Hard behaviour |
| --- | --- | --- | --- |
| Remote-write controller (`internal/remote_write/controller.go`) | `jobs`, `collectedMetrics`, `stopCh`, `doneCh` under `c.mu` | `Start` loads jobs, `reconcileLoop` reconciles and sweeps on a tick, `Stop`, one collector goroutine a job | a List made before the lock, collectors that outlive their job, stop and recreate while a cycle runs, context against `stopCh` |
| Self-heal watchdog (same file) | per job `createdAt`, `lastCleanCycleTime`, `lastRecreateAt`, `stalledSince`, `lastCycleHadHealthyTargets`, `recreateCount`; `lastSelfRestartAt` | `evaluateSelfHeal` recreates a stalled job or exits the process | timestamps reset and carried in different places, a sweep in the middle of a cycle, an exit that forgets |
| Collection cycle and senders (same file, `collector.go`) | the samples of a cycle | query, deduplicate, batch, write to every replica with retries | partial failure, repeated attempts, targets that lag |
| Service discovery (`internal/discovery/kubernetes.go`) | `targets`, `subscribers` | `discover` on a tick, `Subscribe`, `GetTargets` | a bounded channel that drops, a late first snapshot, listings that fail |
| Load balancer, health checker (`internal/proxy/loadbalancer.go`, `health.go`) | `lb.targets`, `counter` | `watchTargets`, `UpdateTargetHealth`, `GetTarget`, checks on a tick | answers for a list that was replaced, an array shared with discovery |
| Tenant manager (`internal/tenant/manager.go`) | `tenants` | periodic load, parsing of patterns, `ValidateAccess`, lookups | stale tenants, merged tenants, patterns whose text reads as something else |
| Query handler (`internal/proxy/handler.go`) | none of its own | tenant extraction, fan-out, aggregation, response filter | aggregation over failing targets, pattern matching |
| Health metrics (`internal/remote_write/metrics.go`) | none; reads jobs under `c.mu` | `Collect` | what a scrape shows across recreates and exits |
| Leader election (`cmd/proxy/main.go`) | the lease | start and stop leading | two leaders' collectors, no second campaign |
| Configuration, API types | plain data | load, defaults, validation | |

How they meet: the query handler and the controller both read discovery's list
(`GetTargets`); the balancer gets it over a channel and writes health marks into
the same array; the controller's loop runs the watchdog, which reads what the
collectors leave on their jobs; a lost lease cancels the controller's context; the
handler and the health metrics read `collectedMetrics` and the jobs.

What makes each correct: jobs correspond one to one to collectors that nobody
stopped, and follow the MetricAccess resources; recreates and exits happen only
after a real failure and not in a loop; a tenant reported up was collected for
lately; a cycle reported as a success has been delivered; counters written to a
tenant do not run backwards; the served targets are those discovered, and the dead
ones among them, no others, are taken out; a tenant sees what its resources allow,
all of it and nothing else; one replica writes at a time, and one does.

## 2. The modules

    JobRegistry     <--refines--  JobLifecycle
    Reconciliation  <--refines--  JobLifecycle, and each replica of Leadership

                               JobLifecycle  <--  JobLifecycleProofs, MCJobLifecycle
                               SelfHeal      <--  SelfHealProofs, MCSelfHeal
                               Leadership    <--  LeadershipProofs, MCLeadership
                               Targets       <--  TargetsProofs (RecursionFacts), MCTargets
                               Delivery      <--  DeliveryProofs (RecursionFacts), MCDelivery
    Tenants  <--extends--      QueryHandler  <--  QueryHandlerProofs, MCQueryHandler

The modules of the push path meet at the collection cycle. `JobLifecycle` has its
steps and every interleaving with stops and recreates, but no clock and no
outcome; `SelfHeal` has its outcomes and times, for the registered jobs alone,
since no sweep reads the struct of a stopped one; `Delivery` has its queries and
samples, for one job; `Targets` says where the healthy targets come from;
`Leadership` has several processes, each reduced to the keys its controller
serves: `Reconciliation` says what that abstracts of `JobLifecycle`, and both
implement it. Each over-approximates its neighbours: a sweep of `JobLifecycle` may
recreate any job and exit at any time, a cycle of `SelfHeal` may end in any
outcome, the healthy targets of `Delivery` change at will, a process of
`Leadership` may crash at any time. The query path is `QueryHandler` over
`Tenants`; how many targets it finds is anybody's choice.

**JobRegistry** is what the controller promises: each key is owned by at most one
worker, keys change hands only to fresh workers, a worker that loses its key is
retired, a retired worker never owns a key again.

**Reconciliation** is what it promises about its jobs as a whole: what it serves is
what one List returned, or what `Passes` for it; `Start` serves its List piece by
piece, the loop every later one at once; between two Lists only `Stop` and the end
of the process change it; and a loop whose context is cancelled lists no more.
`JobLifecycle` implements it (`Reconciling`), and so does each replica of
`Leadership` (`Controlled(r)`), where losing the Lease is the cancellation, keys
are served or not, and nothing passes for anything else. `Settles` is what it says
of convergence.

**JobLifecycle** has one action per critical section of `c.mu` and per call that
leaves the process. `StartList`, `LoadNext`, `LaunchLoop` are `Start`; `TickList`
and `Reconcile` are the two halves of `reconcileRemoteWriteJobs`, before and under
the lock; `SelfHeal` and `PodRestart` are `evaluateSelfHeal` without its clock;
`CloseStopCh`, `StopAllJobs`, `StopReturns` are `Stop`; `GetTargets` to `Record`
are a collector's cycle, `JobTick` and `JobReturns` its select. `StopAndCreate` is
the pair `stopRemoteWriteJobLocked`, `createRemoteWriteJobLocked` that they share.
A configuration is reduced to what the controller tells apart: whether its target
type is supported, the fields `hasConfigurationChanged` compares as they are
(`exact`), the sequence of metric patterns, the prometheus block or none, and what
it ignores. `HasConfigurationChanged` is as one-sided as the code: it looks the new
patterns up among the old ones and compares their number, and the blocks only where
both are there. `StandsInFor` says, independently of that comparison, what a job's
configuration owes its resource all the same, and is what `Passes` in
`Reconciliation`: no pattern is missing, the patterns are the very ones asked for
unless one is asked for twice, and the other compared fields agree. `Crash`,
`CancelContext` and `EditMetricAccess` are the environment.

**SelfHeal** gives each registered job the fields the watchdog reads, and the
system a clock. `GetTargets` to `CleanEmpty` are the outcomes of a cycle with the
fields each one sets; `ReadClock` and `Sweep` are separate, as `c.now()` is read
before `c.mu` is waited for; `Seeded`, `ShouldEscalatePodRestart`, `CooledDown`,
`InBackoff`, `Recreated` are the stages of the sweep for one job. `PodRestart` is
an exit: all but the clock starts from nothing. `up` is `lastCollectionSucceeded`,
and `CollectionUp` what a scrape of the health metrics makes of it. The history
variables `clean`, `fault`, `healedAt`, `exitAt` survive an exit and appear in no
guard.

**Leadership** has the replicas and their Lease. `Acquire`, `RenewalFails`,
`Release`, `RunOrDieReturns`, `LeaseExpires` are `leaderelection.RunOrDie` as
`main` configures it: an external library, modelled by what `main` rests on. The
steps of `Run` are `startRemoteWrite` (which sleeps ten seconds first),
`Controller.Start` and `reconcileLoop` with its deferred `close(c.doneCh)`;
`Shutdown` and `Exit` are the end of `main`, `Crash` the end of the process
anywhere. It assumes that a Lease is released before the leader's context is
cancelled (client-go's order), that no process is paused for longer than the Lease
lasts while it believes to lead, and that a restarted container has the identity
it had.

**Targets** has the passes of discovery (one List of one resource type in one
namespace a step, `DiscoverInNamespace`; one that fails, `DiscoverFails`, loses
what the other namespaces gave of its type; then `UpdateTargets`,
`NotifySubscribers`), the subscription with its channel of capacity one
(`Subscribe`, `ReadSnapshot`, `SendSnapshot`, `Receive`) and the checker
(`CheckAllTargets`, `Answer`, `UpdateTargetHealth`). `shared` records which lists
are the array discovery published: a mark made by the balancer shows there.
`Published` are the lists one pass can find, whichever of its Lists fail.

**Delivery** has one action per query, the storing of the deduplicated samples,
one action per attempt to write a batch to a replica, and the end of a batch.
`TryNext` is the fallback from a query with the tenant's selectors to ones without
that `collectFromTarget` tries when a query finds nothing; a series is `Steady`
when its samples do not depend on one. Relabeling rules drop series, and can make
several one (`Relabel`): `Receives` lets a replica keep either of two samples for
one series in a batch, and a series is `KeptApart` when the rules do neither to
it. `DeduplicateMetrics` is the loop of `deduplicateMetrics` over the samples,
`AddSample` its body.

**Tenants** has the manager's periodic load, one List a watched namespace, each of
which can fail, and the tenants processed one by one under `m.mu`. A pattern is
given by what it means and by what the parser sees of its text: where a regular
expression has its first brace, and of each matcher of a selector what the pieces
between commas read as. `ParseMetricPattern` and the operators before it are the
parser, `Reads` what it takes a pattern for, `Accepts` what the pattern means.
`Narrow` patterns are read as no more than they mean (`ReadsNarrow`), `Plain` ones
as exactly that (`ReadsPlain`). The history variables `sinceList`, `sinceRules` keep, of each
resource, the specifications it has had since the List that returned it, and since
the List behind the rules in force.

**QueryHandler** has one request over the manager: the tenant it finds
(`ExtractTenantInfo`), the targets it asks in turn, the series it filters one by
one, each with a `ValidateAccess` of its own. One request is enough, since a
request writes nothing another one reads. `specs` is the history of what its
answer can go back to.

Definitions commented `Mutant:` are not part of any specification: each changes a
definition as a plausible bug would, and refutes a property when put in its place.

## 3. The runs

| Run | Instance | Shows |
| --- | --- | --- |
| `lifecycle_safety` | 1 key, 3 collectors alive at once, 3 configurations (one unsupported, two that pass for each other one way round) | `RegisteredJobsOpen`, `NoOrphanedCollector`, `RefinesRegistry`, `RefinesReconciliation`: no channel is closed twice, no collector is beyond reach, JobRegistry and Reconciliation are implemented |
| `lifecycle_fair` | 1 key, 2 collectors, 2 configurations, fairness | `LoopTurns`: the loop neither stalls in a reconcile nor stops listing; `JobsConverge`, `CollectedConverges`: jobs settle on configurations that stand in for the resources', and the stored series on the jobs'; `StoppedCollectorsReturn` |
| `selfheal` | 1 tenant, all periods 1, clock up to 9 | `RestartSpacing`, `RestartOnlyAfterLongFailure`, `RecreateIsGivenAChance`, `RecreateSpacing`: recreates and exits are throttled and hit no tenant that was fine; `UpIsRecent`: no sweep leaves a tenant reported up on the strength of an old cycle |
| `targets` | 2 resource types in 2 namespaces, 2 backends, one that comes, goes and fails, fairness | `OnlyFailuresAreMarked`, `ListsKeepFlowing`, `BalancerCatchesUp`, `DownTargetIsMarked`: the balancer comes to serve what discovery finds, a backend that is down is taken out again and again, and no other one is |
| `delivery` | 2 targets that can fail, 4 series (one dropped, two made one by the rules), 2 overlapping patterns, 2 replicas, batches of 2, 2 attempts | `NoCounterReset`, `SuccessIsDelivery`, `FailureIsContained` |
| `access` | 2 watched namespaces, 2 resources in one of them, 2 series, up to 2 targets, fairness | `AnswerIsSound`, `AnswerIsComplete`, `RulesKeepComing`, `AnswersFollowResources`: an answer holds nothing its resources stopped allowing before the last List, all they allowed throughout, and comes to be exactly what they allow; patterns that are not Narrow or Plain count as what they are read as |
| `leadership` | 2 replicas, 1 key, 3 disruptions, 2 edits, fairness | `DoneChClosedOnce`, `WritersOverlapOnlyWithExLeader`, `ExLeaderStopsReconciling`, `RefinesReconciliation`, `LeaderSettles`, `LeaderLoopTurns`, `LeaderServesEnabled` |

Five runs refute something the repository says of itself; each states the claim,
and `PROJECT.json` quotes it:

| Run | The claim | What happens |
| --- | --- | --- |
| `cancel_stops_collectors` | "all remote write goroutines stop automatically" (`cmd/proxy/main.go:205`) | collectors do not watch the context; they go on next to the new leader's |
| `restart_on_outage` | never acts on a source outage (`README.md:212`) | a job is recreated, and then the process exits, although none of its cycles failed: both sweeps fall into the first cycle that found targets again after an outage, after `lastCycleHadHealthyTargets` is set (`controller.go:902`) and before the outcome is recorded (935); the second finds `stalledSince` and `recreateCount` as the first left them |
| `silent_failure` | target errors are failures (`controller.go:914`) | failed queries are skipped; the cycle counts as clean-empty and refreshes the baseline |
| `merged_tenants` | the resources of a namespace each contribute their patterns (`handler.go:649`) | the merged tenant's ID is none of the manager's, and every series is denied |
| `nobody_leads` | each enabled MetricAccess is collected for (`docs/remote-write-flow.md:99`) | `RunOrDie` returns with the lost lease and is not called again; when each replica has lost it once, none collects for what is enabled later |

Reading the code for the models showed more, which no run is spent on:

- A stopped collector that is still in its cycle stores over the series of its
  successor (`controller.go:901`, against "latest" at 48). `CollectedConverges` shows
  that the next cycle repairs it.
- `hasConfigurationChanged` (`controller.go:658`) compares some of the fields; a
  change of any other (a label selector, the kind of a relabeling rule) reaches
  the job only when something else replaces it. Nor does it notice a pattern that
  gives way to the repetition of another (688: from [a, b] to [a, a] the job goes on
  collecting b), or a prometheus block that is added or removed (742).
- A selector is cut at every comma, quoted ones too, and the last piece for a label
  wins (`manager.go:337`, 350): `{job="a,b"}` allows the series of the job a, which
  it does not say, and denies those of "a,b", and `{job="a",job="b"}` allows those
  of b. A `!~` without a further "=" is dropped (345), and a regular expression
  with a repetition such as `x.{3}` is taken for the metric of the name `x.` (303).
- `lastSelfRestartAt` does not survive the exit it is to throttle
  (`internal/config/config.go:132`). `RestartSpacing` holds all the same, from the
  grace periods.
- A backend listed twice is marked once (`loadbalancer.go:105`): its second entry
  stays healthy.
- `=~` in a selector matches nothing although `README.md:376` documents it, and so
  does `!=` (`ReadsNarrow` proves that they only deny more). The ID of internal
  collection is as unknown to `ValidateAccess` as a merged one (`handler.go:592`).
  A deleted MetricAccess keeps its access (`manager.go:241`). Targets that have
  the same series give an answer with duplicates (`handler.go:975`), and one
  target that hangs for the client's 30 s uses up the server's `WriteTimeout`.
- Counters can fall at the destination after a cycle that missed a target, for a
  series found by a fallback query, and where a rule makes two series one, of which
  a batch then holds two samples (`collector.go:310`): `NoCounterReset` excepts the
  three, and shows that lagging targets, retries and lost batches lower none
  otherwise. In `Delivery` a target that has a series keeps it; one that answers
  without a series it had is a case the property says nothing of. The comment at `controller.go:893` says the sample
  with the most recent timestamp is kept; `deduplicateMetrics` keeps the highest
  value, and `collector.go:452` says why.
- `proxy_tenant_last_successful_collection_timestamp_seconds` goes back to 0 when
  a job is recreated or its configuration changes, and the recreation counter to 0
  in the second case (`metrics.go:94`).
- `isLeader` is set when the loop starts (`controller.go:325`) and never cleared;
  no sweep runs after the loop has returned, so nothing reads it wrongly.

**Bounds.** `Ids` is finite: it bounds the collectors alive at once, since one
that has returned is used again. Three let an old, a replaced and a current
collector of a key overlap, which is what the hazards need. One key is enough for
the races of one tenant; tenants meet only in the loops over `jobs`, and the
proofs have any number. With all periods 1, a clock of 9 leaves room for stall,
recreate, escalation, exit, and the same again in a second process. The counters
of `Delivery` go up to 2 at one target and 1 at the other: one lag and one reset;
one series is found by both patterns, one is dropped, two, found only by a
fallback, become one. The two supported configurations of the lifecycle runs are
[a, b] without a prometheus block and [a, a] with one: the change to the second goes
unnoticed, the change back does not. In `targets` one backend is `Flaky`: the other
shows that marks go by URL while positions shift; both are pods, of two namespaces,
so that the List that fails loses one after the other was found, and the Lists of
a second type, which find nothing, must not lose them. `OnlyFailuresAreMarked` asks
of a marked backend that it is one that fails, not that it was down when checked. In
`access` one of the watched namespaces has no resource, so that its Lists come
between those of the other; a second pattern does not compile, selectors replace
a name, and a regular expression with a repetition, a documented `=~`, a comma in a
value and a label twice are read as something else, two of them as more than they
say. `MaxDisruptions` in
`Leadership` counts lost leases, crashes and shutdowns together: three let both
replicas lose the lease, one of them again after a restart. Two edits let a key
come and go. Two replicas of the destination are exchanged by symmetry in
`delivery`, keys and collectors in `lifecycle_safety`; both check safety only.

All but the clock of `SelfHeal`, the counters of `Delivery` and the two bounds of
`Leadership` leave the state space finite without a cut. None of these makes a run
stop but those of `Leadership`: where all replicas have lost the lease and no
disruption or edit is left, nothing is enabled, and its two runs do not check for
deadlock.

**Fairness.** Every query and every attempt has a timeout of 30 s
(`controller.go:997`, `controller.go:1408`, `collector.go:264`), the handler's
HTTP client too, health checks one of 10 s; `c.mu` and `m.mu` are held only over
memory operations. A goroutine that can step therefore does: weak fairness. A Go
`select` picks at random among its ready cases, so a case ready again and again is
taken: strong fairness for the selects (`LoopReturns`, `TickList`, `JobReturns` of
`JobLifecycle`). A receive from a full channel admits the sender that waits for it
before any other: strong fairness of `SendSnapshot`. A List that is repeated on
every tick is assumed to succeed eventually: in `Tenants` that is strong fairness
of `List`, namespace by namespace. In `Leadership` candidates retry every
`RetryPeriod`, a Lease nobody renews runs out, and a process that was told to stop
ends, all of it weak fairness. Nothing is assumed of the environment: edits,
crashes, failures, requests and cancellations need not happen, and need not stop;
the convergence properties say "once they do".

## 4. The proofs

Every type invariant, every other invariant, every action property and every
refinement of a passing run is proved, and the convergence that follows from
recurrence, for any values of the constants within the assumptions:
`LifecycleAssumption`, `TargetsAssumption`, `NoneAssumption`, `HandlerAssumption`
(what stands for nothing is none of the values; what a configuration and a listing
are made of), `SelfHealAssumption` (periods and clock bound are positive),
`LeadershipAssumption` (the bounds are numbers), `TenantsAssumption` (what a
pattern is, that every resource is in a namespace, that no List is "no List") and
`DeliveryAssumption` (batch size and attempts are positive, a pattern has a query).
No assumption bounds the number of keys, collectors, replicas, targets, series,
patterns or resource types, and none is made of the relabeling rules.

*Jobs and collectors.* `RegisteredJobsOpen` and `NoOrphanedCollector` are not
inductive one by one: a stop is harmless because a registered job is open, and it
leaves no orphan because an open collector is registered. `LifecycleInv` is
`TypeOK`, `Ownership` (the two together: `jobs` and "the key of an open collector"
are inverse to each other) and `Loading` (while `Start` loads, a key still to do
has no job, so that creating one cannot displace another).
`StopAndCreateOwnership` proves once that stopping some keys' jobs and creating
others' keeps `Ownership`; reconcile, sweep, load and Stop are instances of it.
`ImplementsRegistry` maps each step to a reassignment, a return, the end of the
process or a stutter.

*Reconciliation.* `ListInHand` is the invariant the second refinement needs: a
list is held only between its List and the end of its reconcile, and what `Start`
is through with collects what was listed. Under it and `LifecycleInv`,
`ImplementsReconciliation` maps each step of the controller to one of
`Reconciliation`: a reconcile, which stops, starts and keeps jobs one by one, to the
whole list being served, or what passes for it; a sweep to nothing, since a
recreated job serves what the old one did. That a job which is kept passes for the
listed configuration is `UnchangedStandsIn`: the comparison says only that no new
pattern is missing among as many old ones, and by the pigeonhole principle
(`SameLengthNoRepeats`) they are then the same patterns if the new ones are distinct.
`ReplicasReconcile` does the same for each of any number of replicas, from
`ElectionInv`.

*Timing.* `TimingInv` orders the timestamps: a job's `createdAt` is not before its
tenant's last recreate, a seeded `stalledSince` lies more than `StallGrace` after
the tenant's last clean cycle as well as after any exit, and no stamp lies in the
future. It is needed because the two stages of a restart measure from different
stamps: that the job is stalled says something of the baseline, that it may
escalate something of `stalledSince`, and only their order makes the periods add
up. From it, `RestartsAreSpaced`: two exits are more than both grace periods apart
although the exit forgets; `RestartsFollowLongFailure`; `RecreateComesFirst`;
`RecreatesAreSpaced`.

`UpInv` says of a job that is up that it had healthy targets and that its last
clean cycle is its tenant's. A stalled job that is up therefore passes every gate
of the watchdog: `UpIsEarned`.

*Leadership.* `ElectionInv` is `TypeOK`, `LeaderHolds` (a replica that leads holds
the Lease, hence one does), `CandidateIsFresh` (a process that still campaigns has
no controller, since none campaigns twice) and `ClosedByReturn` (`doneCh` is
closed only by a loop that returned). From it `LoopReturnsOnce` and
`OneWriterButForExLeaders`.

*Access.* `AccessInv` says that the rules of a tenant come from a specification
its resource has had since the List behind them, that a List under way is later
than the one behind the rules, and that the request knows every specification its
tenant's rules can come from. The order of the Lists is needed because rules are
replaced while an answer is filtered: the new ones must be no older than those of
the request's arrival. `ConvertReads` says that the manager's rules let through what
some pattern reads as; `ReadsNarrow` and `ReadsPlain` compare that with what the
patterns mean, from `SelectorLabels`, which says what is left of a selector when no
label is set twice. From these `AnswersAreSound`, `AnswersAreComplete`.

*Delivery.* The loops of the sender are recursive functions over an index; what
they compute is proved by induction on that index (`Induct`, `Iterate` of
`RecursionFacts`, from the well-foundedness of strict inclusion on finite sets,
which the library states without an operator parameter), for every sequence of
samples: `DedupKeepsHighest`, with one sample a series, each one collected and
none lower than another collected for its series. `BatchIs` and `BatchesCover` say
that the batches cut the samples without gap, the last shorter one included.
`SendingInv` is the loop invariant of sendMetrics (the batches before the current
one are delivered or reported, the current one is where it was acknowledged); from
it `FailuresAreContained` and `SuccessesAreDeliveries`. `ReadingsInv` says that no
value collected, stored or received is above every reading of its series.
`CounterInv` says that a cycle that has missed no target, once a replica has value
v of a Steady series, has collected v or more or has a query pending that will
find it. From both, `CountersNeverFall`.

*Targets.* `FindsGrow` says what a pass can have found after one more List,
`FindsKeep` after one that fails and loses its type; with the flattening facts of
`RecursionFacts` they give `TypeCorrect`, which says that
every list on its way is what one pass found. `MarksInv` follows a mark from the
backend through its check to every list it can reach: `MarksAreEarned`.
`SharingIsSound` proves what the abstraction by `shared` rests on: the channel and
the balancer never both hold discovery's array, and the one that does holds the
same list.

*Convergence.* That something happens eventually needs fairness and ENABLED, which
are outside the prover's reach. Each convergence property is therefore split. A
recurrence property says what scheduling contributes, and nothing about data: TLC
checks it under the fairness of section 3. The convergence itself follows from it
and the safety invariants, with no fairness, and is proved for every instance:

| Recurrence, checked | Convergence, proved from it | Theorem |
| --- | --- | --- |
| `LoopTurns` | `JobsConverge` | `TurningConverges` |
| `LeaderSettles`, `LeaderLoopTurns` | `LeaderServesEnabled` (once the resources stay as they are) | `SettledLeaderServes` |
| `ListsKeepFlowing` | `BalancerCatchesUp` | `FlowingListsCatchUp` |
| `RulesKeepComing` | `AnswersFollowResources` | `SettledRulesAreFollowed` |

The argument is each time a chain of freshness: from the last edit on, a stage that
has been emptied once (no List under way) holds nothing older for good, then the
next stage it fills (jobs, published lists, rules), then what is made of that (the
served targets, the answers). `Settles` is this argument for `Reconciliation`, and
`TurningConverges` an instance of it through the refinement. `KeptIs` says that
`Kept`, which gives the answer made of what is `Granted`, goes through the results
as the handler does, and `GrantedReads` that what is granted is what the manager's
rules let through. `Reconciliation` takes TLAPS with `LOCAL INSTANCE`, since
`Leadership` instantiates it with a parameter.

Only model-checked: the four recurrence properties; `StoppedCollectorsReturn`,
`DownTargetIsMarked` and `ExLeaderStopsReconciling`, which are liveness under
fairness through and through; and `CollectedConverges`, which needs in addition an
induction over the set of collectors that were outdated when the jobs settled.

## 5. What is not modelled

- `metricIsolation` (queries go through prom-label-proxy: another address for the
  same answers), the Pushgateway sender (a placeholder that sends nothing), sample
  timestamps and extra labels, an attempt that reaches its replica after the
  client has given it up and a later cycle has been written.
- `GetTarget`'s round-robin counter, incremented under a read lock: a request of
  `QueryHandler` goes to any healthy target. How ports, labels and annotations of
  a resource give a URL.
- The form of an answer: a series is modelled, not its samples, and `resultType`,
  which is always "vector" whatever was asked. Endpoints other than queries are
  passed on unfiltered (`ProxyToOneTarget`). Of the text of a pattern: quotes and
  spaces at the ends of a value, which are trimmed, an "=" behind the brace of a
  regular expression, and one before the first comma of a `!~` value. That
  "merged/<namespace>" is no resource's own namespace/name is assumed
  (`HandlerAssumption`).
- The gauges of the health metrics but `collection_up`: copies of bookkeeping
  fields nothing else reads. The health, debug and `/collected-metrics` pages,
  which change no state; `proxyToTarget` and `filterQueryResponse`, which nothing
  calls.
- That `collectedMetrics` keeps an empty entry for every tenant that ever
  collected. `Stop`, whose interleavings `JobLifecycle` has, is called by tests
  only: a reconcile past its List can create jobs after it.
- Parsing and validation of the configuration, formatting, logging, the
  construction of the components in `main`, API types, generated code.

## 6. What is left

The plan of the project is done: every component with state of its own has a
module, its safety and its refinements proved, its convergence reduced to
recurrence. What a next step could add:

1. `metricIsolation` in `Delivery`: the same cycle with a detour whose failure
   differs from the target's.
2. Two jobs of `Delivery` over the same destination, one of them stopped: the last
   batches of an old collector against the first ones of its successor.
3. The order in which outdated collectors return, so that `CollectedConverges` too
   follows from a recurrence property.
