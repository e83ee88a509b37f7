----------------------------- MODULE Leadership -----------------------------
(***************************************************************************)
(* The replicas of the proxy and the Lease that lets one of them run the   *)
(* remote-write controller (src/cmd/proxy/main.go, with Start and          *)
(* reconcileLoop of src/internal/remote_write/controller.go).              *)
(*                                                                         *)
(* Of a replica's controller only the keys with an open collector matter   *)
(* here: serving is the domain of JobRegistry's registry, which            *)
(* JobLifecycle is shown to implement.  Collectors end with a reconcile or *)
(* with the process and do not watch the leader's context.                 *)
(*                                                                         *)
(* leaderelection.RunOrDie is client-go's: a leader that could not renew   *)
(* for RenewDeadline gives up, releases the Lease if it can, and only then *)
(* cancels the leader's context.  Its RenewDeadline being shorter than its *)
(* LeaseDuration, nobody takes the Lease from a leader that renews it; a   *)
(* process paused for longer than that is outside the model.               *)
(***************************************************************************)
EXTENDS Integers

CONSTANTS
    Replicas,       \* podName, the identity in the Lease
    Keys,           \* namespace/name of the MetricAccess resources
    None,           \* nobody holds the Lease
    MaxDisruptions, \* bound on lost leases, crashes and shutdowns together
    MaxEdits        \* bound on the changes of the MetricAccess resources

ASSUME LeadershipAssumption ==
    /\ None \notin Replicas
    /\ MaxDisruptions \in Nat
    /\ MaxEdits \in Nat

VARIABLES
    holder,     \* of the Lease
    election,   \* replica -> how far RunOrDie is
    controller, \* replica -> how far startRemoteWrite, and the loop it starts, are
    listed,     \* replica -> keys enabled in the List it last made
    serving,    \* replica -> keys it has an open collector for
    doneClosed, \* replica -> whether its doneCh is closed
    panicked,   \* replica -> whether it closed doneCh again
    enabled,    \* keys whose MetricAccess has remote write enabled
    disruptions, edits

replicaState == <<election, controller, listed, serving, doneClosed, panicked>>
bounds == <<disruptions, edits>>
vars == <<holder, replicaState, enabled, bounds>>

Elections ==
    {"candidate", \* acquiring, every RetryPeriod
     "leading",   \* renewing, with the leader's context live
     "releasing", \* gave up renewing; the context is still live
     "returned",  \* context cancelled, RunOrDie returned, the process goes on
     "stopping"}  \* SIGTERM: every context cancelled, the server shuts down

Controllers ==
    {"none",     \* Start was not called
     "sleeping", \* the ten seconds before it is
     "loading",  \* Start has listed the resources
     "waiting",  \* reconcileLoop, in its select
     "ticking",  \* reconcileLoop, past its List
     "returned"} \* reconcileLoop has returned

TypeOK ==
    /\ holder \in Replicas \cup {None}
    /\ election \in [Replicas -> Elections]
    /\ controller \in [Replicas -> Controllers]
    /\ listed \in [Replicas -> SUBSET Keys]
    /\ serving \in [Replicas -> SUBSET Keys]
    /\ doneClosed \in [Replicas -> BOOLEAN]
    /\ panicked \in [Replicas -> BOOLEAN]
    /\ enabled \in SUBSET Keys
    /\ disruptions \in 0..MaxDisruptions
    /\ edits \in 0..MaxEdits

Init ==
    /\ holder = None
    /\ election = [r \in Replicas |-> "candidate"]
    /\ controller = [r \in Replicas |-> "none"]
    /\ listed = [r \in Replicas |-> {}]
    /\ serving = [r \in Replicas |-> {}]
    /\ doneClosed = [r \in Replicas |-> FALSE]
    /\ panicked = [r \in Replicas |-> FALSE]
    /\ enabled \in SUBSET Keys
    /\ disruptions = 0
    /\ edits = 0

-----------------------------------------------------------------------------
(* RunOrDie.                                                               *)

\* Mutant: the replica does not ask for the Lease (-leader-elect=false).
LeadWithoutLease(r) ==
    /\ election[r] = "candidate"
    /\ election' = [election EXCEPT ![r] = "leading"]
    /\ controller' = [controller EXCEPT ![r] = "sleeping"]
    /\ UNCHANGED <<holder, listed, serving, doneClosed, panicked, enabled, bounds>>

\* A free Lease is taken, or the one the replica's earlier process left: it
\* has the same identity.  OnStartedLeading runs in a goroutine of its own.
Acquire(r) ==
    /\ election[r] = "candidate"
    /\ holder \in {None, r}
    /\ holder' = r
    /\ election' = [election EXCEPT ![r] = "leading"]
    /\ controller' = [controller EXCEPT ![r] = "sleeping"]
    /\ UNCHANGED <<listed, serving, doneClosed, panicked, enabled, bounds>>

\* No renewal succeeded in RenewDeadline.
RenewalFails(r) ==
    /\ disruptions < MaxDisruptions
    /\ election[r] = "leading"
    /\ election' = [election EXCEPT ![r] = "releasing"]
    /\ disruptions' = disruptions + 1
    /\ UNCHANGED <<holder, controller, listed, serving, doneClosed, panicked, enabled, edits>>

\* Mutant: the empty identity a release writes is not read as a free Lease.
ReleaseToNobody(r) ==
    /\ election[r] \in {"releasing", "stopping"}
    /\ holder = r
    /\ holder' = ""
    /\ UNCHANGED <<replicaState, enabled, bounds>>

\* ReleaseOnCancel, where the API server takes the release.
Release(r) ==
    /\ election[r] \in {"releasing", "stopping"}
    /\ holder = r
    /\ holder' = None
    /\ UNCHANGED <<replicaState, enabled, bounds>>

\* Mutant: the lost Lease is campaigned for again.
CampaignAgain(r) ==
    /\ election[r] = "releasing"
    /\ election' = [election EXCEPT ![r] = "candidate"]
    /\ UNCHANGED <<holder, controller, listed, serving, doneClosed, panicked, enabled, bounds>>

\* The leader's context is cancelled, OnStoppedLeading logs, and the goroutine
\* that ran RunOrDie ends.
RunOrDieReturns(r) ==
    /\ election[r] = "releasing"
    /\ election' = [election EXCEPT ![r] = "returned"]
    /\ UNCHANGED <<holder, controller, listed, serving, doneClosed, panicked, enabled, bounds>>

\* LeaseDuration after the last renewal.
LeaseExpires ==
    /\ holder # None
    /\ election[holder] # "leading"
    /\ holder' = None
    /\ UNCHANGED <<replicaState, enabled, bounds>>

-----------------------------------------------------------------------------
(* startRemoteWrite, Controller.Start and the reconcile loop.              *)

\* Mutant: the controller is started with the context of main.
MainContextLive(r) == election[r] # "stopping"

\* Whether leaderCtx is not cancelled.
LeaderContextLive(r) == election[r] \in {"leading", "releasing"}

ControllerStep(r, from, to) ==
    /\ controller[r] = from
    /\ controller' = [controller EXCEPT ![r] = to]
    /\ UNCHANGED <<holder, election, panicked, enabled, bounds>>

\* Mutant: a List that fails keeps Start from launching the loop.
StartOrGiveUp(r) ==
    \/ /\ LeaderContextLive(r)
       /\ ControllerStep(r, "sleeping", "loading")
       /\ listed' = [listed EXCEPT ![r] = enabled]
       /\ UNCHANGED <<serving, doneClosed>>
    \/ /\ ControllerStep(r, "sleeping", "returned")
       /\ UNCHANGED <<listed, serving, doneClosed>>

\* Start, after the sleep, which no cancellation ends: its List succeeds, or it
\* fails, as it must under a cancelled context, and Start goes on without jobs.
StartController(r) ==
    \/ /\ LeaderContextLive(r)
       /\ ControllerStep(r, "sleeping", "loading")
       /\ listed' = [listed EXCEPT ![r] = enabled]
       /\ UNCHANGED <<serving, doneClosed>>
    \/ /\ ControllerStep(r, "sleeping", "waiting")
       /\ UNCHANGED <<listed, serving, doneClosed>>

\* A job for every listed key, whether or not the context is still live, and
\* the loop.
Load(r) ==
    /\ ControllerStep(r, "loading", "waiting")
    /\ serving' = [serving EXCEPT ![r] = listed[r]]
    /\ UNCHANGED <<listed, doneClosed>>

\* The 30 s ticker and a List that succeeds.  One that fails leaves the keys
\* alone, as does the sweep after it, which recreates collectors of these keys.
TickList(r) ==
    /\ LeaderContextLive(r)
    /\ ControllerStep(r, "waiting", "ticking")
    /\ listed' = [listed EXCEPT ![r] = enabled]
    /\ UNCHANGED <<serving, doneClosed>>

\* Mutant: collectors are started for the listed keys and none is stopped.
ReconcileStopsNone(r) ==
    /\ ControllerStep(r, "ticking", "waiting")
    /\ serving' = [serving EXCEPT ![r] = @ \cup listed[r]]
    /\ UNCHANGED <<listed, doneClosed>>

\* reconcileRemoteWriteJobs, under c.mu.
Reconcile(r) ==
    /\ ControllerStep(r, "ticking", "waiting")
    /\ serving' = [serving EXCEPT ![r] = listed[r]]
    /\ UNCHANGED <<listed, doneClosed>>

\* ctx.Done() is selected; the deferred close of doneCh panics the second time.
LoopReturns(r) ==
    /\ ~LeaderContextLive(r)
    /\ controller[r] = "waiting"
    /\ controller' = [controller EXCEPT ![r] = "returned"]
    /\ panicked' = [panicked EXCEPT ![r] = doneClosed[r]]
    /\ doneClosed' = [doneClosed EXCEPT ![r] = TRUE]
    /\ UNCHANGED <<holder, election, listed, serving, enabled, bounds>>

-----------------------------------------------------------------------------
(* The processes and the resources.                                        *)

\* SIGTERM: main cancels its context, the parent of the leader's.
Shutdown(r) ==
    /\ disruptions < MaxDisruptions
    /\ election[r] # "stopping"
    /\ election' = [election EXCEPT ![r] = "stopping"]
    /\ disruptions' = disruptions + 1
    /\ UNCHANGED <<holder, controller, listed, serving, doneClosed, panicked, enabled, edits>>

\* The container is started again, with nothing but its identity.
Restarted(r) ==
    /\ election' = [election EXCEPT ![r] = "candidate"]
    /\ controller' = [controller EXCEPT ![r] = "none"]
    /\ listed' = [listed EXCEPT ![r] = {}]
    /\ serving' = [serving EXCEPT ![r] = {}]
    /\ doneClosed' = [doneClosed EXCEPT ![r] = FALSE]
    /\ panicked' = [panicked EXCEPT ![r] = FALSE]

\* Mutant: main waits for the loop, which a replica that never led has not.
ExitAfterLoop(r) ==
    /\ election[r] = "stopping"
    /\ controller[r] = "returned"
    /\ Restarted(r)
    /\ UNCHANGED <<holder, enabled, bounds>>

\* The end of main, after server.Shutdown; nothing waits for the release, the
\* loop or the collectors.
Exit(r) ==
    /\ election[r] = "stopping"
    /\ Restarted(r)
    /\ UNCHANGED <<holder, enabled, bounds>>

\* Killed, or exited by the self-heal watchdog.
Crash(r) ==
    /\ disruptions < MaxDisruptions
    /\ Restarted(r)
    /\ disruptions' = disruptions + 1
    /\ UNCHANGED <<holder, enabled, edits>>

EditMetricAccess ==
    /\ edits < MaxEdits
    /\ enabled' \in SUBSET Keys \ {enabled}
    /\ edits' = edits + 1
    /\ UNCHANGED <<holder, replicaState, disruptions>>

Election(r) ==
    \/ Acquire(r)
    \/ RenewalFails(r)
    \/ Release(r)
    \/ RunOrDieReturns(r)

Run(r) ==
    \/ StartController(r)
    \/ Load(r)
    \/ TickList(r)
    \/ Reconcile(r)
    \/ LoopReturns(r)

Process(r) ==
    \/ Shutdown(r)
    \/ Exit(r)
    \/ Crash(r)

Next ==
    \/ \E r \in Replicas : Election(r) \/ Run(r) \/ Process(r)
    \/ LeaseExpires
    \/ EditMetricAccess

Spec == Init /\ [][Next]_vars

(***************************************************************************)
(* Candidates retry every RetryPeriod, a Lease nobody renews runs out, a   *)
(* goroutine that can go on does, tickers tick and their List succeeds     *)
(* sooner or later, and a process told to stop ends within the 30 s of     *)
(* server.Shutdown.  Nothing has to fail, release or be edited.            *)
(***************************************************************************)
Fairness ==
    /\ WF_vars(LeaseExpires)
    /\ \A r \in Replicas :
          /\ WF_vars(Acquire(r))
          /\ WF_vars(RunOrDieReturns(r))
          /\ WF_vars(Run(r))
          /\ WF_vars(Exit(r))

FairSpec == Spec /\ Fairness

-----------------------------------------------------------------------------
(***************************************************************************)
(* reconcileLoop's deferred close(c.doneCh) never panics: however a lease  *)
(* is lost and whenever the context is cancelled, in the sleep, in Start   *)
(* or in the loop, a process starts the loop once.  This rests on RunOrDie *)
(* not being called again (main.go:193).                                   *)
(***************************************************************************)
DoneChClosedOnce == \A r \in Replicas : ~panicked[r]

(***************************************************************************)
(* Of two replicas that collect at the same time, one gave up its Lease or *)
(* is shutting down: the replicas that started from scratch, those that    *)
(* are still campaigning and the one that leads never add a writer to each *)
(* other's (main.go:155, "so that only one replica writes at a time").     *)
(***************************************************************************)
WritersOverlapOnlyWithExLeader ==
    \A r, s \in Replicas :
        r # s /\ serving[r] # {} /\ serving[s] # {}
            => \E q \in {r, s} : election[q] \in {"releasing", "returned", "stopping"}

(***************************************************************************)
(* A replica that lost its Lease ends its reconcile loop, wherever the     *)
(* cancellation caught it, and so stops changing which tenants it writes   *)
(* (main.go:204); or its process ends.                                     *)
(***************************************************************************)
ExLeaderStopsReconciling ==
    \A r \in Replicas :
        election[r] = "returned" /\ controller[r] # "returned"
            ~> controller[r] \in {"returned", "none"}

(***************************************************************************)
(* After the last disruption and the last edit a leader comes to serve     *)
(* exactly the enabled keys and stays with them, through lost releases,    *)
(* failing Lists and leaders that come and go; unless every replica has    *)
(* lost the Lease once and lives on.                                       *)
(***************************************************************************)
LeaderServesEnabled ==
    \/ <>[](\E r \in Replicas : election[r] = "leading" /\ serving[r] = enabled)
    \/ <>[](\A r \in Replicas : election[r] = "returned")

(***************************************************************************)
(* What the two lines of LeaderServesEnabled rest on: in the end one       *)
(* replica leads for good, or every replica has lost the Lease once and    *)
(* lives on; and the loop of a replica that leads for good keeps listing   *)
(* and reconciling.                                                        *)
(***************************************************************************)
LeaderSettles ==
    \/ \E r \in Replicas : <>[](election[r] = "leading")
    \/ <>[](\A r \in Replicas : election[r] = "returned")

LeaderLoopTurns ==
    \A r \in Replicas :
        <>[](election[r] = "leading")
            => []<>(controller[r] = "waiting") /\ []<>(controller[r] = "ticking")

-----------------------------------------------------------------------------
(* Each replica's controller seen as Reconciliation sees it.               *)

Serves(keys) == [k \in Keys |-> {k} \cap keys]

ListUnderWay(r) == IF controller[r] \in {"loading", "ticking"} THEN listed[r] ELSE {}

ControllerPhase(r) ==
    IF controller[r] \in {"none", "sleeping"} THEN "new" ELSE controller[r]

ToldToEnd(r) == IF election[r] \in {"returned", "stopping"} THEN {"cancelled"} ELSE {}

(***************************************************************************)
(* A replica serves what a List of its own returned, taken as a whole,     *)
(* until its process ends: losing the Lease takes no tenant from it, and   *)
(* gives it none once its context is cancelled, but those of a List that   *)
(* was made before.  This is Controlled(r)!Spec for every r.               *)
(***************************************************************************)
Controlled(r) == INSTANCE Reconciliation WITH
    Nothing <- {},
    Passes  <- {},
    wanted  <- Serves(enabled),
    serving <- Serves(serving[r]),
    listed  <- Serves(ListUnderWay(r)),
    phase   <- ControllerPhase(r),
    told    <- ToldToEnd(r)

RefinesReconciliation ==
    /\ \A r \in Replicas : Controlled(r)!Init
    /\ [][\A r \in Replicas : [Controlled(r)!Next]_(Controlled(r)!vars)]_vars

-----------------------------------------------------------------------------
(* What the repository says and the code does not do.                      *)

(***************************************************************************)
(* A MetricAccess that stays enabled is collected for, by some replica     *)
(* (docs/remote-write-flow.md:99-101).                                     *)
(***************************************************************************)
EnabledIsCollected ==
    \A k \in Keys : <>[](k \in enabled) => []<>(\E r \in Replicas : k \in serving[r])
=============================================================================
