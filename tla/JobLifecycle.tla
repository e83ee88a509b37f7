----------------------------- MODULE JobLifecycle -----------------------------
(***************************************************************************)
(* The remote-write controller of one process: which collection jobs it    *)
(* runs, and when (src/internal/remote_write/controller.go).               *)
(*                                                                         *)
(* Three kinds of goroutine share the controller under c.mu: the one that  *)
(* called Start, the reconcile loop (which also runs the self-heal sweep), *)
(* and one collector per RemoteWriteJob; a fourth calls Stop.  Each action *)
(* below is the code between two points where the others can run: one      *)
(* critical section of c.mu, or one call that leaves the process (List,    *)
(* GetTargets, a query, a send).                                           *)
(*                                                                         *)
(* Time is left to the module SelfHeal: here a sweep may recreate any of   *)
(* the registered jobs, and may end the process.                           *)
(***************************************************************************)
EXTENDS Sequences, Functions

CONSTANTS
    Keys,       \* namespace/name of the MetricAccess resources
    Ids,        \* RemoteWriteJob structs, each with its collector goroutine; a
                \* finite set bounds how many collectors are alive at once
    Specs,      \* remote-write configurations a MetricAccess can carry
    None,       \* no job, no configuration, no prometheus block
    Empty       \* an empty result in collectedMetrics

(***************************************************************************)
(* A configuration, divided as hasConfigurationChanged treats it: whether  *)
(* its target type is supported; what it compares exactly (metricIsolation, *)
(* the interval, the target type, the extra labels, how many relabelings); *)
(* the metric patterns; the replicas and the StatefulSet of the prometheus *)
(* block, None without the block; and what it ignores (the relabelings     *)
(* themselves, the other fields of the targets, honorLabels).  A           *)
(* MetricAccess that is absent, has no remoteWrite or has it disabled is   *)
(* None.                                                                   *)
(***************************************************************************)
ASSUME LifecycleAssumption ==
    /\ None \notin Keys \cup Ids \cup Specs
    /\ \A s \in Specs : s.supported \in BOOLEAN /\ s.patterns \in Seq(Range(s.patterns))
    /\ \A s, t \in Specs : s.exact = t.exact => s.supported = t.supported
    /\ Empty \notin Specs \cup {None}

VARIABLES
    cr,         \* the API server: key -> enabled configuration, or None
    \* the controller's fields
    jobs,       \* c.jobs: key -> registered job, or None
    collected,  \* c.collectedMetrics: key -> None, Empty, or the
                \* configuration whose series it holds
    \* the RemoteWriteJob structs and their goroutines
    jobKey,     \* the key of job.MetricAccess
    jobSpec,    \* the configuration in job.MetricAccess (a deep copy)
    stopped,    \* job.StopCh is closed
    pc,         \* where the collector is
    \* the caller of Start, the reconcile loop, the caller of Stop
    starter,    \* "init", "loading", "done"
    loop,       \* "off", "select", "reconcile", "sweep", "returned"
    stopper,    \* "none", "closed" (stopCh), "waiting" (for doneCh), "returned"
    listing,    \* the MetricAccess list the starter or the loop last read
    todo,       \* keys of it Start has not created a job for yet
    ctxDone     \* the context given to Start is cancelled

envVars  == <<cr>>
jobVars  == <<jobKey, jobSpec, stopped, pc>>
ctlVars  == <<starter, loop, stopper, listing, todo, ctxDone>>
vars     == <<cr, jobs, collected, jobKey, jobSpec, stopped, pc,
              starter, loop, stopper, listing, todo, ctxDone>>

-----------------------------------------------------------------------------
(* Collectors.                                                             *)

Positions == {"none", "targets", "noTargets", "querying", "sending", "record", "select"}

Running(i) == pc[i] # "none"
Open(i)    == Running(i) /\ ~stopped[i]

Unused     == {i \in Ids : ~Running(i)}
Registered == {k \in Keys : jobs[k] # None}

TypeOK ==
    /\ cr \in [Keys -> Specs \cup {None}]
    /\ jobs \in [Keys -> Ids \cup {None}]
    /\ collected \in [Keys -> Specs \cup {None, Empty}]
    /\ jobKey \in [Ids -> Keys \cup {None}]
    /\ jobSpec \in [Ids -> Specs \cup {None}]
    /\ stopped \in [Ids -> BOOLEAN]
    /\ pc \in [Ids -> Positions]
    /\ \A i \in Ids : Running(i) <=> jobKey[i] # None
    /\ \A i \in Ids : Running(i) <=> jobSpec[i] # None
    /\ starter \in {"init", "loading", "done"}
    /\ loop \in {"off", "select", "reconcile", "sweep", "returned"}
    /\ stopper \in {"none", "closed", "waiting", "returned"}
    /\ listing \in [Keys -> Specs \cup {None}]
    /\ todo \in SUBSET Keys
    /\ ctxDone \in BOOLEAN

NoListing == [k \in Keys |-> None]

\* A process before Start: NewController.
ProcessInit ==
    /\ jobs = [k \in Keys |-> None]
    /\ collected = [k \in Keys |-> None]
    /\ jobKey = [i \in Ids |-> None]
    /\ jobSpec = [i \in Ids |-> None]
    /\ stopped = [i \in Ids |-> FALSE]
    /\ pc = [i \in Ids |-> "none"]
    /\ starter = "init"
    /\ loop = "off"
    /\ stopper = "none"
    /\ listing = NoListing
    /\ todo = {}
    /\ ctxDone = FALSE

Init ==
    /\ cr \in [Keys -> Specs \cup {None}]
    /\ ProcessInit

(***************************************************************************)
(* stopRemoteWriteJobLocked on the jobs of the keys in stop, then          *)
(* createRemoteWriteJobLocked on the keys in create, with the              *)
(* configurations spec, in one critical section.  collectedMetrics is left *)
(* alone by both.                                                          *)
(***************************************************************************)
\* Mutant: the stopped job stays in c.jobs.
JobsKeptAfter(stop, create, new) ==
    [k \in Keys |-> IF k \in create THEN new[k] ELSE jobs[k]]

JobsAfter(stop, create, new) ==
    [k \in Keys |-> IF k \in create THEN new[k] ELSE IF k \in stop THEN None ELSE jobs[k]]

\* Mutant: the job is taken out of c.jobs and its StopCh left open.
StopChOpenAfter(stop) == stopped

StopChAfter(stop) ==
    [i \in Ids |-> stopped[i] \/ \E k \in stop : jobs[k] = i]

\* Mutant: the job is registered and its goroutine never started.
CollectorsNotStarted(create, new) == pc

CollectorsAfter(create, new) ==
    [i \in Ids |-> IF \E k \in create : new[k] = i THEN "targets" ELSE pc[i]]

StopAndCreate(stop, create, spec) ==
    \E new \in Injection(create, Unused) :
        /\ jobs' = JobsAfter(stop, create, new)
        /\ jobKey' = [i \in Ids |-> IF \E k \in create : new[k] = i
                                    THEN CHOOSE k \in create : new[k] = i
                                    ELSE jobKey[i]]
        /\ jobSpec' = [i \in Ids |-> IF \E k \in create : new[k] = i
                                     THEN spec[CHOOSE k \in create : new[k] = i]
                                     ELSE jobSpec[i]]
        /\ stopped' = StopChAfter(stop)
        /\ pc' = CollectorsAfter(create, new)

\* Mutant: the old patterns are looked up among the new ones.
OldPatternsMissing(old, new) ==
    \/ old.exact # new.exact
    \/ Len(old.patterns) # Len(new.patterns)
    \/ ~(Range(old.patterns) \subseteq Range(new.patterns))
    \/ old.prometheus # None /\ new.prometheus # None /\ old.prometheus # new.prometheus

(***************************************************************************)
(* hasConfigurationChanged.  Of the patterns it compares the number, and   *)
(* looks each new one up among the old; a prometheus block that comes or   *)
(* goes is not looked at.  The relation is not symmetric.                  *)
(***************************************************************************)
HasConfigurationChanged(old, new) ==
    \/ old.exact # new.exact
    \/ Len(old.patterns) # Len(new.patterns)
    \/ ~(Range(new.patterns) \subseteq Range(old.patterns))
    \/ old.prometheus # None /\ new.prometheus # None /\ old.prometheus # new.prometheus

-----------------------------------------------------------------------------
(* Start: list, create the jobs one critical section each, launch the loop. *)

StartList ==
    /\ starter = "init"
    /\ ~ctxDone
    /\ starter' = "loading"
    /\ listing' = cr
    /\ todo' = {k \in Keys : cr[k] # None}
    /\ UNCHANGED <<envVars, jobs, collected, jobVars, loop, stopper, ctxDone>>

\* The List fails (always, once the context is cancelled): logged, no job loaded.
StartListFails ==
    /\ starter = "init"
    /\ starter' = "loading"
    /\ UNCHANGED <<envVars, jobs, collected, jobVars, loop, stopper, listing, todo, ctxDone>>

\* createRemoteWriteJob for one listed item; an unsupported target type is an error.
LoadNext(k) ==
    /\ starter = "loading"
    /\ k \in todo
    /\ todo' = todo \ {k}
    /\ StopAndCreate({}, IF listing[k].supported THEN {k} ELSE {}, listing)
    /\ UNCHANGED <<envVars, collected, starter, loop, stopper, listing, ctxDone>>

LaunchLoop ==
    /\ starter = "loading"
    /\ todo = {}
    /\ starter' = "done"
    /\ loop' = "select"
    /\ listing' = NoListing
    /\ UNCHANGED <<envVars, jobs, collected, jobVars, stopper, todo, ctxDone>>

-----------------------------------------------------------------------------
(* reconcileLoop: a select over ctx.Done, stopCh and the ticker, any of the *)
(* ready ones being taken.                                                 *)

LoopReturns ==
    /\ loop = "select"
    /\ ctxDone \/ stopper # "none"
    /\ loop' = "returned"
    /\ UNCHANGED <<envVars, jobs, collected, jobVars, starter, stopper, listing, todo, ctxDone>>

\* The tick's List, made without c.mu.
TickList ==
    /\ loop = "select"
    /\ ~ctxDone
    /\ loop' = "reconcile"
    /\ listing' = cr
    /\ UNCHANGED <<envVars, jobs, collected, jobVars, starter, stopper, todo, ctxDone>>

\* The List fails: reconcile returns the error and the sweep still runs.
TickListFails ==
    /\ loop = "select"
    /\ loop' = "sweep"
    /\ UNCHANGED <<envVars, jobs, collected, jobVars, starter, stopper, listing, todo, ctxDone>>

Desired == {k \in Keys : listing[k] # None}

Changed ==
    {k \in Desired \cap Registered : HasConfigurationChanged(jobSpec[jobs[k]], listing[k])}

\* Mutant: the jobs whose resource is gone or disabled are not stopped.
ReconcileKeepsUndesired ==
    /\ loop = "reconcile"
    /\ StopAndCreate(Changed,
                     {k \in Changed \cup (Desired \ Registered) : listing[k].supported},
                     listing)
    /\ loop' = "sweep"
    /\ listing' = NoListing
    /\ UNCHANGED <<envVars, collected, starter, stopper, todo, ctxDone>>

\* The critical section of reconcileRemoteWriteJobs, on the list read before it.
Reconcile ==
    /\ loop = "reconcile"
    /\ StopAndCreate(Changed \cup (Registered \ Desired),
                     {k \in Changed \cup (Desired \ Registered) : listing[k].supported},
                     listing)
    /\ loop' = "sweep"
    /\ listing' = NoListing
    /\ UNCHANGED <<envVars, collected, starter, stopper, todo, ctxDone>>

\* Mutant: the stalled jobs are recreated and the old ones not stopped.
SelfHealWithoutStop ==
    /\ loop = "sweep"
    /\ \E stalled \in SUBSET Registered :
          StopAndCreate({}, stalled, [k \in stalled |-> jobSpec[jobs[k]]])
    /\ loop' = "select"
    /\ UNCHANGED <<envVars, collected, starter, stopper, listing, todo, ctxDone>>

\* Mutant: the sweep waits for a moment in which no job is in a cycle.
SelfHealBetweenCycles ==
    /\ loop = "sweep"
    /\ \A k \in Registered : pc[jobs[k]] = "select"
    /\ \E stalled \in SUBSET Registered :
          StopAndCreate(stalled, stalled, [k \in stalled |-> jobSpec[jobs[k]]])
    /\ loop' = "select"
    /\ UNCHANGED <<envVars, collected, starter, stopper, listing, todo, ctxDone>>

\* evaluateSelfHeal: stop and recreate the jobs judged stalled (see SelfHeal).
SelfHeal ==
    /\ loop = "sweep"
    /\ \E stalled \in SUBSET Registered :
          StopAndCreate(stalled, stalled, [k \in stalled |-> jobSpec[jobs[k]]])
    /\ loop' = "select"
    /\ UNCHANGED <<envVars, collected, starter, stopper, listing, todo, ctxDone>>

ProcessEnds ==
    /\ UNCHANGED cr
    /\ jobs' = [k \in Keys |-> None]
    /\ collected' = [k \in Keys |-> None]
    /\ jobKey' = [i \in Ids |-> None]
    /\ jobSpec' = [i \in Ids |-> None]
    /\ stopped' = [i \in Ids |-> FALSE]
    /\ pc' = [i \in Ids |-> "none"]
    /\ starter' = "init"
    /\ loop' = "off"
    /\ stopper' = "none"
    /\ listing' = NoListing
    /\ todo' = {}
    /\ ctxDone' = FALSE

\* evaluateSelfHeal's last resort, c.exit(1); the pod is started again.
PodRestart == loop = "sweep" /\ ProcessEnds

\* The pod is deleted, evicted or killed at any point, and started again.
Crash == starter # "init" /\ ProcessEnds

-----------------------------------------------------------------------------
(* Stop, called once on a controller that was started.                     *)

CloseStopCh ==
    /\ stopper = "none"
    /\ starter = "done"
    /\ stopper' = "closed"
    /\ UNCHANGED <<envVars, jobs, collected, jobVars, starter, loop, listing, todo, ctxDone>>

StopAllJobs ==
    /\ stopper = "closed"
    /\ StopAndCreate(Registered, {}, NoListing)
    /\ stopper' = "waiting"
    /\ UNCHANGED <<envVars, collected, starter, loop, listing, todo, ctxDone>>

\* <-c.doneCh, which reconcileLoop closes as it returns.
StopReturns ==
    /\ stopper = "waiting"
    /\ loop = "returned"
    /\ stopper' = "returned"
    /\ UNCHANGED <<envVars, jobs, collected, jobVars, starter, loop, listing, todo, ctxDone>>

\* Leadership is lost or the process is shutting down.
CancelContext ==
    /\ ~ctxDone
    /\ ctxDone' = TRUE
    /\ UNCHANGED <<envVars, jobs, collected, jobVars, starter, loop, stopper, listing, todo>>

\* A MetricAccess is created, edited, disabled or deleted.
EditMetricAccess(k, s) ==
    /\ s # cr[k]
    /\ cr' = [cr EXCEPT ![k] = s]
    /\ UNCHANGED <<jobs, collected, jobVars, ctlVars>>

-----------------------------------------------------------------------------
(* runRemoteWriteJob and collectMetrics, for the job i.                    *)

Goto(i, from, to) ==
    /\ pc[i] = from
    /\ pc' = [pc EXCEPT ![i] = to]
    /\ UNCHANGED <<jobKey, jobSpec, stopped>>

\* GetTargets, without c.mu: some target is healthy, or none is.
GetTargets(i) ==
    /\ \E to \in {"querying", "noTargets"} : Goto(i, "targets", to)
    /\ UNCHANGED <<envVars, jobs, collected, ctlVars>>

\* No healthy target: the critical section that stores an empty result.
StoreNoTargets(i) ==
    /\ Goto(i, "noTargets", "record")
    /\ collected' = [collected EXCEPT ![jobKey[i]] = Empty]
    /\ UNCHANGED <<envVars, jobs, ctlVars>>

\* The targets are queried and the deduplicated series stored; nothing was found.
StoreEmpty(i) ==
    /\ Goto(i, "querying", "record")
    /\ collected' = [collected EXCEPT ![jobKey[i]] = Empty]
    /\ UNCHANGED <<envVars, jobs, ctlVars>>

\* The targets are queried and the deduplicated series stored.
StoreCollected(i) ==
    /\ Goto(i, "querying", "sending")
    /\ collected' = [collected EXCEPT ![jobKey[i]] = jobSpec[i]]
    /\ UNCHANGED <<envVars, jobs, ctlVars>>

\* sendMetrics returns, with or without an error.
Send(i) ==
    /\ Goto(i, "sending", "record")
    /\ UNCHANGED <<envVars, jobs, collected, ctlVars>>

\* LastRun and updateJobStatus, then back to the select.
Record(i) ==
    /\ Goto(i, "record", "select")
    /\ UNCHANGED <<envVars, jobs, collected, ctlVars>>

\* The select takes the ticker, which it may even when StopCh is closed.
JobTick(i) ==
    /\ Goto(i, "select", "targets")
    /\ UNCHANGED <<envVars, jobs, collected, ctlVars>>

\* Mutant: the goroutine looks for its key in c.jobs and not at its own StopCh.
JobReturnsIfUnregistered(i) ==
    /\ pc[i] = "select"
    /\ stopped[i] /\ jobs[jobKey[i]] = None
    /\ pc' = [pc EXCEPT ![i] = "none"]
    /\ jobKey' = [jobKey EXCEPT ![i] = None]
    /\ jobSpec' = [jobSpec EXCEPT ![i] = None]
    /\ stopped' = [stopped EXCEPT ![i] = FALSE]
    /\ UNCHANGED <<envVars, jobs, collected, ctlVars>>

\* The select takes StopCh: the goroutine returns and its job is garbage.
JobReturns(i) ==
    /\ pc[i] = "select"
    /\ stopped[i]
    /\ pc' = [pc EXCEPT ![i] = "none"]
    /\ jobKey' = [jobKey EXCEPT ![i] = None]
    /\ jobSpec' = [jobSpec EXCEPT ![i] = None]
    /\ stopped' = [stopped EXCEPT ![i] = FALSE]
    /\ UNCHANGED <<envVars, jobs, collected, ctlVars>>

CycleStep(i) ==
    \/ GetTargets(i)
    \/ StoreNoTargets(i)
    \/ StoreEmpty(i)
    \/ StoreCollected(i)
    \/ Send(i)
    \/ Record(i)

Collector(i) == CycleStep(i) \/ JobTick(i) \/ JobReturns(i)

-----------------------------------------------------------------------------
LoadAny == \E k \in Keys : LoadNext(k)

Controller ==
    \/ StartList \/ StartListFails \/ LoadAny \/ LaunchLoop
    \/ LoopReturns \/ TickList \/ TickListFails \/ Reconcile \/ SelfHeal \/ PodRestart
    \/ CloseStopCh \/ StopAllJobs \/ StopReturns

Environment ==
    \/ CancelContext
    \/ Crash
    \/ \E k \in Keys, s \in Specs \cup {None} : EditMetricAccess(k, s)

Next ==
    \/ Controller
    \/ Environment
    \/ \E i \in Ids : Collector(i)

Spec == Init /\ [][Next]_vars

(***************************************************************************)
(* Fairness.  Queries and sends carry 30 s timeouts and c.mu is only held  *)
(* over memory operations, so a goroutine that can step does.  A Go select *)
(* picks among its ready cases at random, so a case that is ready again    *)
(* and again is eventually taken (strong fairness), and a List that is     *)
(* tried again and again eventually succeeds.                              *)
(***************************************************************************)
Fairness ==
    /\ WF_vars(StartList \/ StartListFails)
    /\ WF_vars(LoadAny)
    /\ WF_vars(LaunchLoop)
    /\ SF_vars(LoopReturns)
    /\ SF_vars(TickList)
    /\ WF_vars(Reconcile)
    /\ WF_vars(SelfHeal)
    /\ WF_vars(StopAllJobs)
    /\ WF_vars(StopReturns)
    /\ \A i \in Ids :
          WF_vars(CycleStep(i)) /\ WF_vars(JobTick(i)) /\ SF_vars(JobReturns(i))

FairSpec == Spec /\ Fairness

-----------------------------------------------------------------------------
(* Safety.                                                                 *)

(***************************************************************************)
(* A job found in c.jobs runs, its StopCh is open and it collects for the  *)
(* key it is found under.  Every stop closes the StopCh of a job it found  *)
(* there: one found closed would panic the process ("close of closed       *)
(* channel") with c.mu held.                                               *)
(***************************************************************************)
RegisteredJobsOpen ==
    \A k \in Registered : /\ Open(jobs[k])
                          /\ jobKey[jobs[k]] = k
                          /\ jobSpec[jobs[k]].supported

(***************************************************************************)
(* No collector runs with an open StopCh that c.jobs does not lead to:     *)
(* nothing could ever stop it, and its tenant would be written twice on    *)
(* every interval.                                                         *)
(***************************************************************************)
NoOrphanedCollector ==
    \A i \in Ids : Open(i) => jobs[jobKey[i]] = i

(***************************************************************************)
(* The controller keeps the promises of JobRegistry: every critical        *)
(* section of load, reconcile, self-heal and Stop hands keys to fresh      *)
(* collectors only, and a collector that loses its key is stopped.         *)
(***************************************************************************)
Registry == INSTANCE JobRegistry WITH
    owner <- jobs,
    retiring <- {i \in Ids : Running(i) /\ stopped[i]}

RefinesRegistry == Registry!Spec

Runnable(k) == cr[k] # None /\ cr[k].supported

\* What some resources ask for, where it is supported, and what the registered
\* jobs collect with.
Asked(resources) ==
    [k \in Keys |-> IF resources[k] # None /\ resources[k].supported
                    THEN resources[k] ELSE None]

Collecting ==
    [k \in Keys |-> IF jobs[k] # None THEN jobSpec[jobs[k]] ELSE None]

(***************************************************************************)
(* The least a job's configuration owes the one its resource asks for now: *)
(* no pattern asked for is missing; the patterns are the very ones asked   *)
(* for, unless some is asked for twice; the rest is the same, but for a    *)
(* prometheus block that came or went and for what is ignored.             *)
(***************************************************************************)
StandsInFor(served, asked) ==
    /\ served.exact = asked.exact
    /\ Range(asked.patterns) \subseteq Range(served.patterns)
    /\ IsInjective(asked.patterns) => Range(served.patterns) = Range(asked.patterns)
    /\ served.prometheus = asked.prometheus \/ None \in {served.prometheus, asked.prometheus}

Unnoticed == {pair \in Specs \X Specs : StandsInFor(pair[1], pair[2])}

LoopPhase ==
    CASE starter = "init"    -> "new"
      [] starter = "loading" -> "loading"
      [] OTHER -> IF loop = "reconcile" THEN "ticking"
                  ELSE IF loop = "returned" THEN "returned" ELSE "waiting"

ToldToEnd ==
    (IF ctxDone THEN {"cancelled"} ELSE {})
        \cup (IF stopper = "none" THEN {} ELSE {"stopped"})

(***************************************************************************)
(* And those of Reconciliation: Start and each reconcile bring the jobs to *)
(* what their List returned, taken as a whole, although they start, stop   *)
(* and keep jobs one by one.  A job keeps its configuration against the    *)
(* listed one only where it stands in for it, which hasConfigurationChanged *)
(* decides from less; sweeps change nothing of it, and a cancelled loop    *)
(* lists no more.                                                          *)
(***************************************************************************)
Reconciling == INSTANCE Reconciliation WITH
    Nothing <- None,
    Passes  <- Unnoticed,
    wanted  <- Asked(cr),
    serving <- Collecting,
    listed  <- Asked(listing),
    phase   <- LoopPhase,
    told    <- ToldToEnd

RefinesReconciliation == Reconciling!Spec

-----------------------------------------------------------------------------
(* Liveness, under FairSpec.                                               *)

(***************************************************************************)
(* A stopped collector eventually returns, whatever it was doing when it   *)
(* was stopped (JobRegistry's fairness).                                   *)
(***************************************************************************)
StoppedCollectorsReturn ==
    \A i \in Ids : (Running(i) /\ stopped[i]) ~> ~(Running(i) /\ stopped[i])

\* The reconcile loop runs and nobody has asked it to end.
Serving == starter = "done" /\ loop # "returned" /\ stopper = "none" /\ ~ctxDone

(***************************************************************************)
(* The loop keeps turning: it lists again and again, and never stays in a  *)
(* reconcile, whatever sweeps, stops and cycles have to wait for.          *)
(***************************************************************************)
LoopTurns == <>[]Serving => []<>(loop = "reconcile") /\ []<>(loop # "reconcile")

\* No job more than the resources ask for, no job less, each with a
\* configuration that stands in for its resource's.
JobsMatch ==
    \A k \in Keys :
        IF Runnable(k)
        THEN jobs[k] # None /\ StandsInFor(jobSpec[jobs[k]], cr[k])
        ELSE jobs[k] = None

(***************************************************************************)
(* Once the MetricAccess resources stop changing and the process stays up, *)
(* the jobs settle: exactly the keys enabled with a supported target have  *)
(* one, and no metric pattern of the resource, interval, label or replica  *)
(* of a known set is missed in it, little as hasConfigurationChanged       *)
(* compares.  This holds whatever edits raced the lists, and whatever the  *)
(* self-heal sweeps keep recreating.                                       *)
(***************************************************************************)
JobsConverge == <>[]Serving /\ <>[][FALSE]_cr => <>[]JobsMatch

(***************************************************************************)
(* Then what is stored for such a key comes to be collected with the       *)
(* configuration of the job it has, however late a collector of an earlier *)
(* one stores.                                                             *)
(***************************************************************************)
CollectedMatches ==
    \A k \in Keys :
        Runnable(k) => jobs[k] # None /\ collected[k] \in {Empty, jobSpec[jobs[k]]}

CollectedConverges == <>[]Serving /\ <>[][FALSE]_cr => <>[]CollectedMatches

-----------------------------------------------------------------------------
(* What the repository says and the code does not do: one run refutes it.   *)

(***************************************************************************)
(* "All remote write goroutines stop automatically" once the leader's      *)
(* context is cancelled.                                                   *)
(***************************************************************************)
CancelStopsCollectors ==
    ctxDone ~> (~ctxDone \/ \A i \in Ids : ~Running(i))
=============================================================================
