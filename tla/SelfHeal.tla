------------------------------- MODULE SelfHeal -------------------------------
(***************************************************************************)
(* The self-heal watchdog of the remote-write leader, with its clock       *)
(* (src/internal/remote_write/controller.go, evaluateSelfHeal and the       *)
(* bookkeeping collectMetrics does for it).                                *)
(*                                                                         *)
(* A collection cycle leaves timestamps on its RemoteWriteJob; every       *)
(* reconcile tick, a sweep over the jobs reads them and recreates a stalled *)
(* job, or exits the process as a last resort.  An exit loses everything   *)
(* but the clock: the next process starts from nothing.                    *)
(*                                                                         *)
(* Only the job registered for a key matters here: a collector that was    *)
(* stopped writes to its own struct, which no sweep reads (JobLifecycle    *)
(* has both).                                                              *)
(***************************************************************************)
EXTENDS Integers

CONSTANTS
    Keys,               \* namespace/name of the MetricAccess resources
    None,               \* no registered job
    StallGrace,         \* stallGracePeriod(): positive, as are the next three
    RecreateBackoff,    \* recreateBackoff()
    PodRestartGrace,    \* podRestartGracePeriod()
    PodRestartCooldown, \* podRestartCooldown()
    SelfHealPodRestart, \* selfHealPodRestartEnabled()
    MaxClock            \* bound on the clock

ASSUME SelfHealAssumption ==
    /\ StallGrace \in Nat \ {0}
    /\ RecreateBackoff \in Nat \ {0}
    /\ PodRestartGrace \in Nat \ {0}
    /\ PodRestartCooldown \in Nat \ {0}
    /\ SelfHealPodRestart \in BOOLEAN
    /\ MaxClock \in Nat \ {0}

VARIABLES
    now,               \* the controller clock; 0 is Go's zero time, "never"
    loop,              \* the reconcile loop: "down", "waiting", "clock", "sweep"
    sweepNow,          \* the c.now() handed to evaluateSelfHeal
    lastSelfRestartAt, \* of the controller
    job,               \* key -> registered job, or None
    \* history
    clean,             \* key -> end of its last cycle that answered without an error
    fault,             \* key -> since then, a cycle failed or time passed that was
                       \* not spent waiting after a cycle that found no target
    healedAt,          \* key -> when a sweep last recreated its job
    exitAt             \* the sweep time of the last self-restart

vars == <<now, loop, sweepNow, lastSelfRestartAt, job, clean, fault, healedAt, exitAt>>
history == <<clean, fault, healedAt, exitAt>>

Time == 0..MaxClock

Positions ==
    {"targets",     \* about to read the targets
     "noTargets",   \* read them, none healthy
     "querying",    \* querying the healthy ones
     "sending",     \* stored at least one series, sending
     "empty",       \* stored none: every query was answered, without a match
     "unanswered",  \* stored none: queries failed, which collectFromTarget logs
                    \* and skips, so that targetErr stays false
     "idle"}        \* in the select, between two cycles

Job == [pc : Positions,
        createdAt : Time, lastClean : Time, lastRecreateAt : Time, stalledSince : Time,
        hadTargets : BOOLEAN,  \* lastCycleHadHealthyTargets
        recreated : BOOLEAN,   \* recreateCount >= 1, all that is ever asked of it
        up : BOOLEAN]          \* lastCollectionSucceeded

TypeOK ==
    /\ now \in Time \ {0}
    /\ loop \in {"down", "waiting", "clock", "sweep"}
    /\ sweepNow \in Time
    /\ lastSelfRestartAt \in Time
    /\ job \in [Keys -> Job \cup {None}]
    /\ clean \in [Keys -> Time]
    /\ fault \in [Keys -> BOOLEAN]
    /\ healedAt \in [Keys -> Time]
    /\ exitAt \in Time

Registered == {k \in Keys : job[k] # None}

\* What a scrape reports as collection_up, for the tenants that have a job.
CollectionUp(k) == k \in Registered /\ job[k].up

\* createRemoteWriteJobLocked: a zero struct, but for createdAt.
NewJob == [pc |-> "targets",
           createdAt |-> now, lastClean |-> 0, lastRecreateAt |-> 0, stalledSince |-> 0,
           hadTargets |-> FALSE, recreated |-> FALSE, up |-> FALSE]

Init ==
    /\ now = 1
    /\ loop = "down"
    /\ sweepNow = 0
    /\ lastSelfRestartAt = 0
    /\ job = [k \in Keys |-> None]
    /\ clean = [k \in Keys |-> 0]
    /\ fault = [k \in Keys |-> FALSE]
    /\ healedAt = [k \in Keys |-> 0]
    /\ exitAt = 0

-----------------------------------------------------------------------------
(* collectMetrics for the registered job of k.                             *)

CycleStep(k, from, j) ==
    /\ job[k] # None
    /\ job[k].pc = from
    /\ job' = [job EXCEPT ![k] = j]
    /\ UNCHANGED <<now, loop, sweepNow, lastSelfRestartAt, healedAt, exitAt>>

\* GetTargets and the filter on Healthy, without c.mu.
GetTargets(k) ==
    /\ \E to \in {"querying", "noTargets"} :
          CycleStep(k, "targets", [job[k] EXCEPT !.pc = to])
    /\ UNCHANGED <<clean, fault>>

\* No healthy target: a failed cycle the watchdog is told not to act upon.
NoTargets(k) ==
    /\ CycleStep(k, "noTargets", [job[k] EXCEPT !.pc = "idle", !.hadTargets = FALSE,
                                                !.up = FALSE])
    /\ UNCHANGED <<clean, fault>>

\* Every target queried; the series are stored, before they are sent.
StoreCollected(k) ==
    /\ \E to \in {"sending", "empty", "unanswered"} :
          CycleStep(k, "querying", [job[k] EXCEPT !.pc = to, !.hadTargets = TRUE])
    /\ UNCHANGED <<clean, fault>>

\* Mutant: a success does not end the stall it recovers from.
SendSucceedsStillStalled(k) ==
    /\ CycleStep(k, "sending", [job[k] EXCEPT !.pc = "idle", !.lastClean = now,
                                              !.lastRecreateAt = 0, !.up = TRUE])
    /\ clean' = [clean EXCEPT ![k] = now]
    /\ fault' = [fault EXCEPT ![k] = FALSE]

\* SUCCESS.
SendSucceeds(k) ==
    /\ CycleStep(k, "sending", [job[k] EXCEPT !.pc = "idle", !.lastClean = now,
                                              !.lastRecreateAt = 0, !.stalledSince = 0,
                                              !.up = TRUE])
    /\ clean' = [clean EXCEPT ![k] = now]
    /\ fault' = [fault EXCEPT ![k] = FALSE]

\* FAILURE: none of the watchdog's fields changes.
SendFails(k) ==
    /\ CycleStep(k, "sending", [job[k] EXCEPT !.pc = "idle", !.up = FALSE])
    /\ fault' = [fault EXCEPT ![k] = TRUE]
    /\ UNCHANGED clean

\* CLEAN-EMPTY.  The branch before it, on targetErr, cannot be reached:
\* collectFromTarget returns an error for an unhealthy target only.
CleanEmpty(k) ==
    /\ \E from \in {"empty", "unanswered"} :
          /\ CycleStep(k, from, [job[k] EXCEPT !.pc = "idle", !.lastClean = now,
                                               !.stalledSince = 0, !.up = FALSE])
          /\ clean' = [clean EXCEPT ![k] = IF from = "empty" THEN now ELSE @]
          /\ fault' = [fault EXCEPT ![k] = from = "unanswered"]

\* The job's ticker.
NextCycle(k) ==
    /\ CycleStep(k, "idle", [job[k] EXCEPT !.pc = "targets"])
    /\ UNCHANGED <<clean, fault>>

Collect(k) ==
    \/ GetTargets(k)
    \/ NoTargets(k)
    \/ StoreCollected(k)
    \/ SendSucceeds(k)
    \/ SendFails(k)
    \/ CleanEmpty(k)
    \/ NextCycle(k)

-----------------------------------------------------------------------------
(* The controller's process and its reconcile loop.                        *)

\* Leadership is acquired: Start lists the resources, creates their jobs and
\* launches the loop, which sets isLeader (so isLeader is loop # "down").
Start ==
    /\ loop = "down"
    /\ \E enabled \in SUBSET Keys :
          job' = [k \in Keys |-> IF k \in enabled THEN NewJob ELSE None]
    /\ loop' = "waiting"
    /\ fault' = [k \in Keys |-> FALSE]
    /\ UNCHANGED <<now, sweepNow, lastSelfRestartAt, clean, healedAt, exitAt>>

\* A tick: jobs are created or replaced by new structs, and stopped, as the
\* MetricAccess resources say.
Reconcile ==
    /\ loop = "waiting"
    /\ \E fresh \in SUBSET Keys, gone \in SUBSET Registered :
          /\ job' = [k \in Keys |-> IF k \in fresh THEN NewJob
                                    ELSE IF k \in gone THEN None
                                    ELSE job[k]]
          /\ fault' = [k \in Keys |-> fault[k] /\ k \notin fresh]
    /\ loop' = "clock"
    /\ UNCHANGED <<now, sweepNow, lastSelfRestartAt, clean, healedAt, exitAt>>

\* The clock is read before evaluateSelfHeal takes c.mu.
ReadClock ==
    /\ loop = "clock"
    /\ sweepNow' = now
    /\ loop' = "sweep"
    /\ UNCHANGED <<now, lastSelfRestartAt, job, history>>

-----------------------------------------------------------------------------
(* evaluateSelfHeal.                                                       *)

\* Mutant: a job without a clean cycle is stalled from the start.
LastCleanOnly(j) == j.lastClean

\* Its last clean cycle, its creation before the first.
Baseline(j) == IF j.lastClean # 0 THEN j.lastClean ELSE j.createdAt

\* isJobStalledLocked.
IsStalled(j) == sweepNow - Baseline(j) > StallGrace

\* The sweep seeds stalledSince on every stalled job it visits.
Seeded(j) == [j EXCEPT !.stalledSince = IF @ = 0 THEN sweepNow ELSE @]

\* Mutant: the restart does not wait for a recreate.
EscalateWithoutRecreate(j) ==
    /\ SelfHealPodRestart
    /\ loop # "down"
    /\ j.hadTargets
    /\ j.stalledSince # 0
    /\ sweepNow - j.stalledSince > PodRestartGrace

ShouldEscalatePodRestart(j) ==
    /\ SelfHealPodRestart
    /\ loop # "down"
    /\ j.hadTargets
    /\ j.recreated
    /\ j.stalledSince # 0
    /\ sweepNow - j.stalledSince > PodRestartGrace

CooledDown ==
    \/ lastSelfRestartAt = 0
    \/ sweepNow - lastSelfRestartAt >= PodRestartCooldown

InBackoff(j) ==
    /\ j.lastRecreateAt # 0
    /\ sweepNow - j.lastRecreateAt < RecreateBackoff

\* Mutant: the fresh job inherits the creation time of the old one too.
RecreatedInPlace(j) ==
    [NewJob EXCEPT !.createdAt = j.createdAt,
                   !.lastRecreateAt = sweepNow,
                   !.recreated = TRUE,
                   !.stalledSince = j.stalledSince,
                   !.hadTargets = j.hadTargets]

\* Mutant: the end of the backoff is stored where its start is expected.
RecreatedUntil(j) ==
    [NewJob EXCEPT !.lastRecreateAt = sweepNow + RecreateBackoff,
                   !.recreated = TRUE,
                   !.stalledSince = j.stalledSince,
                   !.hadTargets = j.hadTargets]

\* Mutant: the verdict of the last cycle is carried forward too.
RecreatedStillUp(j) ==
    [NewJob EXCEPT !.lastRecreateAt = sweepNow,
                   !.recreated = TRUE,
                   !.stalledSince = j.stalledSince,
                   !.hadTargets = j.hadTargets,
                   !.up = j.up]

\* The fresh struct, and what is carried forward onto it.
Recreated(j) ==
    [NewJob EXCEPT !.lastRecreateAt = sweepNow,
                   !.recreated = TRUE,
                   !.stalledSince = j.stalledSince,
                   !.hadTargets = j.hadTargets]

Stalled    == {k \in Registered : IsStalled(job[k])}
Escalating == {k \in Stalled : ShouldEscalatePodRestart(Seeded(job[k]))}
Recreating == {k \in Stalled \ Escalating : job[k].hadTargets /\ ~InBackoff(job[k])}

SweepJobs ==
    /\ job' = [k \in Keys |-> IF k \in Recreating THEN Recreated(Seeded(job[k]))
                              ELSE IF k \in Stalled THEN Seeded(job[k])
                              ELSE job[k]]
    /\ healedAt' = [k \in Keys |-> IF k \in Recreating THEN now ELSE healedAt[k]]

\* Nobody's turn to exit: no job escalates, or the cooldown holds them back.
Sweep ==
    /\ loop = "sweep"
    /\ ~(CooledDown /\ Escalating # {})
    /\ SweepJobs
    /\ loop' = "waiting"
    /\ UNCHANGED <<now, sweepNow, lastSelfRestartAt, clean, fault, exitAt>>

ProcessEnds ==
    /\ loop' = "down"
    /\ job' = [k \in Keys |-> None]
    /\ lastSelfRestartAt' = 0
    /\ sweepNow' = 0

\* The last resort: lastSelfRestartAt is set and the process exits, which loses
\* it and whatever the sweep did to the jobs it visited before.  c.exit returns
\* in tests only.
PodRestart ==
    /\ loop = "sweep"
    /\ CooledDown
    /\ Escalating # {}
    /\ ProcessEnds
    /\ exitAt' = sweepNow
    /\ UNCHANGED <<now, clean, fault, healedAt>>

-----------------------------------------------------------------------------
\* The pod is deleted, evicted or killed; a new leader starts from nothing.
Crash ==
    /\ loop # "down"
    /\ ProcessEnds
    /\ UNCHANGED <<now, history>>

\* k has a job, which waits for its next cycle, the last one having found no
\* healthy target.
WaitsOutOutage(k) == k \in Registered /\ job[k].pc = "idle" /\ ~job[k].hadTargets

Tick ==
    /\ now < MaxClock
    /\ now' = now + 1
    /\ fault' = [k \in Keys |-> fault[k] \/ ~WaitsOutOutage(k)]
    /\ UNCHANGED <<loop, sweepNow, lastSelfRestartAt, job, clean, healedAt, exitAt>>

Next ==
    \/ \E k \in Keys : Collect(k)
    \/ Start \/ Reconcile \/ ReadClock
    \/ Sweep \/ PodRestart
    \/ Crash
    \/ Tick

Spec == Init /\ [][Next]_vars

-----------------------------------------------------------------------------
(* What the watchdog may never do.                                         *)

(***************************************************************************)
(* Two self-restarts are further apart than both grace periods together,   *)
(* although the process that exits forgets when it did: whoever runs next  *)
(* has to see a job stalled for StallGrace, and then for PodRestartGrace.  *)
(* This, not lastSelfRestartAt, is what throttles a restart loop.          *)
(***************************************************************************)
RestartSpacing ==
    [][PodRestart /\ exitAt # 0 => sweepNow - exitAt > StallGrace + PodRestartGrace]_vars

(***************************************************************************)
(* A restart is never asked for by a tenant that had a clean cycle within  *)
(* both grace periods, across recreates, replaced configurations and       *)
(* earlier processes.                                                      *)
(***************************************************************************)
RestartOnlyAfterLongFailure ==
    [][PodRestart => \A k \in Escalating :
                     sweepNow - clean[k] > StallGrace + PodRestartGrace]_vars

(***************************************************************************)
(* A restart is never asked for by a job that was not recreated before, or *)
(* whose recreated self has not had a full StallGrace to recover.          *)
(***************************************************************************)
RecreateIsGivenAChance ==
    [][PodRestart => \A k \in Escalating :
                     healedAt[k] # 0 /\ sweepNow - healedAt[k] > StallGrace]_vars

(***************************************************************************)
(* Two recreates of one tenant's job are further apart than StallGrace,    *)
(* whatever cleared lastRecreateAt in between: a clean cycle, a new        *)
(* configuration or a new process.                                         *)
(***************************************************************************)
RecreateSpacing ==
    [][\A k \in Keys : healedAt'[k] # healedAt[k] /\ healedAt[k] # 0
                          => healedAt'[k] - healedAt[k] > StallGrace]_vars

(***************************************************************************)
(* A sweep leaves no tenant reported up whose last cycle without an error  *)
(* ended more than StallGrace before it: a query or a send that hangs      *)
(* cannot keep collection_up at 1.  The watchdog's gates (healthy targets, *)
(* the backoff, the escalation the cooldown suppresses) never hold back    *)
(* the recreate of a job whose last finished cycle succeeded.              *)
(***************************************************************************)
UpIsRecent ==
    [][Sweep => \A k \in Keys : CollectionUp(k)' => sweepNow - clean[k] <= StallGrace]_vars

-----------------------------------------------------------------------------
(* What the repository says and the code does not do: one run refutes each. *)

(***************************************************************************)
(* The watchdog "acts only on genuine collection failures, never on a      *)
(* source outage": the pod is not restarted for a tenant none of whose     *)
(* cycles failed since its last clean one, if it had any, all the time     *)
(* since then being a source outage.                                       *)
(***************************************************************************)
RestartIsNotForAnOutage ==
    [][PodRestart => \A k \in Escalating : fault[k]]_vars

(***************************************************************************)
(* A job whose cycles reach healthy targets and have not once ended        *)
(* without an error for StallGrace is stalled.                             *)
(***************************************************************************)
SilentFailureIsDetected ==
    loop = "sweep" =>
        \A k \in Registered :
            /\ job[k].hadTargets
            /\ sweepNow - job[k].createdAt > StallGrace
            /\ sweepNow - clean[k] > StallGrace
            => k \in Stalled
=============================================================================
