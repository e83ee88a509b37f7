---------------------------- MODULE SelfHealProofs ----------------------------
(***************************************************************************)
(* SelfHeal for every set of tenants, every positive setting and every     *)
(* bound on the clock: its type invariant, and how far apart recreates and *)
(* restarts are.                                                           *)
(***************************************************************************)
EXTENDS SelfHeal, TLAPS

(***************************************************************************)
(* How the timestamps a job carries are ordered among themselves and with  *)
(* what happened to its tenant.  createdAt bounds them from below, and the *)
(* stall window starts a full StallGrace after the last clean cycle and    *)
(* after the last exit.                                                    *)
(***************************************************************************)
JobTimes(k) ==
    /\ job[k].createdAt # 0
    /\ job[k].createdAt <= now
    /\ job[k].lastClean # 0 => /\ job[k].createdAt <= job[k].lastClean
                               /\ job[k].lastClean <= now
    /\ clean[k] <= Baseline(job[k])
    /\ healedAt[k] <= job[k].createdAt
    /\ job[k].recreated => healedAt[k] # 0
    /\ job[k].stalledSince # 0 => clean[k] + StallGrace < job[k].stalledSince
    /\ exitAt <= job[k].createdAt
    /\ job[k].stalledSince # 0 => exitAt + StallGrace < job[k].stalledSince

Past ==
    /\ sweepNow <= now
    /\ exitAt <= now
    /\ \A k \in Keys : clean[k] <= now /\ healedAt[k] <= now

TimingInv ==
    /\ TypeOK
    /\ Past
    /\ \A k \in Registered : JobTimes(k)

-----------------------------------------------------------------------------
(***************************************************************************)
(* A job that is stalled at this sweep has a baseline, hence a creation,   *)
(* more than StallGrace before it.                                         *)
(***************************************************************************)
LEMMA StalledBaseline ==
    ASSUME TimingInv, NEW k \in Stalled
    PROVE  /\ k \in Keys /\ job[k] \in Job
           /\ Baseline(job[k]) \in Nat
           /\ job[k].createdAt <= Baseline(job[k])
           /\ sweepNow - Baseline(job[k]) > StallGrace
BY SelfHealAssumption
   DEF TimingInv, TypeOK, Stalled, Registered, IsStalled, Baseline, JobTimes, Job, Time

-----------------------------------------------------------------------------
(* Type correctness. *)

\* The structs the code creates and updates are jobs.
LEMMA NewJobType ==
    ASSUME TypeOK
    PROVE  NewJob \in Job
BY SelfHealAssumption DEF TypeOK, NewJob, Job, Time, Positions

\* The structs a sweep seeds or recreates are jobs.
LEMMA SweptJobType ==
    ASSUME TypeOK, NEW j \in Job
    PROVE  Seeded(j) \in Job /\ Recreated(j) \in Job
BY NewJobType DEF TypeOK, Seeded, Recreated, NewJob, Job, Time, Positions

\* A sweep leaves jobs and times of recreation.
LEMMA SweepJobsType ==
    ASSUME TypeOK, SweepJobs
    PROVE  job' \in [Keys -> Job \cup {None}] /\ healedAt' \in [Keys -> Time]
<1>1. ASSUME NEW k \in Keys, k \in Stalled
      PROVE  job[k] \in Job
  BY <1>1 DEF TypeOK, Stalled, Registered
<1>2. ASSUME NEW k \in Keys
      PROVE  job'[k] \in Job \cup {None}
  BY <1>1, SweptJobType DEF SweepJobs, TypeOK, Recreating
<1>3. job' \in [Keys -> Job \cup {None}]
  BY <1>2 DEF SweepJobs
<1>4. healedAt' \in [Keys -> Time]
  BY DEF SweepJobs, TypeOK
<1> QED
  BY <1>3, <1>4

\* A step of a collection cycle keeps the types.
LEMMA CollectType ==
    ASSUME TypeOK, NEW k \in Keys, Collect(k)
    PROVE  TypeOK'
<1>1. ASSUME NEW from, NEW j, CycleStep(k, from, j), j \in Job,
             clean' \in [Keys -> Time], fault' \in [Keys -> BOOLEAN]
      PROVE  TypeOK'
  BY <1>1 DEF TypeOK, CycleStep
<1>2. job[k] # None => job[k] \in Job
  BY DEF TypeOK
<1>3. CASE GetTargets(k)
  BY <1>1, <1>2, <1>3 DEF GetTargets, CycleStep, TypeOK, Job, Positions
<1>4. CASE NoTargets(k)
  BY <1>1, <1>2, <1>4 DEF NoTargets, CycleStep, TypeOK, Job, Positions
<1>5. CASE StoreCollected(k)
  BY <1>1, <1>2, <1>5 DEF StoreCollected, CycleStep, TypeOK, Job, Positions
<1>6. CASE SendSucceeds(k)
  <2> DEFINE j == [job[k] EXCEPT !.pc = "idle", !.lastClean = now,
                                 !.lastRecreateAt = 0, !.stalledSince = 0, !.up = TRUE]
  <2>1. CycleStep(k, "sending", j) /\ job[k] \in Job
    BY <1>2, <1>6 DEF SendSucceeds, CycleStep
  <2>2. now \in Time /\ 0 \in Time
    BY SelfHealAssumption DEF TypeOK, Time
  <2>3. j \in Job
    BY <2>1, <2>2 DEF Job, Positions
  <2>4. clean' \in [Keys -> Time]
    BY <1>6, <2>2 DEF SendSucceeds, TypeOK
  <2>5. fault' \in [Keys -> BOOLEAN]
    BY <1>6 DEF SendSucceeds, TypeOK
  <2> QED
    BY <1>1, <2>1, <2>3, <2>4, <2>5
<1>7. CASE SendFails(k)
  BY <1>1, <1>2, <1>7 DEF SendFails, CycleStep, TypeOK, Job, Positions
<1>8. CASE CleanEmpty(k)
  <2> DEFINE j == [job[k] EXCEPT !.pc = "idle", !.lastClean = now, !.stalledSince = 0,
                                 !.up = FALSE]
  <2>1. PICK from \in {"empty", "unanswered"} :
           /\ CycleStep(k, from, j)
           /\ clean' = [clean EXCEPT ![k] = IF from = "empty" THEN now ELSE @]
           /\ fault' = [fault EXCEPT ![k] = from = "unanswered"]
    BY <1>8 DEF CleanEmpty
  <2>2. now \in Time /\ 0 \in Time /\ job[k] \in Job
    BY <1>2, <2>1, SelfHealAssumption DEF TypeOK, Time, CycleStep
  <2>3. j \in Job
    BY <2>2 DEF Job, Positions
  <2>4. clean' \in [Keys -> Time]
    BY <2>1, <2>2 DEF TypeOK
  <2>5. fault' \in [Keys -> BOOLEAN]
    BY <2>1 DEF TypeOK
  <2> QED
    BY <1>1, <2>1, <2>3, <2>4, <2>5
<1>9. CASE NextCycle(k)
  BY <1>1, <1>2, <1>9 DEF NextCycle, CycleStep, TypeOK, Job, Positions
<1> QED
  BY <1>3, <1>4, <1>5, <1>6, <1>7, <1>8, <1>9 DEF Collect

\* TypeOK is inductive.
LEMMA TypeNext ==
    ASSUME TypeOK, [Next]_vars
    PROVE  TypeOK'
<1>1. ASSUME NEW k \in Keys, Collect(k)
      PROVE  TypeOK'
  BY <1>1, CollectType
<1>2. CASE Start
  BY <1>2, NewJobType DEF Start, TypeOK
<1>3. CASE Reconcile
  BY <1>3, NewJobType DEF Reconcile, TypeOK, Registered
<1>4. CASE ReadClock
  BY <1>4 DEF ReadClock, TypeOK, history
<1>5. CASE Sweep
  BY <1>5, SweepJobsType DEF Sweep, TypeOK
<1>6. CASE PodRestart
  BY <1>6, SelfHealAssumption DEF PodRestart, ProcessEnds, TypeOK, Time
<1>7. CASE Crash
  BY <1>7, SelfHealAssumption DEF Crash, ProcessEnds, TypeOK, Time, history
<1>8. CASE Tick
  BY <1>8, SelfHealAssumption DEF Tick, TypeOK, Time, WaitsOutOutage
<1>9. CASE UNCHANGED vars
  BY <1>9 DEF vars, TypeOK
<1> QED
  BY <1>1, <1>2, <1>3, <1>4, <1>5, <1>6, <1>7, <1>8, <1>9 DEF Next

(***************************************************************************)
(* Every state of the self-heal specification is well typed.               *)
(***************************************************************************)
THEOREM TypeCorrect == Spec => []TypeOK
<1>1. Init => TypeOK
  BY SelfHealAssumption DEF Init, TypeOK, Time
<1>2. TypeOK /\ [Next]_vars => TypeOK'
  BY TypeNext
<1> QED
  BY <1>1, <1>2, PTL DEF Spec

-----------------------------------------------------------------------------
(* The order of the timestamps. *)

\* What JobTimes needs to carry over to a job that a step leaves alone.
LEMMA UntouchedJob ==
    ASSUME TimingInv, TypeOK', NEW k \in Keys,
           job[k] # None, job'[k] = job[k],
           now <= now', exitAt' = exitAt, clean'[k] = clean[k], healedAt'[k] = healedAt[k]
    PROVE  JobTimes(k)'
<1>1. job[k] \in Job /\ now \in Nat /\ now' \in Nat
  BY SelfHealAssumption DEF TimingInv, TypeOK, Time
<1> QED
  BY <1>1, SelfHealAssumption
     DEF TimingInv, TypeOK, Registered, JobTimes, Baseline, Job, Time

\* A fresh struct: nothing its tenant went through lies after its creation.
LEMMA FreshJob ==
    ASSUME TimingInv, NEW k \in Keys,
           job'[k] = NewJob, now' = now, exitAt' = exitAt,
           clean'[k] = clean[k], healedAt'[k] = healedAt[k]
    PROVE  JobTimes(k)'
BY SelfHealAssumption
   DEF TimingInv, TypeOK, Past, JobTimes, Baseline, NewJob, Time

\* The sweep: a stall window opens, or a job is recreated, without its past.
LEMMA SweptJobs ==
    ASSUME TimingInv, TypeOK', SweepJobs,
           now' = now, clean' = clean, exitAt' = exitAt
    PROVE  /\ \A k \in Registered' : JobTimes(k)'
           /\ \A k \in Keys : healedAt'[k] <= now
<1> SUFFICES ASSUME NEW k \in Keys
             PROVE  /\ job'[k] # None => JobTimes(k)'
                    /\ healedAt'[k] <= now
  BY DEF Registered
<1>t. /\ now \in Nat /\ sweepNow \in Nat /\ exitAt \in Nat /\ clean[k] \in Nat
      /\ healedAt[k] \in Nat /\ sweepNow <= now /\ now # 0
      /\ clean[k] <= now /\ healedAt[k] <= now /\ exitAt <= now
      /\ StallGrace \in Nat
  BY SelfHealAssumption DEF TimingInv, TypeOK, Past, Time
<1>1. CASE k \in Stalled
  <2>1. /\ job[k] \in Job /\ Baseline(job[k]) \in Nat
        /\ job[k].createdAt <= Baseline(job[k])
        /\ sweepNow - Baseline(job[k]) > StallGrace
    BY <1>1, StalledBaseline
  <2>2. JobTimes(k)
    BY <1>1 DEF TimingInv, Stalled
  <2> DEFINE since == IF job[k].stalledSince = 0 THEN sweepNow ELSE job[k].stalledSince
  <2>3. /\ since \in Nat /\ since # 0
        /\ clean[k] + StallGrace < since
        /\ exitAt + StallGrace < since
    BY <1>t, <2>1, <2>2 DEF JobTimes, Job, Time
  <2>4. CASE k \in Recreating
    <3>1. /\ job'[k].createdAt = now /\ job'[k].lastClean = 0
          /\ job'[k].stalledSince = since
          /\ healedAt'[k] = now
      BY <2>1, <2>4 DEF SweepJobs, Recreated, Seeded, NewJob, Job
    <3>2. Baseline(job[k])' = now
      BY <3>1 DEF Baseline
    <3> QED
      BY <1>t, <2>3, <3>1, <3>2 DEF JobTimes
  <2>5. CASE k \notin Recreating
    <3>1. /\ job'[k].createdAt = job[k].createdAt
          /\ job'[k].lastClean = job[k].lastClean
          /\ job'[k].recreated = job[k].recreated
          /\ job'[k].stalledSince = since
          /\ healedAt'[k] = healedAt[k]
      BY <1>1, <2>1, <2>5 DEF SweepJobs, Seeded, Job
    <3>2. Baseline(job[k])' = Baseline(job[k])
      BY <3>1 DEF Baseline
    <3> QED
      BY <1>t, <2>1, <2>2, <2>3, <3>1, <3>2 DEF JobTimes, Job, Time
  <2> QED
    BY <2>4, <2>5
<1>2. CASE k \notin Stalled
  <2>1. job'[k] = job[k] /\ healedAt'[k] = healedAt[k]
    BY <1>2 DEF SweepJobs, Recreating
  <2>2. Baseline(job[k])' = Baseline(job[k])
    BY <2>1 DEF Baseline
  <2> QED
    BY <1>t, <2>1, <2>2 DEF JobTimes, TimingInv, Registered
<1> QED
  BY <1>1, <1>2

\* A step of a cycle: it may only end a stall window, or bring the last clean
\* cycle up to now and end the window with it.
LEMMA CycleTimes ==
    ASSUME TimingInv, TypeOK', NEW k \in Keys, NEW from, NEW j \in Job,
           CycleStep(k, from, j),
           j.createdAt = job[k].createdAt, j.recreated = job[k].recreated,
           \/ /\ j.lastClean = job[k].lastClean
              /\ j.stalledSince = job[k].stalledSince
              /\ clean' = clean
           \/ /\ j.lastClean = now
              /\ j.stalledSince = 0
              /\ \E t \in {clean[k], now} : clean' = [clean EXCEPT ![k] = t]
    PROVE  Past' /\ \A c \in Registered' : JobTimes(c)'
<1>t. /\ now \in Nat /\ sweepNow \in Nat /\ exitAt \in Nat /\ now # 0
      /\ now' = now /\ sweepNow' = sweepNow /\ exitAt' = exitAt /\ healedAt' = healedAt
      /\ \A c \in Keys : clean[c] \in Nat /\ healedAt[c] \in Nat
      /\ StallGrace \in Nat
  BY SelfHealAssumption DEF TimingInv, TypeOK, CycleStep, Time
<1>1. \A c \in Keys : clean'[c] <= now
  BY <1>t DEF TimingInv, TypeOK, Past
<1>2. Past'
  BY <1>t, <1>1 DEF TimingInv, Past
<1>3. ASSUME NEW c \in Registered'
      PROVE  JobTimes(c)'
  <2>1. CASE c # k
    <3>1. c \in Keys /\ job'[c] = job[c] /\ job[c] # None /\ clean'[c] = clean[c]
      BY <1>3, <2>1 DEF Registered, CycleStep, TimingInv, TypeOK
    <3> QED
      BY <1>t, <3>1, UntouchedJob
  <2>2. CASE c = k
    <3>1. /\ job'[k] = j /\ job[k] # None /\ job[k] \in Job /\ JobTimes(k)
      BY DEF CycleStep, TimingInv, TypeOK, Registered
    <3>2. /\ j.createdAt \in Nat /\ j.lastClean \in Nat /\ j.stalledSince \in Nat
      BY SelfHealAssumption DEF Job, Time
    <3>3. CASE /\ j.lastClean = job[k].lastClean
               /\ j.stalledSince = job[k].stalledSince
               /\ clean' = clean
      <4>1. Baseline(job[k])' = Baseline(job[k])
        BY <3>1, <3>3 DEF Baseline
      <4> QED
        BY <1>t, <2>2, <3>1, <3>3, <4>1 DEF JobTimes
    <3>4. CASE /\ j.lastClean = now
               /\ j.stalledSince = 0
      <4>1. Baseline(job[k])' = now
        BY <1>t, <3>1, <3>4 DEF Baseline
      <4> QED
        BY <1>t, <1>1, <2>2, <3>1, <3>2, <3>4, <4>1 DEF JobTimes
    <3> QED
      BY <3>3, <3>4
  <2> QED
    BY <2>1, <2>2
<1> QED
  BY <1>2, <1>3

\* A step of a collection cycle keeps the timestamps in order.
LEMMA CollectTimes ==
    ASSUME TimingInv, TypeOK', NEW k \in Keys, Collect(k)
    PROVE  Past' /\ \A c \in Registered' : JobTimes(c)'
<1>1. job[k] # None => job[k] \in Job
  BY DEF TimingInv, TypeOK
<1>2. now \in Time /\ 0 \in Time /\ clean \in [Keys -> Time]
  BY SelfHealAssumption DEF TimingInv, TypeOK, Time
<1>3. CASE GetTargets(k)
  <2>1. PICK to \in {"querying", "noTargets"} :
           CycleStep(k, "targets", [job[k] EXCEPT !.pc = to])
    BY <1>3 DEF GetTargets
  <2>2. job[k] \in Job /\ [job[k] EXCEPT !.pc = to] \in Job
    BY <1>1, <2>1 DEF CycleStep, Job, Positions
  <2>3. clean' = clean
    BY <1>3 DEF GetTargets
  <2> QED
    BY <2>1, <2>2, <2>3, CycleTimes DEF Job
<1>4. CASE NoTargets(k)
  <2> DEFINE j == [job[k] EXCEPT !.pc = "idle", !.hadTargets = FALSE, !.up = FALSE]
  <2>1. CycleStep(k, "noTargets", j) /\ clean' = clean
    BY <1>4 DEF NoTargets
  <2>2. job[k] \in Job /\ j \in Job
    BY <1>1, <2>1 DEF CycleStep, Job, Positions
  <2>3. /\ j.createdAt = job[k].createdAt /\ j.recreated = job[k].recreated
        /\ j.lastClean = job[k].lastClean /\ j.stalledSince = job[k].stalledSince
    BY <2>2 DEF Job
  <2> QED
    BY <2>1, <2>2, <2>3, CycleTimes
<1>5. CASE StoreCollected(k)
  <2>1. PICK to \in {"sending", "empty", "unanswered"} :
           CycleStep(k, "querying", [job[k] EXCEPT !.pc = to, !.hadTargets = TRUE])
    BY <1>5 DEF StoreCollected
  <2> DEFINE j == [job[k] EXCEPT !.pc = to, !.hadTargets = TRUE]
  <2>2. job[k] \in Job /\ j \in Job
    BY <1>1, <2>1 DEF CycleStep, Job, Positions
  <2>3. /\ j.createdAt = job[k].createdAt /\ j.recreated = job[k].recreated
        /\ j.lastClean = job[k].lastClean /\ j.stalledSince = job[k].stalledSince
    BY <2>2 DEF Job
  <2>4. clean' = clean
    BY <1>5 DEF StoreCollected
  <2> QED
    BY <2>1, <2>2, <2>3, <2>4, CycleTimes
<1>6. CASE SendSucceeds(k)
  <2> DEFINE j == [job[k] EXCEPT !.pc = "idle", !.lastClean = now,
                                 !.lastRecreateAt = 0, !.stalledSince = 0, !.up = TRUE]
  <2>1. CycleStep(k, "sending", j) /\ clean' = [clean EXCEPT ![k] = now]
    BY <1>6 DEF SendSucceeds
  <2>2. job[k] \in Job
    BY <1>1, <2>1 DEF CycleStep
  <2>3. j \in Job
    BY <1>2, <2>2 DEF Job, Positions
  <2>4. /\ j.createdAt = job[k].createdAt /\ j.recreated = job[k].recreated
        /\ j.lastClean = now /\ j.stalledSince = 0
    BY <2>2 DEF Job
  <2> HIDE DEF j
  <2> QED
    BY <2>1, <2>3, <2>4, CycleTimes
<1>7. CASE SendFails(k)
  <2> DEFINE j == [job[k] EXCEPT !.pc = "idle", !.up = FALSE]
  <2>1. CycleStep(k, "sending", j) /\ clean' = clean
    BY <1>7 DEF SendFails
  <2>2. job[k] \in Job /\ j \in Job
    BY <1>1, <2>1 DEF CycleStep, Job, Positions
  <2>3. /\ j.createdAt = job[k].createdAt /\ j.recreated = job[k].recreated
        /\ j.lastClean = job[k].lastClean /\ j.stalledSince = job[k].stalledSince
    BY <2>2 DEF Job
  <2> QED
    BY <2>1, <2>2, <2>3, CycleTimes
<1>8. CASE CleanEmpty(k)
  <2> DEFINE j == [job[k] EXCEPT !.pc = "idle", !.lastClean = now, !.stalledSince = 0,
                                 !.up = FALSE]
  <2>1. PICK from \in {"empty", "unanswered"} :
           /\ CycleStep(k, from, j)
           /\ clean' = [clean EXCEPT ![k] = IF from = "empty" THEN now ELSE @]
    BY <1>8 DEF CleanEmpty
  <2>2. job[k] \in Job
    BY <1>1, <2>1 DEF CycleStep
  <2>3. j \in Job
    BY <1>2, <2>2 DEF Job, Positions
  <2>4. /\ j.createdAt = job[k].createdAt /\ j.recreated = job[k].recreated
        /\ j.lastClean = now /\ j.stalledSince = 0
    BY <2>2 DEF Job
  <2>5. \E t \in {clean[k], now} : clean' = [clean EXCEPT ![k] = t]
    BY <1>2, <2>1
  <2> HIDE DEF j
  <2> QED
    BY <2>1, <2>3, <2>4, <2>5, CycleTimes
<1>9. CASE NextCycle(k)
  <2> DEFINE j == [job[k] EXCEPT !.pc = "targets"]
  <2>1. CycleStep(k, "idle", j) /\ clean' = clean
    BY <1>9 DEF NextCycle
  <2>2. job[k] \in Job /\ j \in Job
    BY <1>1, <2>1 DEF CycleStep, Job, Positions
  <2>3. /\ j.createdAt = job[k].createdAt /\ j.recreated = job[k].recreated
        /\ j.lastClean = job[k].lastClean /\ j.stalledSince = job[k].stalledSince
    BY <2>2 DEF Job
  <2> QED
    BY <2>1, <2>2, <2>3, CycleTimes
<1> QED
  BY <1>3, <1>4, <1>5, <1>6, <1>7, <1>8, <1>9 DEF Collect

\* The jobs a start or a reconcile leaves: fresh ones, and ones left alone.
LEMMA ReplacedJobs ==
    ASSUME TimingInv, TypeOK', NEW fresh, NEW gone,
           \A k \in Keys : job'[k] = IF k \in fresh THEN NewJob
                                     ELSE IF k \in gone THEN None ELSE job[k],
           now' = now, exitAt' = exitAt, clean' = clean, healedAt' = healedAt
    PROVE  \A k \in Registered' : JobTimes(k)'
<1> SUFFICES ASSUME NEW k \in Registered'
             PROVE  JobTimes(k)'
  OBVIOUS
<1>t. k \in Keys /\ job'[k] # None /\ now <= now'
  BY SelfHealAssumption DEF Registered, TimingInv, TypeOK, Time
<1>1. CASE k \in fresh
  BY <1>t, <1>1, FreshJob
<1>2. CASE k \notin fresh
  BY <1>t, <1>2, UntouchedJob
<1> QED
  BY <1>1, <1>2

\* The order of the timestamps is inductive, relative to TypeOK.
LEMMA TimingNext ==
    ASSUME TimingInv, [Next]_vars
    PROVE  TimingInv'
<1>t. TypeOK'
  BY TypeNext DEF TimingInv
<1>n. /\ now \in Nat /\ sweepNow \in Nat /\ sweepNow <= now /\ now <= now
      /\ \A k \in Keys : clean[k] \in Nat /\ healedAt[k] \in Nat /\ exitAt \in Nat
  BY SelfHealAssumption DEF TimingInv, TypeOK, Past, Time
<1>1. ASSUME NEW k \in Keys, Collect(k)
      PROVE  TimingInv'
  BY <1>1, <1>t, CollectTimes DEF TimingInv
<1>2. CASE Start
  <2>1. PICK enabled \in SUBSET Keys :
           job' = [k \in Keys |-> IF k \in enabled THEN NewJob ELSE None]
    BY <1>2 DEF Start
  <2>2. \A k \in Registered' : JobTimes(k)'
    BY <1>2, <1>t, <2>1, ReplacedJobs, \A k \in Keys : k \in enabled \/ k \in Keys \ enabled
       DEF Start
  <2> QED
    BY <1>2, <1>t, <2>2 DEF Start, TimingInv, Past
<1>3. CASE Reconcile
  <2>1. PICK fresh \in SUBSET Keys, gone \in SUBSET Registered :
           job' = [k \in Keys |-> IF k \in fresh THEN NewJob
                                  ELSE IF k \in gone THEN None ELSE job[k]]
    BY <1>3 DEF Reconcile
  <2>2. \A k \in Registered' : JobTimes(k)'
    BY <1>3, <1>t, <2>1, ReplacedJobs DEF Reconcile
  <2> QED
    BY <1>3, <1>t, <2>2 DEF Reconcile, TimingInv, Past
<1>4. CASE ReadClock
  <2>1. \A k \in Registered' : JobTimes(k)'
    BY <1>4, <1>t, <1>n, UntouchedJob DEF ReadClock, history, Registered
  <2> QED
    BY <1>4, <1>t, <1>n, <2>1 DEF ReadClock, history, TimingInv, Past
<1>5. CASE Sweep
  <2>1. /\ \A k \in Registered' : JobTimes(k)'
        /\ \A k \in Keys : healedAt'[k] <= now
    BY <1>5, <1>t, SweptJobs DEF Sweep
  <2> QED
    BY <1>5, <1>t, <2>1 DEF Sweep, TimingInv, Past
<1>6. CASE PodRestart
  <2>1. Registered' = {}
    BY <1>6 DEF PodRestart, ProcessEnds, Registered
  <2> QED
    BY <1>6, <1>t, <1>n, <2>1 DEF PodRestart, ProcessEnds, TimingInv, Past
<1>7. CASE Crash
  <2>1. Registered' = {}
    BY <1>7 DEF Crash, ProcessEnds, Registered
  <2> QED
    BY <1>7, <1>t, <1>n, <2>1 DEF Crash, ProcessEnds, history, TimingInv, Past
<1>8. CASE Tick
  <2>1. now' = now + 1 /\ now <= now'
    BY <1>8, <1>n DEF Tick
  <2>2. \A k \in Registered' : JobTimes(k)'
    BY <1>8, <1>t, <2>1, UntouchedJob DEF Tick, Registered
  <2>3. Past'
    <3>1. \A k \in Keys : clean'[k] <= now' /\ healedAt'[k] <= now'
      BY <1>8, <1>n, <2>1 DEF Tick, TimingInv, Past
    <3>2. exitAt \in Nat
      BY SelfHealAssumption DEF TimingInv, TypeOK, Time
    <3> QED
      BY <1>8, <1>n, <2>1, <3>1, <3>2 DEF Tick, TimingInv, Past
  <2> QED
    BY <1>t, <2>2, <2>3 DEF TimingInv
<1>9. CASE UNCHANGED vars
  <2>1. \A k \in Registered' : JobTimes(k)'
    BY <1>9, <1>t, <1>n, UntouchedJob DEF vars, Registered
  <2> QED
    BY <1>9, <1>t, <2>1 DEF vars, TimingInv, Past
<1> QED
  BY <1>1, <1>2, <1>3, <1>4, <1>5, <1>6, <1>7, <1>8, <1>9 DEF Next

\* The timestamps the watchdog compares, on the job and of the tenant, keep
\* their order in every reachable state: what its throttling rests on.
THEOREM TimingInvariant == Spec => []TimingInv
<1>1. Init => TimingInv
  <2>1. Init => TypeOK
    BY SelfHealAssumption DEF Init, TypeOK, Time
  <2> QED
    BY <2>1 DEF Init, TimingInv, Past, Registered
<1>2. TimingInv /\ [Next]_vars => TimingInv'
  BY TimingNext
<1> QED
  BY <1>1, <1>2, PTL DEF Spec

-----------------------------------------------------------------------------
(* What the watchdog may never do. *)

\* A job that escalates has been stalled for both grace periods since its last
\* clean cycle and since the last exit, and for StallGrace since it was recreated.
LEMMA EscalatingJob ==
    ASSUME TimingInv, NEW k \in Escalating
    PROVE  /\ sweepNow - clean[k] > StallGrace + PodRestartGrace
           /\ healedAt[k] # 0 /\ sweepNow - healedAt[k] > StallGrace
           /\ sweepNow - exitAt > StallGrace + PodRestartGrace
<1>1. /\ k \in Stalled /\ k \in Keys /\ job[k] \in Job
      /\ job[k].createdAt <= Baseline(job[k]) /\ Baseline(job[k]) \in Nat
      /\ sweepNow - Baseline(job[k]) > StallGrace
  BY StalledBaseline DEF Escalating
<1>2. JobTimes(k)
  BY <1>1 DEF TimingInv, Stalled
<1>3. /\ sweepNow \in Nat /\ exitAt \in Nat /\ clean[k] \in Nat /\ healedAt[k] \in Nat
      /\ StallGrace \in Nat /\ PodRestartGrace \in Nat
      /\ job[k].createdAt \in Nat /\ job[k].stalledSince \in Nat
  BY <1>1, SelfHealAssumption DEF TimingInv, TypeOK, Time, Job
<1>4. /\ job[k].recreated
      /\ job[k].stalledSince # 0
      /\ sweepNow - job[k].stalledSince > PodRestartGrace
  <2>1. ShouldEscalatePodRestart(Seeded(job[k]))
    BY DEF Escalating
  <2>2. /\ Seeded(job[k]).recreated = job[k].recreated
        /\ Seeded(job[k]).stalledSince =
              IF job[k].stalledSince = 0 THEN sweepNow ELSE job[k].stalledSince
    BY <1>1 DEF Seeded, Job
  <2> QED
    BY <1>3, <2>1, <2>2 DEF ShouldEscalatePodRestart
<1> QED
  BY <1>1, <1>2, <1>3, <1>4 DEF JobTimes

(***************************************************************************)
(* Self-restarts are more than StallGrace + PodRestartGrace apart, for any *)
(* number of tenants and any settings: no restart loop is tighter.         *)
(***************************************************************************)
THEOREM RestartsAreSpaced == Spec => RestartSpacing
<1>1. TimingInv /\ [Next]_vars =>
        [PodRestart /\ exitAt # 0 => sweepNow - exitAt > StallGrace + PodRestartGrace]_vars
  <2> SUFFICES ASSUME TimingInv, PodRestart
               PROVE  sweepNow - exitAt > StallGrace + PodRestartGrace
    OBVIOUS
  <2>1. PICK k \in Escalating : TRUE
    BY DEF PodRestart
  <2> QED
    BY <2>1, EscalatingJob DEF PodRestart
<1> QED
  BY <1>1, TimingInvariant, PTL DEF Spec, RestartSpacing

(***************************************************************************)
(* A tenant that had a clean cycle within both grace periods never         *)
(* restarts the pod.                                                       *)
(***************************************************************************)
THEOREM RestartsFollowLongFailure == Spec => RestartOnlyAfterLongFailure
<1>1. TimingInv /\ [Next]_vars =>
        [PodRestart => \A k \in Escalating :
                       sweepNow - clean[k] > StallGrace + PodRestartGrace]_vars
  BY EscalatingJob
<1> QED
  BY <1>1, TimingInvariant, PTL DEF Spec, RestartOnlyAfterLongFailure

(***************************************************************************)
(* No job restarts the pod unless it was recreated, and then given a full  *)
(* StallGrace.                                                             *)
(***************************************************************************)
THEOREM RecreateComesFirst == Spec => RecreateIsGivenAChance
<1>1. TimingInv /\ [Next]_vars =>
        [PodRestart => \A k \in Escalating :
                       healedAt[k] # 0 /\ sweepNow - healedAt[k] > StallGrace]_vars
  BY EscalatingJob
<1> QED
  BY <1>1, TimingInvariant, PTL DEF Spec, RecreateIsGivenAChance

(***************************************************************************)
(* Recreates of one tenant's job are more than StallGrace apart, whatever  *)
(* RecreateBackoff is.                                                     *)
(***************************************************************************)
THEOREM RecreatesAreSpaced == Spec => RecreateSpacing
<1>1. ASSUME TimingInv, SweepJobs, NEW k \in Keys,
             healedAt'[k] # healedAt[k]
      PROVE  healedAt'[k] - healedAt[k] > StallGrace
  <2>1. k \in Recreating /\ healedAt'[k] = now
    BY <1>1 DEF SweepJobs
  <2>2. k \in Stalled
    BY <2>1 DEF Recreating
  <2>3. /\ job[k] \in Job /\ Baseline(job[k]) \in Nat
        /\ job[k].createdAt <= Baseline(job[k])
        /\ sweepNow - Baseline(job[k]) > StallGrace
    BY <1>1, <2>2, StalledBaseline
  <2>4. healedAt[k] <= job[k].createdAt
    BY <1>1, <2>2 DEF TimingInv, JobTimes, Stalled
  <2>5. /\ now \in Nat /\ sweepNow \in Nat /\ healedAt[k] \in Nat
        /\ StallGrace \in Nat /\ job[k].createdAt \in Nat /\ sweepNow <= now
    BY <1>1, <2>3, SelfHealAssumption DEF TimingInv, TypeOK, Past, Time, Job
  <2> QED
    BY <2>1, <2>3, <2>4, <2>5
<1>2. TimingInv /\ [Next]_vars =>
        [\A k \in Keys : healedAt'[k] # healedAt[k] /\ healedAt[k] # 0
                            => healedAt'[k] - healedAt[k] > StallGrace]_vars
  <2> SUFFICES ASSUME TimingInv, Next, NEW k \in Keys, healedAt'[k] # healedAt[k]
               PROVE  healedAt'[k] - healedAt[k] > StallGrace
    OBVIOUS
  <2>1. ~(\E c \in Keys : Collect(c))
    BY DEF Collect, CycleStep, GetTargets, NoTargets, StoreCollected, SendSucceeds,
           SendFails, CleanEmpty, NextCycle
  <2>2. Sweep
    BY <2>1 DEF Next, Start, Reconcile, ReadClock, PodRestart, Crash, Tick, history
  <2> QED
    BY <1>1, <2>2 DEF Sweep
<1> QED
  BY <1>2, TimingInvariant, PTL DEF Spec, RecreateSpacing

-----------------------------------------------------------------------------
(* What a scrape reports after a sweep. *)

(***************************************************************************)
(* A job reported up is one the watchdog is free to recreate: its last     *)
(* finished cycle sent series of healthy targets, and cleared the stall    *)
(* window and the backoff.                                                 *)
(***************************************************************************)
UpJob(k) ==
    /\ job[k].pc = "sending" => job[k].hadTargets
    /\ job[k].up => /\ job[k].hadTargets
                    /\ job[k].stalledSince = 0
                    /\ job[k].lastRecreateAt = 0
                    /\ job[k].lastClean # 0
                    /\ job[k].lastClean = clean[k]

UpInv == \A k \in Registered : UpJob(k)

\* A step of a collection cycle keeps it.
LEMMA CollectUp ==
    ASSUME TypeOK, UpInv, NEW k \in Keys, Collect(k)
    PROVE  UpInv'
<1>t. now \in Nat /\ now # 0 /\ job \in [Keys -> Job \cup {None}] /\ clean \in [Keys -> Time]
  BY SelfHealAssumption DEF TypeOK, Time
<1>1. job[k] # None /\ job[k] \in Job /\ UpJob(k)
  BY <1>t DEF Collect, CycleStep, GetTargets, NoTargets, StoreCollected, SendSucceeds,
              SendFails, CleanEmpty, NextCycle, UpInv, Registered
<1>2. \A c \in Keys \ {k} : job'[c] = job[c] /\ clean'[c] = clean[c]
  BY <1>t DEF Collect, CycleStep, GetTargets, NoTargets, StoreCollected, SendSucceeds,
              SendFails, CleanEmpty, NextCycle
<1>3. UpJob(k)'
  <2>1. CASE GetTargets(k)
    BY <1>t, <1>1, <2>1 DEF GetTargets, CycleStep, UpJob, Job
  <2>2. CASE NoTargets(k)
    BY <1>t, <1>1, <2>2 DEF NoTargets, CycleStep, UpJob, Job
  <2>3. CASE StoreCollected(k)
    BY <1>t, <1>1, <2>3 DEF StoreCollected, CycleStep, UpJob, Job
  <2>4. CASE SendSucceeds(k)
    BY <1>t, <1>1, <2>4 DEF SendSucceeds, CycleStep, UpJob, Job
  <2>5. CASE SendFails(k)
    BY <1>t, <1>1, <2>5 DEF SendFails, CycleStep, UpJob, Job
  <2>6. CASE CleanEmpty(k)
    BY <1>t, <1>1, <2>6 DEF CleanEmpty, CycleStep, UpJob, Job
  <2>7. CASE NextCycle(k)
    BY <1>t, <1>1, <2>7 DEF NextCycle, CycleStep, UpJob, Job
  <2> QED
    BY <2>1, <2>2, <2>3, <2>4, <2>5, <2>6, <2>7 DEF Collect
<1> QED
  BY <1>2, <1>3 DEF UpInv, UpJob, Registered

\* At a sweep, a stalled job that is up is recreated: neither of the gates holds.
LEMMA StalledUpIsRecreated ==
    ASSUME TypeOK, UpInv, NEW k \in Stalled, job[k].up
    PROVE  k \in Recreating
<1>1. job[k] \in Job /\ UpJob(k) /\ sweepNow \in Nat /\ PodRestartGrace \in Nat
  BY SelfHealAssumption DEF TypeOK, Stalled, Registered, UpInv, Time
<1>2. Seeded(job[k]).stalledSince = sweepNow
  BY <1>1 DEF UpJob, Seeded, Job
<1>3. ~ShouldEscalatePodRestart(Seeded(job[k]))
  BY <1>1, <1>2 DEF ShouldEscalatePodRestart
<1> QED
  BY <1>1, <1>3 DEF UpJob, Escalating, Recreating, InBackoff

\* A swept job that is still up was not stalled, and is left alone.
LEMMA SweptUpJob ==
    ASSUME TypeOK, UpInv, SweepJobs, NEW k \in Keys, job'[k] # None, job'[k].up
    PROVE  job'[k] = job[k] /\ k \notin Stalled
<1>1. CASE k \in Recreating
  <2>1. job'[k].up = FALSE
    BY <1>1 DEF SweepJobs, Recreated, NewJob
  <2> QED
    BY <2>1
<1>2. CASE k \in Stalled \ Recreating
  <2>1. job[k] \in Job
    BY <1>2 DEF TypeOK, Stalled, Registered
  <2>2. job'[k].up = job[k].up
    BY <1>2, <2>1 DEF SweepJobs, Seeded, Job
  <2> QED
    BY <1>2, <2>2, StalledUpIsRecreated
<1>3. CASE k \notin Stalled
  BY <1>3 DEF SweepJobs, Recreating
<1> QED
  BY <1>1, <1>2, <1>3

\* UpInv is inductive, relative to TypeOK.
LEMMA UpNext ==
    ASSUME TypeOK, UpInv, [Next]_vars
    PROVE  UpInv'
<1>1. ASSUME NEW k \in Keys, job'[k] = NewJob
      PROVE  UpJob(k)'
  BY <1>1 DEF UpJob, NewJob
<1>2. ASSUME NEW k \in Keys, job[k] # None, job'[k] = job[k], clean'[k] = clean[k]
      PROVE  UpJob(k)'
  BY <1>2 DEF UpJob, UpInv, Registered
<1>3. ASSUME NEW k \in Keys, Collect(k)
      PROVE  UpInv'
  BY <1>3, CollectUp
<1>4. CASE Start
  <2>1. \A k \in Registered' : job'[k] = NewJob /\ k \in Keys
    BY <1>4 DEF Start, Registered
  <2> QED
    BY <1>1, <2>1 DEF UpInv
<1>5. CASE Reconcile
  <2>1. \A k \in Registered' :
           k \in Keys /\ (job'[k] = NewJob \/ (job'[k] = job[k] /\ job[k] # None))
    BY <1>5 DEF Reconcile, Registered
  <2> QED
    BY <1>1, <1>2, <1>5, <2>1 DEF UpInv, Reconcile
<1>6. CASE Sweep
  <2> SUFFICES ASSUME NEW k \in Registered'
               PROVE  UpJob(k)'
    BY DEF UpInv
  <2>1. /\ k \in Keys /\ job'[k] # None /\ SweepJobs /\ clean' = clean
        /\ job[k] # None /\ job[k] \in Job /\ UpJob(k)
    BY <1>6 DEF Sweep, SweepJobs, Registered, Recreating, Stalled, TypeOK, UpInv
  <2>2. job'[k].pc = "sending" => job'[k].hadTargets
    BY <2>1 DEF SweepJobs, Recreated, NewJob, Seeded, Job, UpJob, Recreating
  <2>3. job'[k].up => UpJob(k)'
    BY <1>2, <2>1, SweptUpJob
  <2> QED
    BY <2>2, <2>3 DEF UpJob
<1>7. CASE PodRestart \/ Crash
  BY <1>7 DEF PodRestart, Crash, ProcessEnds, UpInv, Registered
<1>8. CASE ReadClock \/ Tick \/ UNCHANGED vars
  BY <1>8 DEF ReadClock, Tick, history, vars, UpInv, UpJob, Registered
<1> QED
  BY <1>3, <1>4, <1>5, <1>6, <1>7, <1>8 DEF Next

(***************************************************************************)
(* After every sweep, collection_up is 1 only for a tenant whose last      *)
(* clean cycle ended within StallGrace, whatever the settings, and however *)
(* long the cycle that runs since then has been hanging.                   *)
(***************************************************************************)
THEOREM UpIsEarned == Spec => UpIsRecent
<1>1. Init => UpInv
  BY DEF Init, UpInv, Registered
<1>2. TypeOK /\ UpInv /\ [Next]_vars => UpInv'
  BY UpNext
<1>3. TypeOK /\ UpInv /\ [Next]_vars =>
        [Sweep => \A k \in Keys : CollectionUp(k)' => sweepNow - clean[k] <= StallGrace]_vars
  <2> SUFFICES ASSUME TypeOK, UpInv, Sweep, NEW k \in Keys, CollectionUp(k)'
               PROVE  sweepNow - clean[k] <= StallGrace
    OBVIOUS
  <2>1. /\ SweepJobs /\ job'[k] # None /\ job'[k].up
    BY DEF Sweep, CollectionUp, Registered
  <2>2. job'[k] = job[k] /\ k \notin Stalled
    BY <2>1, SweptUpJob
  <2>3. UpJob(k) /\ k \in Registered
    BY <2>1, <2>2 DEF UpInv, Registered
  <2>4. Baseline(job[k]) = clean[k]
    BY <2>1, <2>2, <2>3 DEF UpJob, Baseline
  <2>5. ~(sweepNow - clean[k] > StallGrace)
    BY <2>2, <2>3, <2>4 DEF Stalled, IsStalled
  <2>6. sweepNow \in Nat /\ clean[k] \in Nat /\ StallGrace \in Nat
    BY SelfHealAssumption DEF TypeOK, Time
  <2> QED
    BY <2>5, <2>6
<1> QED
  BY <1>1, <1>2, <1>3, TypeCorrect, PTL DEF Spec, UpIsRecent
=============================================================================
