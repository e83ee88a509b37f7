-------------------------- MODULE JobLifecycleProofs --------------------------
(***************************************************************************)
(* JobLifecycle for every set of keys, of job structs and of               *)
(* configurations: its type invariant, the one-to-one relation between     *)
(* registered jobs and open collectors, and that it implements JobRegistry. *)
(***************************************************************************)
EXTENDS JobLifecycle, FiniteSetTheorems, TLAPS

(***************************************************************************)
(* RegisteredJobsOpen and NoOrphanedCollector are not inductive: a job is  *)
(* created without stopping the one before it while Start loads, which is  *)
(* harmless because no key still to load has a job; and a fresh struct     *)
(* starts with an open StopCh.                                             *)
(***************************************************************************)
Loading ==
    /\ starter = "init" => Registered = {} /\ todo = {} /\ loop = "off"
    /\ starter = "loading" => /\ loop = "off"
                              /\ \A k \in todo : jobs[k] = None /\ listing[k] # None

\* What relates c.jobs to the structs, as one formula over one state.
Ownership ==
    /\ jobs \in [Keys -> Ids \cup {None}]
    /\ jobKey \in [Ids -> Keys \cup {None}]
    /\ jobSpec \in [Ids -> Specs \cup {None}]
    /\ stopped \in [Ids -> BOOLEAN]
    /\ pc \in [Ids -> Positions]
    /\ \A i \in Ids : Running(i) <=> jobKey[i] # None
    /\ \A i \in Ids : Running(i) <=> jobSpec[i] # None
    /\ \A i \in Ids : stopped[i] => Running(i)
    /\ RegisteredJobsOpen
    /\ NoOrphanedCollector

LifecycleInv == TypeOK /\ Ownership /\ Loading

-----------------------------------------------------------------------------
(***************************************************************************)
(* The critical sections.  Whoever gives a key a new job stops the one it  *)
(* has; then jobs and collectors still correspond, and the step is one of  *)
(* JobRegistry's.                                                          *)
(***************************************************************************)
LEMMA StopAndCreateOwnership ==
    ASSUME Ownership,
           NEW stop \in SUBSET Registered, NEW create \in SUBSET Keys, NEW spec,
           create \cap Registered \subseteq stop,
           \A k \in create : spec[k] \in Specs /\ spec[k].supported,
           StopAndCreate(stop, create, spec)
    PROVE  Ownership' /\ Registry!Reassign
<1>1. PICK new \in Injection(create, Unused) :
        /\ jobs' = [k \in Keys |-> IF k \in create THEN new[k]
                                   ELSE IF k \in stop THEN None
                                   ELSE jobs[k]]
        /\ jobKey' = [i \in Ids |-> IF \E k \in create : new[k] = i
                                    THEN CHOOSE k \in create : new[k] = i
                                    ELSE jobKey[i]]
        /\ jobSpec' = [i \in Ids |-> IF \E k \in create : new[k] = i
                                     THEN spec[CHOOSE k \in create : new[k] = i]
                                     ELSE jobSpec[i]]
        /\ stopped' = [i \in Ids |-> stopped[i] \/ \E k \in stop : jobs[k] = i]
        /\ pc' = [i \in Ids |-> IF \E k \in create : new[k] = i THEN "targets" ELSE pc[i]]
  BY DEF StopAndCreate, JobsAfter, StopChAfter, CollectorsAfter
<1>2. /\ \A k \in create : new[k] \in Ids /\ ~Running(new[k])
      /\ \A k, c \in create : new[k] = new[c] => k = c
  BY DEF Injection, IsInjective, Unused
<1>n. None \notin Ids /\ None \notin Specs /\ None \notin Keys
  BY LifecycleAssumption
<1>3. \A k \in create : /\ jobKey'[new[k]] = k
                        /\ jobSpec'[new[k]] = spec[k]
                        /\ pc'[new[k]] = "targets"
                        /\ ~stopped'[new[k]]
  <2> SUFFICES ASSUME NEW k \in create
               PROVE  /\ jobKey'[new[k]] = k
                      /\ jobSpec'[new[k]] = spec[k]
                      /\ pc'[new[k]] = "targets"
                      /\ ~stopped'[new[k]]
    OBVIOUS
  <2>1. (CHOOSE c \in create : new[c] = new[k]) = k
    BY <1>2
  <2>2. ~stopped[new[k]]
    BY <1>2 DEF Ownership
  <2>3. \A c \in stop : jobs[c] # new[k]
    BY <1>2 DEF Ownership, RegisteredJobsOpen, Open
  <2> QED
    BY <1>1, <1>2, <2>1, <2>2, <2>3
<1>4. \A i \in Ids : (\A k \in create : new[k] # i) =>
                        /\ jobKey'[i] = jobKey[i]
                        /\ jobSpec'[i] = jobSpec[i]
                        /\ pc'[i] = pc[i]
                        /\ stopped'[i] <=> (stopped[i] \/ \E k \in stop : jobs[k] = i)
  BY <1>1
<1>5. \A k \in Keys : jobs'[k] = IF k \in create THEN new[k]
                                 ELSE IF k \in stop THEN None ELSE jobs[k]
  BY <1>1
<1>6. /\ jobs' \in [Keys -> Ids \cup {None}]
      /\ stopped' \in [Ids -> BOOLEAN]
      /\ pc' \in [Ids -> Positions]
  <2>1. jobs' \in [Keys -> Ids \cup {None}]
    BY <1>1, <1>2 DEF Ownership
  <2>2. stopped' \in [Ids -> BOOLEAN]
    BY <1>1 DEF Ownership
  <2>3. pc' \in [Ids -> Positions]
    BY <1>1 DEF Ownership, Positions
  <2> QED
    BY <2>1, <2>2, <2>3
<1>7. ASSUME NEW i \in Ids
      PROVE  /\ jobKey'[i] \in Keys \cup {None}
             /\ jobSpec'[i] \in Specs \cup {None}
             /\ Running(i)' <=> jobKey'[i] # None
             /\ Running(i)' <=> jobSpec'[i] # None
             /\ stopped'[i] => Running(i)'
  <2>1. CASE \E k \in create : new[k] = i
    <3>1. PICK k \in create : new[k] = i
      BY <2>1
    <3> QED
      BY <1>3, <1>n, <3>1 DEF Running, Ownership
  <2>2. CASE \A k \in create : new[k] # i
    BY <1>4, <2>2 DEF Running, Ownership, RegisteredJobsOpen, Open
  <2> QED
    BY <2>1, <2>2
<1>8. RegisteredJobsOpen'
  <2> SUFFICES ASSUME NEW k \in Keys, jobs'[k] # None
               PROVE  (/\ Open(jobs[k])
                       /\ jobKey[jobs[k]] = k
                       /\ jobSpec[jobs[k]].supported)'
    BY DEF RegisteredJobsOpen, Registered
  <2>1. CASE k \in create
    BY <1>3, <1>5, <2>1 DEF Open, Running
  <2>2. CASE k \notin create
    <3>1. jobs'[k] = jobs[k] /\ k \in Registered /\ k \notin stop /\ jobs[k] \in Ids
      BY <1>5, <2>2 DEF Ownership, Registered
    <3>2. Open(jobs[k]) /\ jobKey[jobs[k]] = k /\ jobSpec[jobs[k]].supported
      BY <3>1 DEF Ownership, RegisteredJobsOpen
    <3>3. \A c \in create : new[c] # jobs[k]
      BY <1>2, <3>2 DEF Open
    <3>4. \A c \in stop : jobs[c] # jobs[k]
      BY <3>1, <3>2 DEF Ownership, RegisteredJobsOpen
    <3> QED
      BY <1>4, <3>1, <3>2, <3>3, <3>4 DEF Open, Running
  <2> QED
    BY <2>1, <2>2
<1>9. NoOrphanedCollector'
  <2> SUFFICES ASSUME NEW i \in Ids, Open(i)'
               PROVE  jobs'[jobKey'[i]] = i
    BY DEF NoOrphanedCollector
  <2>1. CASE \E k \in create : new[k] = i
    BY <1>3, <1>5, <2>1
  <2>2. CASE \A k \in create : new[k] # i
    <3>1. /\ Open(i) /\ jobKey'[i] = jobKey[i]
          /\ \A k \in stop : jobs[k] # i
      BY <1>4, <2>2 DEF Open, Running
    <3>2. /\ jobs[jobKey[i]] = i /\ jobKey[i] \in Keys
      BY <1>n, <3>1 DEF Ownership, NoOrphanedCollector, Open
    <3>3. jobKey[i] \in Registered /\ jobKey[i] \notin stop
      BY <1>n, <3>1, <3>2 DEF Registered
    <3> QED
      BY <1>5, <3>1, <3>2, <3>3
  <2> QED
    BY <2>1, <2>2
<1>10. jobKey' \in [Ids -> Keys \cup {None}] /\ jobSpec' \in [Ids -> Specs \cup {None}]
  <2>1. jobKey' \in [Ids -> Keys \cup {None}]
    BY <1>1, <1>7
  <2>2. jobSpec' \in [Ids -> Specs \cup {None}]
    BY <1>1, <1>7
  <2> QED
    BY <2>1, <2>2
<1>11. Ownership'
  BY <1>6, <1>7, <1>8, <1>9, <1>10 DEF Ownership
<1>12. Registry!Reassign
  <2>1. Registry!Owners = {i \in Ids : \E k \in Keys : jobs[k] = i}
    BY DEF Registry!Owners
  <2>2. ASSUME NEW k \in Keys, jobs'[k] # jobs[k]
        PROVE  jobs'[k] \notin Registry!Owners \cup {i \in Ids : Running(i) /\ stopped[i]}
    <3>1. CASE k \in create
      <4>1. jobs'[k] = new[k] /\ ~Running(new[k]) /\ new[k] \in Ids
        BY <1>2, <1>5, <3>1
      <4>2. \A c \in Keys : jobs[c] # new[k]
        BY <1>n, <4>1 DEF Ownership, RegisteredJobsOpen, Open, Registered
      <4> QED
        BY <2>1, <4>1, <4>2
    <3>2. CASE k \notin create
      BY <1>5, <1>n, <2>1, <2>2, <3>2
    <3> QED
      BY <3>1, <3>2
  <2>3. ASSUME NEW k1 \in Keys, NEW k2 \in Keys, jobs'[k1] = jobs'[k2], jobs'[k1] # None
        PROVE  k1 = k2
    BY <1>8, <2>3 DEF RegisteredJobsOpen, Registered
  <2>4. ASSUME NEW i \in Ids
        PROVE  (Running(i) /\ stopped[i])' <=>
                  \/ Running(i) /\ stopped[i]
                  \/ i \in Registry!Owners /\ \A k \in Keys : jobs'[k] # i
    <3>1. CASE \E k \in create : new[k] = i
      <4>1. PICK k \in create : new[k] = i
        BY <3>1
      <4>2. ~stopped'[i] /\ ~Running(i) /\ jobs'[k] = i
        BY <1>2, <1>3, <1>5, <4>1
      <4> QED
        BY <4>2
    <3>2. CASE \A k \in create : new[k] # i
      <4>1. /\ Running(i)' <=> Running(i)
            /\ stopped'[i] <=> (stopped[i] \/ \E k \in stop : jobs[k] = i)
        BY <1>4, <3>2 DEF Running
      <4>2. ASSUME NEW k \in stop, jobs[k] = i
            PROVE  Running(i) /\ i \in Registry!Owners /\ \A c \in Keys : jobs'[c] # i
        <5>1. Running(i) /\ jobKey[i] = k /\ k \in Registered
          BY <4>2 DEF Ownership, RegisteredJobsOpen, Open
        <5>2. ASSUME NEW c \in Keys, c # k
              PROVE  jobs[c] # i
          BY <1>n, <5>1, <5>2 DEF Ownership, RegisteredJobsOpen, Registered
        <5>3. ASSUME NEW c \in Keys
              PROVE  jobs'[c] # i
          BY <1>5, <1>n, <3>2, <5>2
        <5> QED
          BY <2>1, <4>2, <5>1, <5>3 DEF Registered
      <4>3. ASSUME i \in Registry!Owners, \A k \in Keys : jobs'[k] # i
            PROVE  Running(i) /\ \E k \in stop : jobs[k] = i
        <5>1. PICK k \in Keys : jobs[k] = i
          BY <2>1, <4>3
        <5>2. k \in Registered
          BY <1>n, <5>1 DEF Registered
        <5>3. k \in stop
          BY <1>5, <4>3, <5>1, <5>2
        <5> QED
          BY <5>1, <5>2, <5>3 DEF Ownership, RegisteredJobsOpen, Open
      <4> QED
        BY <4>1, <4>2, <4>3
    <3> QED
      BY <3>1, <3>2
  <2>5. {i \in Ids : Running(i) /\ stopped[i]}' =
           {i \in Ids : Running(i) /\ stopped[i]}
              \cup {i \in Registry!Owners : \A k \in Keys : jobs'[k] # i}
    BY <2>1, <2>4
  <2> QED
    BY <1>6, <2>2, <2>3, <2>5 DEF Registry!Reassign
<1> QED
  BY <1>11, <1>12

-----------------------------------------------------------------------------
(* The other steps. *)

Retiring == {i \in Ids : Running(i) /\ stopped[i]}

\* A step that touches neither the jobs nor their structs.
LEMMA JobsUntouched ==
    ASSUME Ownership, UNCHANGED <<jobs, jobVars>>
    PROVE  Ownership' /\ UNCHANGED Registry!vars
BY DEF Ownership, RegisteredJobsOpen, NoOrphanedCollector, Registered, Open, Running,
       jobVars, Registry!vars

\* A collector moves on: it was running, and it is.
LEMMA CollectorMoves ==
    ASSUME Ownership, NEW i \in Ids, NEW from \in Positions \ {"none"},
           NEW to \in Positions \ {"none"}, Goto(i, from, to), UNCHANGED jobs
    PROVE  Ownership' /\ UNCHANGED Registry!vars
<1>1. pc' \in [Ids -> Positions] /\ UNCHANGED <<jobKey, jobSpec, stopped>>
  BY DEF Goto, Ownership
<1>2. \A c \in Ids : Running(c)' <=> Running(c)
  BY DEF Goto, Ownership, Running
<1>3. RegisteredJobsOpen'
  BY <1>1, <1>2 DEF Ownership, RegisteredJobsOpen, Registered, Open
<1>4. NoOrphanedCollector'
  BY <1>1, <1>2 DEF Ownership, NoOrphanedCollector, Open
<1>5. Ownership'
  BY <1>1, <1>2, <1>3, <1>4 DEF Ownership
<1>6. Retiring' = Retiring
  BY <1>1, <1>2 DEF Retiring
<1> QED
  BY <1>5, <1>6 DEF Registry!vars, Retiring

\* A stopped collector returns.
LEMMA CollectorReturns ==
    ASSUME Ownership, NEW i \in Ids, JobReturns(i)
    PROVE  Ownership' /\ Registry!Finish(i)
<1>1. /\ Running(i) /\ stopped[i] /\ ~Running(i)'
      /\ \A c \in Ids \ {i} : /\ Running(c)' <=> Running(c)
                              /\ jobKey'[c] = jobKey[c] /\ jobSpec'[c] = jobSpec[c]
                              /\ stopped'[c] = stopped[c]
      /\ jobKey'[i] = None /\ jobSpec'[i] = None /\ ~stopped'[i]
      /\ jobs' = jobs
  BY DEF JobReturns, Ownership, Running
<1>2. /\ jobKey' \in [Ids -> Keys \cup {None}]
      /\ jobSpec' \in [Ids -> Specs \cup {None}]
      /\ stopped' \in [Ids -> BOOLEAN]
      /\ pc' \in [Ids -> Positions]
  BY DEF JobReturns, Ownership, Positions
<1>3. \A k \in Registered : jobs[k] # i /\ jobs[k] \in Ids
  BY <1>1 DEF Ownership, RegisteredJobsOpen, Open, Registered
<1>4. RegisteredJobsOpen'
  BY <1>1, <1>3 DEF Ownership, RegisteredJobsOpen, Registered, Open
<1>5. NoOrphanedCollector'
  BY <1>1 DEF Ownership, NoOrphanedCollector, Open
<1>6. Ownership'
  BY <1>1, <1>2, <1>4, <1>5 DEF Ownership
<1>7. Retiring' = Retiring \ {i} /\ i \in Retiring
  BY <1>1 DEF Retiring
<1> QED
  BY <1>1, <1>6, <1>7 DEF Registry!Finish, Retiring

\* The process ends, or has not started.
LEMMA NoCollector ==
    ASSUME \/ ProcessInit
           \/ ProcessEnds
    PROVE  /\ ProcessInit => Ownership /\ Registry!Init
           /\ ProcessEnds => Ownership' /\ Registry!ProcessEnds
<1>1. ASSUME ProcessInit
      PROVE  Ownership /\ Registry!Init
  BY <1>1, LifecycleAssumption
     DEF ProcessInit, Ownership, RegisteredJobsOpen, NoOrphanedCollector, Registered,
         Open, Running, Positions, Registry!Init
<1>2. ASSUME ProcessEnds
      PROVE  Ownership' /\ Registry!ProcessEnds
  BY <1>2, LifecycleAssumption
     DEF ProcessEnds, Ownership, RegisteredJobsOpen, NoOrphanedCollector, Registered,
         Open, Running, Positions, Registry!ProcessEnds
<1> QED
  BY <1>1, <1>2

-----------------------------------------------------------------------------
(* Every step keeps jobs and collectors in correspondence, and is a step of *)
(* JobRegistry or leaves it alone.                                         *)

\* Reconcile recreates a registered job only after stopping it.
LEMMA ReconcileOwnership ==
    ASSUME LifecycleInv, Reconcile
    PROVE  Ownership' /\ Registry!Reassign
<1> DEFINE stop == Changed \cup (Registered \ Desired)
           create == {k \in Changed \cup (Desired \ Registered) : listing[k].supported}
<1>1. stop \in SUBSET Registered /\ create \in SUBSET Keys
  BY DEF Changed, Desired, Registered
<1>2. create \cap Registered \subseteq stop
  OBVIOUS
<1>3. \A k \in create : listing[k] \in Specs /\ listing[k].supported
  BY DEF Changed, Desired, LifecycleInv, TypeOK
<1>4. StopAndCreate(stop, create, listing)
  BY DEF Reconcile
<1> HIDE DEF stop, create
<1> QED
  BY <1>1, <1>2, <1>3, <1>4, StopAndCreateOwnership DEF LifecycleInv

\* A self-heal sweep stops every job it recreates.
LEMMA SelfHealOwnership ==
    ASSUME LifecycleInv, SelfHeal
    PROVE  Ownership' /\ Registry!Reassign
<1>1. PICK stalled \in SUBSET Registered :
         StopAndCreate(stalled, stalled, [k \in stalled |-> jobSpec[jobs[k]]])
  BY DEF SelfHeal
<1>2. stalled \in SUBSET Keys
  BY DEF Registered
<1>3. \A k \in stalled : jobSpec[jobs[k]] \in Specs /\ jobSpec[jobs[k]].supported
  BY DEF LifecycleInv, Ownership, RegisteredJobsOpen, Open, Registered
<1> QED
  BY <1>1, <1>2, <1>3, StopAndCreateOwnership DEF LifecycleInv

\* Start creates a job only for a key that has none yet (Loading).
LEMMA LoadOwnership ==
    ASSUME LifecycleInv, NEW k \in Keys, LoadNext(k)
    PROVE  Ownership' /\ Registry!Reassign
<1> DEFINE create == IF listing[k].supported THEN {k} ELSE {}
<1>1. jobs[k] = None /\ listing[k] # None
  BY DEF LoadNext, LifecycleInv, Loading
<1>2. {} \in SUBSET Registered /\ create \in SUBSET Keys /\ create \cap Registered \subseteq {}
  BY <1>1 DEF Registered
<1>3. \A c \in create : listing[c] \in Specs /\ listing[c].supported
  BY <1>1 DEF LifecycleInv, TypeOK
<1>4. StopAndCreate({}, create, listing)
  BY DEF LoadNext
<1> HIDE DEF create
<1> QED
  BY <1>2, <1>3, <1>4, StopAndCreateOwnership DEF LifecycleInv

\* Stop stops every registered job and creates none.
LEMMA StopOwnership ==
    ASSUME LifecycleInv, StopAllJobs
    PROVE  Ownership' /\ Registry!Reassign
<1>1. StopAndCreate(Registered, {}, NoListing)
  BY DEF StopAllJobs
<1>2. \A k \in {} : NoListing[k] \in Specs /\ NoListing[k].supported
  OBVIOUS
<1> QED
  BY <1>1, <1>2, StopAndCreateOwnership DEF LifecycleInv

\* A step of a collector leaves c.jobs alone and only takes its own struct away.
LEMMA CollectorOwnership ==
    ASSUME LifecycleInv, NEW i \in Ids, Collector(i)
    PROVE  Ownership' /\ (Registry!Finish(i) \/ UNCHANGED Registry!vars)
<1>1. CASE JobReturns(i)
  BY <1>1, CollectorReturns DEF LifecycleInv
<1>2. CASE JobTick(i)
  BY <1>2, CollectorMoves DEF LifecycleInv, JobTick, Positions
<1>3. CASE GetTargets(i)
  BY <1>3, CollectorMoves DEF LifecycleInv, GetTargets, Positions
<1>4. CASE StoreNoTargets(i)
  BY <1>4, CollectorMoves DEF LifecycleInv, StoreNoTargets, Positions
<1>5. CASE StoreEmpty(i)
  BY <1>5, CollectorMoves DEF LifecycleInv, StoreEmpty, Positions
<1>6. CASE StoreCollected(i)
  BY <1>6, CollectorMoves DEF LifecycleInv, StoreCollected, Positions
<1>7. CASE Send(i)
  BY <1>7, CollectorMoves DEF LifecycleInv, Send, Positions
<1>8. CASE Record(i)
  BY <1>8, CollectorMoves DEF LifecycleInv, Record, Positions
<1> QED
  BY <1>1, <1>2, <1>3, <1>4, <1>5, <1>6, <1>7, <1>8 DEF Collector, CycleStep

\* Ownership is inductive, and every step is one of JobRegistry's or a stutter.
LEMMA OwnershipNext ==
    ASSUME LifecycleInv, [Next]_vars
    PROVE  Ownership' /\ [Registry!Next]_Registry!vars
<1>1. CASE Reconcile
  BY <1>1, ReconcileOwnership DEF Registry!Next
<1>2. CASE SelfHeal
  BY <1>2, SelfHealOwnership DEF Registry!Next
<1>3. ASSUME NEW k \in Keys, LoadNext(k)
      PROVE  Ownership' /\ Registry!Next
  BY <1>3, LoadOwnership DEF Registry!Next
<1>4. CASE StopAllJobs
  BY <1>4, StopOwnership DEF Registry!Next
<1>5. ASSUME NEW i \in Ids, Collector(i)
      PROVE  Ownership' /\ [Registry!Next]_Registry!vars
  BY <1>5, CollectorOwnership DEF Registry!Next
<1>6. CASE PodRestart \/ Crash
  BY <1>6, NoCollector DEF PodRestart, Crash, Registry!Next
<1>7. CASE \/ StartList \/ StartListFails \/ LaunchLoop
           \/ LoopReturns \/ TickList \/ TickListFails
           \/ CloseStopCh \/ StopReturns \/ CancelContext
           \/ UNCHANGED vars
  <2>1. UNCHANGED <<jobs, jobVars>>
    BY <1>7 DEF StartList, StartListFails, LaunchLoop, LoopReturns, TickList, TickListFails,
                CloseStopCh, StopReturns, CancelContext, vars, jobVars
  <2> QED
    BY <2>1, JobsUntouched DEF LifecycleInv
<1>8. ASSUME NEW k \in Keys, NEW s \in Specs \cup {None}, EditMetricAccess(k, s)
      PROVE  Ownership' /\ UNCHANGED Registry!vars
  BY <1>8, JobsUntouched DEF LifecycleInv, EditMetricAccess
<1> QED
  BY <1>1, <1>2, <1>3, <1>4, <1>5, <1>6, <1>7, <1>8
     DEF Next, Controller, Environment, LoadAny

-----------------------------------------------------------------------------
(* Loading, and the types of the variables Ownership does not mention. *)

\* Loading is inductive: until the loop runs, only LoadNext registers jobs.
LEMMA LoadingNext ==
    ASSUME LifecycleInv, [Next]_vars
    PROVE  Loading'
<1> USE DEF LifecycleInv, Loading
<1>1. CASE StartList
  BY <1>1 DEF StartList, Registered, jobVars
<1>2. CASE StartListFails
  BY <1>2 DEF StartListFails, Registered, jobVars
<1>3. ASSUME NEW k \in Keys, LoadNext(k)
      PROVE  Loading'
  <2>1. \A c \in Keys : c # k /\ jobs[c] = None => jobs'[c] = None
    BY <1>3 DEF LoadNext, StopAndCreate, JobsAfter
  <2>2. todo' = todo \ {k} /\ todo \subseteq Keys
    BY <1>3 DEF LoadNext, TypeOK
  <2> QED
    BY <1>3, <2>1, <2>2 DEF LoadNext
<1>4. CASE Reconcile \/ SelfHeal
  BY <1>4 DEF Reconcile, SelfHeal, TypeOK
<1>5. CASE PodRestart \/ Crash
  BY <1>5 DEF PodRestart, Crash, ProcessEnds, Registered
<1>6. CASE StopAllJobs
  <2>1. \A k \in Keys : jobs'[k] = None
    BY <1>6 DEF StopAllJobs, StopAndCreate, Registered, JobsAfter
  <2> QED
    BY <1>6, <2>1 DEF StopAllJobs, TypeOK, Registered
<1>7. CASE LaunchLoop
  BY <1>7 DEF LaunchLoop
<1>8. CASE \/ LoopReturns \/ TickList \/ TickListFails
  BY <1>8 DEF LoopReturns, TickList, TickListFails, TypeOK
<1>9. CASE \/ CloseStopCh \/ StopReturns \/ CancelContext \/ UNCHANGED vars
  BY <1>9 DEF CloseStopCh, StopReturns, CancelContext, vars, Registered
<1>10. ASSUME NEW k \in Keys, NEW s \in Specs \cup {None}, EditMetricAccess(k, s)
       PROVE  Loading'
  BY <1>10 DEF EditMetricAccess, ctlVars, Registered
<1>11. ASSUME NEW i \in Ids, Collector(i)
       PROVE  Loading'
  BY <1>11 DEF Collector, CycleStep, GetTargets, StoreNoTargets, StoreEmpty, StoreCollected,
               Send, Record, JobTick, JobReturns, ctlVars, Registered
<1> QED
  BY <1>1, <1>2, <1>3, <1>4, <1>5, <1>6, <1>7, <1>8, <1>9, <1>10, <1>11
     DEF Next, Controller, Environment, LoadAny

\* TypeOK is inductive, relative to the invariant.
LEMMA TypeNext ==
    ASSUME LifecycleInv, [Next]_vars
    PROVE  TypeOK'
<1> DEFINE Stage == /\ cr \in [Keys -> Specs \cup {None}]
                    /\ collected \in [Keys -> Specs \cup {None, Empty}]
                    /\ starter \in {"init", "loading", "done"}
                    /\ loop \in {"off", "select", "reconcile", "sweep", "returned"}
                    /\ stopper \in {"none", "closed", "waiting", "returned"}
                    /\ listing \in [Keys -> Specs \cup {None}]
                    /\ todo \in SUBSET Keys
                    /\ ctxDone \in BOOLEAN
<1>1. Ownership'
  BY OwnershipNext
<1>2. Stage
  BY DEF LifecycleInv, TypeOK
<1>3. NoListing \in [Keys -> Specs \cup {None}]
  BY DEF NoListing
<1>4. ASSUME NEW i \in Ids, Collector(i)
      PROVE  Stage'
  <2>1. CASE StoreCollected(i)
    <3>1. jobSpec[i] \in Specs
      BY <2>1 DEF StoreCollected, Goto, LifecycleInv, Ownership, Running
    <3> QED
      BY <1>2, <2>1, <3>1 DEF StoreCollected, ctlVars, envVars
  <2>2. CASE StoreEmpty(i) \/ StoreNoTargets(i)
    BY <1>2, <2>2 DEF StoreEmpty, StoreNoTargets, ctlVars, envVars
  <2>3. CASE GetTargets(i) \/ Send(i) \/ Record(i) \/ JobTick(i) \/ JobReturns(i)
    BY <1>2, <2>3 DEF GetTargets, Send, Record, JobTick, JobReturns, ctlVars, envVars
  <2> QED
    BY <1>4, <2>1, <2>2, <2>3 DEF Collector, CycleStep
<1>5. ASSUME Controller
      PROVE  Stage'
  <2>1. CASE StartList \/ StartListFails \/ LaunchLoop
    BY <1>2, <1>3, <2>1 DEF StartList, StartListFails, LaunchLoop, envVars
  <2>2. CASE LoadAny
    BY <1>2, <2>2 DEF LoadAny, LoadNext, envVars
  <2>3. CASE LoopReturns \/ TickList \/ TickListFails
    BY <1>2, <2>3 DEF LoopReturns, TickList, TickListFails, envVars
  <2>4. CASE Reconcile \/ SelfHeal
    BY <1>2, <1>3, <2>4 DEF Reconcile, SelfHeal, envVars
  <2>5. CASE PodRestart
    BY <1>2, <1>3, <2>5 DEF PodRestart, ProcessEnds
  <2>6. CASE CloseStopCh \/ StopAllJobs \/ StopReturns
    BY <1>2, <2>6 DEF CloseStopCh, StopAllJobs, StopReturns, envVars
  <2> QED
    BY <1>5, <2>1, <2>2, <2>3, <2>4, <2>5, <2>6 DEF Controller
<1>6. ASSUME Environment
      PROVE  Stage'
  <2>1. CASE CancelContext
    BY <1>2, <2>1 DEF CancelContext, envVars
  <2>2. CASE Crash
    BY <1>2, <1>3, <2>2 DEF Crash, ProcessEnds
  <2>3. ASSUME NEW k \in Keys, NEW s \in Specs \cup {None}, EditMetricAccess(k, s)
        PROVE  Stage'
    BY <1>2, <2>3 DEF EditMetricAccess, ctlVars
  <2> QED
    BY <1>6, <2>1, <2>2, <2>3 DEF Environment
<1>7. ASSUME UNCHANGED vars
      PROVE  Stage'
  BY <1>2, <1>7 DEF vars
<1>8. Stage'
  BY <1>4, <1>5, <1>6, <1>7 DEF Next
<1> QED
  BY <1>1, <1>8 DEF Ownership, TypeOK

-----------------------------------------------------------------------------
\* Types, the correspondence of jobs and collectors, and the order of loading
\* hold in every reachable state: the inductive invariant of the controller.
THEOREM LifecycleInvariant == Spec => []LifecycleInv
<1>1. Init => LifecycleInv
  <2> SUFFICES ASSUME Init PROVE LifecycleInv
    OBVIOUS
  <2>1. Ownership
    BY NoCollector DEF Init
  <2>2. Loading
    BY DEF Init, ProcessInit, Loading, Registered
  <2>3. TypeOK
    BY <2>1 DEF Init, ProcessInit, TypeOK, Ownership, NoListing
  <2> QED
    BY <2>1, <2>2, <2>3 DEF LifecycleInv
<1>2. LifecycleInv /\ [Next]_vars => LifecycleInv'
  BY OwnershipNext, LoadingNext, TypeNext DEF LifecycleInv
<1> QED
  BY <1>1, <1>2, PTL DEF Spec

(***************************************************************************)
(* Every state of the lifecycle specification is well typed.               *)
(***************************************************************************)
THEOREM TypeCorrect == Spec => []TypeOK
<1>1. LifecycleInv => TypeOK
  BY DEF LifecycleInv
<1> QED
  BY <1>1, LifecycleInvariant, PTL

(***************************************************************************)
(* Whatever is reconciled, healed, loaded or stopped, and in which order:  *)
(* a registered job is open and serves its key, so that StopCh is never    *)
(* closed twice.                                                           *)
(***************************************************************************)
THEOREM RegisteredAreOpen == Spec => []RegisteredJobsOpen
<1>1. LifecycleInv => RegisteredJobsOpen
  BY DEF LifecycleInv, Ownership
<1> QED
  BY <1>1, LifecycleInvariant, PTL

(***************************************************************************)
(* No open collector is ever out of the controller's reach.                *)
(***************************************************************************)
THEOREM NoCollectorIsOrphaned == Spec => []NoOrphanedCollector
<1>1. LifecycleInv => NoOrphanedCollector
  BY DEF LifecycleInv, Ownership
<1> QED
  BY <1>1, LifecycleInvariant, PTL

(***************************************************************************)
(* The controller implements JobRegistry.                                  *)
(***************************************************************************)
THEOREM ImplementsRegistry == Spec => RefinesRegistry
<1>1. Init => Registry!Init
  BY NoCollector DEF Init
<1>2. LifecycleInv /\ [Next]_vars => [Registry!Next]_Registry!vars
  BY OwnershipNext
<1> QED
  BY <1>1, <1>2, LifecycleInvariant, PTL DEF Spec, RefinesRegistry, Registry!Spec

-----------------------------------------------------------------------------
(***************************************************************************)
(* Reconciliation.  While Start loads, what it is through with collects    *)
(* with what was listed; a list is kept from its List to its reconcile and *)
(* no longer.                                                              *)
(***************************************************************************)
ListInHand ==
    /\ loop = "off" <=> starter # "done"
    /\ starter # "done" => stopper = "none"
    /\ starter = "init" => listing = NoListing
    /\ starter = "loading" => \A k \in Keys \ todo : Collecting[k] = Asked(listing)[k]
    /\ starter = "done" /\ loop # "reconcile" => listing = NoListing

\* What a critical section does to the configurations collected with.
LEMMA StopAndCreateCollecting ==
    ASSUME Ownership,
           NEW stop \in SUBSET Registered, NEW create \in SUBSET Keys, NEW spec,
           StopAndCreate(stop, create, spec)
    PROVE  Collecting' = [k \in Keys |-> IF k \in create THEN spec[k]
                                         ELSE IF k \in stop THEN None
                                         ELSE Collecting[k]]
<1>1. PICK new \in Injection(create, Unused) :
        /\ jobs' = [k \in Keys |-> IF k \in create THEN new[k]
                                   ELSE IF k \in stop THEN None
                                   ELSE jobs[k]]
        /\ jobSpec' = [i \in Ids |-> IF \E k \in create : new[k] = i
                                     THEN spec[CHOOSE k \in create : new[k] = i]
                                     ELSE jobSpec[i]]
  BY DEF StopAndCreate, JobsAfter
<1>2. /\ \A k \in create : new[k] \in Ids /\ new[k] # None /\ ~Running(new[k])
      /\ \A k, c \in create : new[k] = new[c] => k = c
  BY LifecycleAssumption DEF Injection, IsInjective, Unused
<1>3. ASSUME NEW k \in Keys
      PROVE  (IF jobs'[k] # None THEN jobSpec'[jobs'[k]] ELSE None)
                 = IF k \in create THEN spec[k]
                   ELSE IF k \in stop THEN None
                   ELSE IF jobs[k] # None THEN jobSpec[jobs[k]] ELSE None
  <2>1. CASE k \in create
    <3>1. (CHOOSE c \in create : new[c] = new[k]) = k
      BY <1>2, <2>1
    <3>2. jobs'[k] = new[k] /\ jobSpec'[new[k]] = spec[k]
      BY <1>1, <1>2, <2>1, <3>1
    <3> QED
      BY <1>2, <2>1, <3>2
  <2>2. CASE k \notin create /\ k \notin stop /\ jobs[k] # None
    <3>1. jobs[k] \in Ids /\ Running(jobs[k])
      BY <2>2 DEF Ownership, RegisteredJobsOpen, Registered, Open
    <3>2. \A c \in create : new[c] # jobs[k]
      BY <1>2, <3>1
    <3>3. jobs'[k] = jobs[k] /\ jobSpec'[jobs[k]] = jobSpec[jobs[k]]
      BY <1>1, <2>2, <3>1, <3>2
    <3> QED
      BY <2>2, <3>3
  <2>3. CASE k \notin create /\ (k \in stop \/ jobs[k] = None)
    BY <1>1, <2>3
  <2> QED
    BY <2>1, <2>2, <2>3
<1> QED
  BY <1>3 DEF Collecting

\* Of no resources nothing is asked, and with no jobs nothing is collected.
LEMMA NothingAsked ==
    /\ Asked(NoListing) = Reconciling!Unserved
    /\ ProcessInit => Collecting = Reconciling!Unserved
    /\ ProcessEnds => Collecting' = Reconciling!Unserved
BY DEF Asked, NoListing, Reconciling!Unserved, ProcessInit, ProcessEnds, Collecting

(***************************************************************************)
(* Comparing the number of the patterns and looking the new ones up among  *)
(* the old is enough where no new one is repeated: two lists of one length *)
(* and no other element on either side.                                    *)
(***************************************************************************)
LEMMA SameLengthNoRepeats ==
    ASSUME NEW S, NEW T, NEW old \in Seq(S), NEW new \in Seq(T),
           Len(old) = Len(new), Range(new) \subseteq Range(old), IsInjective(new)
    PROVE  Range(old) = Range(new)
<1> DEFINE n == Len(new)
<1>1. n \in Nat /\ DOMAIN old = 1..n /\ DOMAIN new = 1..n
  OBVIOUS
<1>2. ASSUME NEW j \in 1..n, old[j] \notin Range(new)
      PROVE  FALSE
  <2> DEFINE others == (1..n) \ {j}
             place == [i \in 1..n |-> CHOOSE m \in 1..n : old[m] = new[i]]
  <2>1. \A i \in 1..n : place[i] \in 1..n /\ old[place[i]] = new[i]
    BY <1>1 DEF Range
  <2>2. place \in [1..n -> others]
    BY <1>1, <1>2, <2>1 DEF Range
  <2>3. IsFiniteSet(1..n) /\ Cardinality(1..n) = n
    <3>1. \A m \in Nat : IsFiniteSet(1..m) /\ Cardinality(1..m) = m
      <4> TAKE m \in Nat
      <4>1. 1 \in Int /\ m \in Int /\ (IF 1 > m THEN 0 ELSE m - 1 + 1) = m
        OBVIOUS
      <4> QED
        BY <4>1, FS_Interval
    <3> QED
      BY <1>1, <3>1
  <2>4. IsFiniteSet(others) /\ Cardinality(others) < Cardinality(1..n)
    <3>1. IsFiniteSet(others) /\ Cardinality(others) = Cardinality(1..n) - 1
      BY <2>3, FS_RemoveElement
    <3> QED
      BY <1>1, <2>3, <3>1
  <2>5. PICK x, y \in 1..n : x # y /\ place[x] = place[y]
    <3> HIDE DEF others, place
    <3> QED
      BY <2>2, <2>3, <2>4, FS_PigeonHole
  <2>6. new[x] = new[y]
    BY <2>1, <2>5
  <2> QED
    BY <1>1, <2>5, <2>6 DEF IsInjective
<1> QED
  BY <1>1, <1>2 DEF Range

\* What hasConfigurationChanged lets pass stands in for what is asked.
LEMMA UnchangedStandsIn ==
    ASSUME NEW served \in Specs, NEW asked \in Specs,
           ~HasConfigurationChanged(served, asked)
    PROVE  StandsInFor(served, asked)
<1>1. /\ served.patterns \in Seq(Range(served.patterns))
      /\ asked.patterns \in Seq(Range(asked.patterns))
  BY LifecycleAssumption
<1>2. IsInjective(asked.patterns) => Range(served.patterns) = Range(asked.patterns)
  BY <1>1, SameLengthNoRepeats DEF HasConfigurationChanged
<1> QED
  BY <1>2 DEF HasConfigurationChanged, StandsInFor

\* A reconcile brings the jobs to the list, but for those it need not touch.
LEMMA ReconcileServes ==
    ASSUME LifecycleInv, Reconcile
    PROVE  \A k \in Keys :
              \/ Collecting'[k] = Asked(listing)[k]
              \/ /\ Collecting'[k] = Collecting[k]
                 /\ <<Collecting[k], Asked(listing)[k]>> \in Unnoticed
<1> DEFINE stop == Changed \cup (Registered \ Desired)
           create == {k \in Changed \cup (Desired \ Registered) : listing[k].supported}
<1>1. stop \in SUBSET Registered /\ create \in SUBSET Keys
  BY DEF Changed, Desired, Registered
<1>2. StopAndCreate(stop, create, listing)
  BY DEF Reconcile
<1>3. Collecting' = [k \in Keys |-> IF k \in create THEN listing[k]
                                    ELSE IF k \in stop THEN None
                                    ELSE Collecting[k]]
  <2> HIDE DEF stop, create
  <2> QED
    BY <1>1, <1>2, StopAndCreateCollecting DEF LifecycleInv
<1>4. ASSUME NEW k \in Keys
      PROVE  \/ Collecting'[k] = Asked(listing)[k]
             \/ /\ Collecting'[k] = Collecting[k]
                /\ <<Collecting[k], Asked(listing)[k]>> \in Unnoticed
  <2>1. CASE k \in create
    BY <1>3, <2>1 DEF Asked, Changed, Desired
  <2>2. CASE k \notin create /\ k \in stop
    BY <1>3, <2>2 DEF Asked, Desired
  <2>3. CASE k \notin create /\ k \notin stop /\ k \in Registered
    <3>1. listing[k] # None /\ ~HasConfigurationChanged(jobSpec[jobs[k]], listing[k])
      BY <2>3 DEF Changed, Desired
    <3>2. jobSpec[jobs[k]].supported
      BY <2>3 DEF LifecycleInv, Ownership, RegisteredJobsOpen
    <3>3. /\ jobSpec[jobs[k]] \in Specs /\ listing[k] \in Specs
      BY <2>3, <3>1 DEF LifecycleInv, Ownership, RegisteredJobsOpen, Registered, Open, TypeOK
    <3>4. listing[k].supported
      BY <3>1, <3>2, <3>3, LifecycleAssumption DEF HasConfigurationChanged
    <3>5. <<jobSpec[jobs[k]], listing[k]>> \in Unnoticed
      BY <3>1, <3>3, UnchangedStandsIn DEF Unnoticed
    <3> QED
      BY <1>3, <2>3, <3>1, <3>4, <3>5 DEF Asked, Collecting, Registered
  <2>4. CASE k \notin create /\ k \notin stop /\ k \notin Registered
    BY <1>3, <2>4 DEF Asked, Collecting, Registered, Desired
  <2> QED
    BY <2>1, <2>2, <2>3, <2>4
<1> QED
  BY <1>4

\* A sweep gives a stalled tenant the configuration it had.
LEMMA SelfHealServes ==
    ASSUME LifecycleInv, SelfHeal
    PROVE  Collecting' = Collecting
<1>1. PICK stalled \in SUBSET Registered :
         StopAndCreate(stalled, stalled, [k \in stalled |-> jobSpec[jobs[k]]])
  BY DEF SelfHeal
<1>2. stalled \in SUBSET Keys /\ \A k \in stalled : jobs[k] # None
  BY DEF Registered
<1>3. Collecting' = [k \in Keys |->
          IF k \in stalled THEN [c \in stalled |-> jobSpec[jobs[c]]][k]
          ELSE IF k \in stalled THEN None ELSE Collecting[k]]
  BY <1>1, <1>2, StopAndCreateCollecting DEF LifecycleInv
<1> QED
  BY <1>2, <1>3 DEF Collecting

\* Start brings one key to the list, and leaves the others alone.
LEMMA LoadServes ==
    ASSUME LifecycleInv, ListInHand, NEW k \in Keys, LoadNext(k)
    PROVE  /\ \A c \in Keys : Collecting'[c] \in {Collecting[c], Asked(listing)[c]}
           /\ \A c \in Keys \ todo' : Collecting'[c] = Asked(listing)[c]
<1> DEFINE create == IF listing[k].supported THEN {k} ELSE {}
<1>1. StopAndCreate({}, create, listing)
  BY DEF LoadNext
<1>2. {} \in SUBSET Registered /\ create \in SUBSET Keys
  OBVIOUS
<1>3. Collecting' = [c \in Keys |-> IF c \in create THEN listing[c]
                                    ELSE IF c \in {} THEN None
                                    ELSE Collecting[c]]
  <2> HIDE DEF create
  <2> QED
    BY <1>1, <1>2, StopAndCreateCollecting DEF LifecycleInv
<1>4. jobs[k] = None /\ listing[k] # None /\ todo' = todo \ {k} /\ starter = "loading"
  BY DEF LoadNext, LifecycleInv, Loading
<1>5. Collecting'[k] = Asked(listing)[k]
  BY <1>3, <1>4 DEF Asked, Collecting
<1>6. \A c \in Keys \ {k} : Collecting'[c] = Collecting[c]
  BY <1>3
<1> QED
  BY <1>4, <1>5, <1>6 DEF ListInHand

\* A collector that ends is of no registered job any more.
LEMMA CollectorServes ==
    ASSUME LifecycleInv, NEW i \in Ids, Collector(i)
    PROVE  Collecting' = Collecting
<1>1. CASE JobReturns(i)
  <2>1. \A k \in Keys : jobs[k] # None => jobs[k] \in Ids \ {i}
    BY <1>1 DEF JobReturns, LifecycleInv, Ownership, RegisteredJobsOpen, Open, Registered
  <2>2. \A c \in Ids \ {i} : jobSpec'[c] = jobSpec[c]
    BY <1>1 DEF JobReturns, LifecycleInv, Ownership
  <2>3. jobs' = jobs
    BY <1>1 DEF JobReturns
  <2> QED
    BY <2>1, <2>2, <2>3 DEF Collecting
<1>2. CASE CycleStep(i) \/ JobTick(i)
  <2>1. UNCHANGED <<jobs, jobSpec>>
    BY <1>2 DEF CycleStep, GetTargets, StoreNoTargets, StoreEmpty, StoreCollected, Send,
                Record, JobTick, Goto
  <2> QED
    BY <2>1 DEF Collecting
<1> QED
  BY <1>1, <1>2 DEF Collector

\* ListInHand is inductive.
LEMMA ListInHandNext ==
    ASSUME LifecycleInv, ListInHand, [Next]_vars
    PROVE  ListInHand'
<1>1. CASE StartList
  <2>1. \A k \in Keys : Collecting[k] = None /\ Collecting' = Collecting
    BY <1>1 DEF StartList, LifecycleInv, Loading, Registered, Collecting, jobVars
  <2>2. \A k \in Keys : Asked(cr)[k] = IF k \in todo' /\ cr[k].supported
                                       THEN cr[k] ELSE None
    BY <1>1 DEF StartList, Asked
  <2>3. \A k \in Keys : Asked(listing)'[k] = Asked(cr)[k]
    BY <1>1 DEF StartList, Asked
  <2> QED
    BY <1>1, <2>1, <2>2, <2>3 DEF StartList, ListInHand
<1>2. CASE StartListFails
  <2>1. UNCHANGED <<Collecting, Asked(listing)>>
    BY <1>2 DEF StartListFails, Collecting, Asked, jobVars
  <2>2. \A k \in Keys : Collecting[k] = None /\ Asked(listing)[k] = None
    BY <1>2 DEF StartListFails, LifecycleInv, Loading, Registered, Collecting, Asked, ListInHand,
                NoListing
  <2> QED
    BY <1>2, <2>1, <2>2 DEF StartListFails, ListInHand
<1>3. ASSUME NEW k \in Keys, LoadNext(k)
      PROVE  ListInHand'
  <2>1. UNCHANGED <<Asked(listing), listing, starter, loop, stopper>> /\ starter = "loading"
    BY <1>3 DEF LoadNext, Asked
  <2> QED
    BY <1>3, <2>1, LoadServes DEF ListInHand
<1>4. CASE LaunchLoop
  BY <1>4 DEF LaunchLoop, ListInHand, NoListing
<1>5. CASE LoopReturns \/ TickList \/ TickListFails
  BY <1>5 DEF LoopReturns, TickList, TickListFails, ListInHand, NoListing
<1>6. CASE Reconcile \/ SelfHeal
  BY <1>6 DEF Reconcile, SelfHeal, ListInHand, NoListing
<1>7. CASE PodRestart \/ Crash
  BY <1>7 DEF PodRestart, Crash, ProcessEnds, ListInHand, NoListing
<1>8. CASE CloseStopCh \/ StopAllJobs \/ StopReturns
  BY <1>8 DEF CloseStopCh, StopAllJobs, StopReturns, ListInHand, NoListing
<1>9. ASSUME \/ CancelContext
             \/ UNCHANGED vars
             \/ \E k \in Keys, s \in Specs \cup {None} : EditMetricAccess(k, s)
             \/ \E i \in Ids : Collector(i)
      PROVE  ListInHand'
  <2>1. Collecting' = Collecting
    BY <1>9, CollectorServes DEF CancelContext, vars, EditMetricAccess, Collecting, jobVars
  <2>2. UNCHANGED <<listing, todo, starter, loop, stopper>>
    BY <1>9 DEF CancelContext, vars, EditMetricAccess, ctlVars, Collector, CycleStep, GetTargets,
                StoreNoTargets, StoreEmpty, StoreCollected, Send, Record, JobTick, JobReturns
  <2> QED
    BY <2>1, <2>2 DEF ListInHand, NoListing, Asked
<1> QED
  BY <1>1, <1>2, <1>3, <1>4, <1>5, <1>6, <1>7, <1>8, <1>9
     DEF Next, Controller, Environment, LoadAny

\* The loop that is serving is waiting or ticking.
LEMMA ServingMapped ==
    ASSUME TypeOK, ListInHand
    PROVE  /\ Serving <=> Reconciling!Serving
           /\ Serving /\ loop = "reconcile" <=> Serving /\ LoopPhase = "ticking"
           /\ Serving /\ loop # "reconcile" <=> Serving /\ LoopPhase = "waiting"
BY DEF TypeOK, ListInHand, Serving, Reconciling!Serving, LoopPhase, ToldToEnd

\* Every step is one of Reconciliation's, or leaves it alone.
LEMMA ReconciliationNext ==
    ASSUME LifecycleInv, ListInHand, [Next]_vars
    PROVE  [Reconciling!Next]_Reconciling!vars
<1>1. CASE StartList
  <2>1. Reconciling!List("new", "loading")
    BY <1>1 DEF StartList, Reconciling!List, Asked, Collecting, LoopPhase, ToldToEnd, envVars,
                jobVars
  <2> QED
    BY <2>1 DEF Reconciling!Next
<1>2. CASE StartListFails
  <2>1. Reconciling!StartWithoutList
    BY <1>2 DEF StartListFails, Reconciling!StartWithoutList, Asked, Collecting, LoopPhase,
                ToldToEnd, envVars, jobVars
  <2> QED
    BY <2>1 DEF Reconciling!Next
<1>3. ASSUME NEW k \in Keys, LoadNext(k)
      PROVE  Reconciling!Next
  <2>1. LoopPhase = "loading" /\ UNCHANGED <<Asked(cr), Asked(listing), LoopPhase, ToldToEnd>>
    BY <1>3 DEF LoadNext, Asked, LoopPhase, ToldToEnd, envVars
  <2>2. Collecting' = [c \in Keys |-> Collecting'[c]]
    BY DEF Collecting
  <2>3. Reconciling!Load
    BY <1>3, <2>1, <2>2, LoadServes DEF Reconciling!Load
  <2> QED
    BY <2>3 DEF Reconciling!Next
<1>4. CASE LaunchLoop
  <2>1. /\ LoopPhase = "loading" /\ LoopPhase' = "waiting"
        /\ UNCHANGED <<Asked(cr), ToldToEnd, Collecting>>
        /\ Asked(listing)' = Asked(NoListing)
    BY <1>4 DEF LaunchLoop, Asked, LoopPhase, ToldToEnd, Collecting, envVars, jobVars, NoListing
  <2>2. \A k \in Keys : Collecting[k] = Asked(listing)[k]
    BY <1>4 DEF LaunchLoop, ListInHand
  <2>3. Collecting = Asked(listing)
    <3>1. /\ Collecting = [k \in Keys |-> Collecting[k]]
          /\ Asked(listing) = [k \in Keys |-> Asked(listing)[k]]
      BY DEF Collecting, Asked
    <3> QED
      BY <2>2, <3>1
  <2>4. Reconciling!Serve("loading")
    <3>1. Collecting' = [k \in Keys |-> Collecting'[k]]
      BY DEF Collecting
    <3> QED
      BY <2>1, <2>3, <3>1, NothingAsked DEF Reconciling!Serve
  <2> QED
    BY <2>4 DEF Reconciling!Next
<1>5. CASE LoopReturns
  <2>1. LoopPhase = "waiting" /\ LoopPhase' = "returned" /\ ToldToEnd # {}
    BY <1>5 DEF LoopReturns, LoopPhase, ToldToEnd, ListInHand, LifecycleInv, TypeOK
  <2>2. UNCHANGED <<Asked(cr), Asked(listing), ToldToEnd, Collecting>>
    BY <1>5 DEF LoopReturns, Asked, ToldToEnd, Collecting, envVars, jobVars
  <2> QED
    BY <2>1, <2>2 DEF Reconciling!Return, Reconciling!Next
<1>6. CASE TickList
  <2>1. LoopPhase = "waiting" /\ LoopPhase' = "ticking" /\ "cancelled" \notin ToldToEnd
    BY <1>6 DEF TickList, LoopPhase, ToldToEnd, ListInHand, LifecycleInv, TypeOK
  <2>2. Asked(listing)' = Asked(cr) /\ UNCHANGED <<Asked(cr), ToldToEnd, Collecting>>
    BY <1>6 DEF TickList, Asked, ToldToEnd, Collecting, envVars, jobVars
  <2> QED
    BY <2>1, <2>2 DEF Reconciling!List, Reconciling!Next
<1>7. CASE Reconcile
  <2>1. LoopPhase = "ticking" /\ LoopPhase' = "waiting"
    BY <1>7 DEF Reconcile, LoopPhase, ListInHand, LifecycleInv, TypeOK
  <2>2. Asked(listing)' = Asked(NoListing) /\ UNCHANGED <<Asked(cr), ToldToEnd>>
    BY <1>7 DEF Reconcile, Asked, ToldToEnd, envVars, NoListing
  <2> QED
    <3>1. Collecting' = [k \in Keys |-> Collecting'[k]]
      BY DEF Collecting
    <3> QED
      BY <1>7, <2>1, <2>2, <3>1, ReconcileServes, NothingAsked
         DEF Reconciling!Serve, Reconciling!Next
<1>8. CASE SelfHeal \/ TickListFails
  <2>1. Collecting' = Collecting
    BY <1>8, SelfHealServes DEF TickListFails, Collecting, jobVars
  <2>2. LoopPhase' = LoopPhase
    BY <1>8 DEF SelfHeal, TickListFails, LoopPhase
  <2>3. UNCHANGED <<Asked(cr), Asked(listing), ToldToEnd>>
    BY <1>8 DEF SelfHeal, TickListFails, Asked, ToldToEnd, envVars
  <2> QED
    BY <2>1, <2>2, <2>3 DEF Reconciling!vars
<1>9. CASE PodRestart \/ Crash
  <2>1. ProcessEnds
    BY <1>9 DEF PodRestart, Crash
  <2>2. LoopPhase' = "new" /\ ToldToEnd' = {} /\ Asked(cr)' = Asked(cr)
        /\ Asked(listing)' = Asked(NoListing)
    BY <2>1 DEF ProcessEnds, LoopPhase, ToldToEnd, Asked, NoListing
  <2> QED
    BY <2>1, <2>2, NothingAsked DEF Reconciling!ProcessEnds, Reconciling!Next
<1>10. CASE StopAllJobs
  <2>1. Collecting' = Reconciling!Unserved
    <3>1. \A k \in Keys : jobs'[k] = None
      BY <1>10 DEF StopAllJobs, StopAndCreate, Registered, JobsAfter
    <3> QED
      BY <3>1 DEF Collecting, Reconciling!Unserved
  <2>2. "stopped" \in ToldToEnd
        /\ UNCHANGED <<Asked(cr), Asked(listing), LoopPhase, ToldToEnd>>
    BY <1>10 DEF StopAllJobs, Asked, LoopPhase, ToldToEnd, envVars
  <2> QED
    BY <2>1, <2>2 DEF Reconciling!Stop, Reconciling!Next
<1>11. CASE CloseStopCh \/ CancelContext
  <2>1. UNCHANGED <<Asked(cr), Collecting, Asked(listing), LoopPhase>>
    BY <1>11 DEF CloseStopCh, CancelContext, Asked, Collecting, LoopPhase, envVars, jobVars
  <2>2. ToldToEnd' = ToldToEnd \cup {IF CancelContext THEN "cancelled" ELSE "stopped"}
    BY <1>11 DEF CloseStopCh, CancelContext, ToldToEnd
  <2> QED
    BY <2>1, <2>2 DEF Reconciling!Tell, Reconciling!Next
<1>12. CASE StopReturns
  BY <1>12 DEF StopReturns, Reconciling!vars, Asked, Collecting, LoopPhase, ToldToEnd, envVars,
               jobVars
<1>13. ASSUME NEW k \in Keys, NEW s \in Specs \cup {None}, EditMetricAccess(k, s)
       PROVE  [Reconciling!Next]_Reconciling!vars
  <2>1. UNCHANGED <<Collecting, Asked(listing), LoopPhase, ToldToEnd>>
    BY <1>13 DEF EditMetricAccess, Asked, Collecting, LoopPhase, ToldToEnd, jobVars, ctlVars
  <2> QED
    BY <2>1 DEF Reconciling!Edit, Reconciling!Next, Reconciling!vars
<1>14. ASSUME NEW i \in Ids, Collector(i)
       PROVE  UNCHANGED Reconciling!vars
  <2>1. UNCHANGED <<cr, listing, starter, loop, stopper, ctxDone>>
    BY <1>14 DEF Collector, CycleStep, GetTargets, StoreNoTargets, StoreEmpty, StoreCollected,
                 Send, Record, JobTick, JobReturns, envVars, ctlVars
  <2> QED
    BY <1>14, <2>1, CollectorServes DEF Reconciling!vars, Asked, LoopPhase, ToldToEnd
<1>15. CASE UNCHANGED vars
  BY <1>15 DEF vars, Reconciling!vars, Asked, Collecting, LoopPhase, ToldToEnd
<1> QED
  BY <1>1, <1>2, <1>3, <1>4, <1>5, <1>6, <1>7, <1>8, <1>9, <1>10, <1>11, <1>12, <1>13, <1>14,
     <1>15 DEF Next, Controller, Environment, LoadAny

-----------------------------------------------------------------------------
\* A list is kept for its reconcile only, and what Start is through with
\* collects with what was listed.
THEOREM ListInHandInvariant == Spec => []ListInHand
<1>1. Init => ListInHand
  BY DEF Init, ProcessInit, ListInHand, NoListing
<1>2. LifecycleInv /\ ListInHand /\ [Next]_vars => ListInHand'
  BY ListInHandNext
<1> QED
  BY <1>1, <1>2, LifecycleInvariant, PTL DEF Spec

(***************************************************************************)
(* The controller implements Reconciliation: for any number of keys, each  *)
(* reconcile makes the jobs what its List returned, or keeps one whose     *)
(* configuration stands in for the listed one.                             *)
(***************************************************************************)
THEOREM ImplementsReconciliation == Spec => RefinesReconciliation
<1>1. Init => Reconciling!Init
  <2> SUFFICES ASSUME Init PROVE Reconciling!Init
    OBVIOUS
  <2>1. LoopPhase = "new" /\ ToldToEnd = {} /\ Asked(listing) = Asked(NoListing)
    BY DEF Init, ProcessInit, LoopPhase, ToldToEnd, Asked, NoListing
  <2> QED
    BY <2>1, NothingAsked DEF Init, Reconciling!Init
<1>2. LifecycleInv /\ ListInHand /\ [Next]_vars => [Reconciling!Next]_Reconciling!vars
  BY ReconciliationNext
<1> QED
  BY <1>1, <1>2, LifecycleInvariant, ListInHandInvariant, PTL
     DEF Spec, RefinesReconciliation, Reconciling!Spec

(***************************************************************************)
(* A loop that keeps turning brings the jobs to the resources and keeps    *)
(* them there: JobsConverge needs nothing more of the scheduler than       *)
(* LoopTurns, and holds for any number of keys.                            *)
(***************************************************************************)
THEOREM TurningConverges == Spec /\ LoopTurns => JobsConverge
<1>1. LifecycleInv /\ Reconciling!Kept => JobsMatch
  <2> SUFFICES ASSUME LifecycleInv, Reconciling!Kept, NEW k \in Keys
               PROVE  IF Runnable(k)
                      THEN /\ jobs[k] # None
                           /\ StandsInFor(jobSpec[jobs[k]], cr[k])
                      ELSE jobs[k] = None
    BY DEF JobsMatch
  <2>1. \/ Collecting[k] = Asked(cr)[k]
        \/ <<Collecting[k], Asked(cr)[k]>> \in Unnoticed
    BY DEF Reconciling!Kept
  <2>2. None \notin Specs
    BY LifecycleAssumption
  <2>3. jobs[k] # None => jobSpec[jobs[k]] \in Specs
    BY DEF LifecycleInv, Ownership, RegisteredJobsOpen, Registered, Open
  <2>4. cr[k] # None => cr[k] \in Specs
    BY DEF LifecycleInv, TypeOK
  <2>5. \A served, asked : <<served, asked>> \in Unnoticed =>
            served \in Specs /\ asked \in Specs /\ StandsInFor(served, asked)
    BY DEF Unnoticed
  <2>6. \A s \in Specs : StandsInFor(s, s)
    BY DEF StandsInFor
  <2>7. CASE Collecting[k] = Asked(cr)[k]
    BY <2>2, <2>3, <2>4, <2>6, <2>7 DEF Collecting, Asked, Runnable
  <2>8. CASE <<Collecting[k], Asked(cr)[k]>> \in Unnoticed
    BY <2>2, <2>5, <2>8 DEF Collecting, Asked, Runnable
  <2> QED
    BY <2>1, <2>7, <2>8
<1>2. [FALSE]_cr => [FALSE]_(Asked(cr))
  BY DEF Asked
<1>3. LifecycleInv => TypeOK
  BY DEF LifecycleInv
<1>4. TypeOK /\ ListInHand => (Serving <=> Reconciling!Serving)
  BY ServingMapped
<1>5. /\ TypeOK /\ ListInHand /\ Serving /\ loop = "reconcile" => LoopPhase = "ticking"
      /\ TypeOK /\ ListInHand /\ Serving /\ loop # "reconcile" => LoopPhase = "waiting"
  BY ServingMapped
<1>6. RefinesReconciliation => [][Reconciling!Next]_Reconciling!vars
  BY PTL DEF RefinesReconciliation, Reconciling!Spec
<1>7. Spec /\ <>[]Serving /\ LoopTurns =>
         /\ []<>(LoopPhase = "waiting") /\ []<>(LoopPhase = "ticking")
         /\ <>[]Reconciling!Serving
  BY <1>3, <1>4, <1>5, LifecycleInvariant, ListInHandInvariant, PTL DEF LoopTurns
<1>8. Spec /\ <>[]Serving /\ LoopTurns /\ <>[][FALSE]_cr => <>[]Reconciling!Kept
  BY <1>2, <1>6, <1>7, Reconciling!Settles, ImplementsReconciliation, PTL
<1> QED
  BY <1>1, <1>8, LifecycleInvariant, PTL DEF JobsConverge
=============================================================================
