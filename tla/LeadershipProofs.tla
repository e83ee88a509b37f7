-------------------------- MODULE LeadershipProofs --------------------------
(***************************************************************************)
(* Leadership for any number of replicas and keys: types, one start of the *)
(* reconcile loop per process, and who may write next to whom.             *)
(***************************************************************************)
EXTENDS Leadership, TLAPS

(***************************************************************************)
(* A leader holds the Lease; a candidate's process is as good as new; and  *)
(* a loop that closed doneCh has returned for good.                        *)
(***************************************************************************)
LeaderHolds == \A r \in Replicas : election[r] = "leading" => holder = r

CandidateIsFresh ==
    \A r \in Replicas :
        election[r] = "candidate" => /\ controller[r] = "none"
                                     /\ serving[r] = {}

ClosedByReturn ==
    \A r \in Replicas : ~panicked[r] /\ (doneClosed[r] => controller[r] = "returned")

ElectionInv ==
    /\ TypeOK
    /\ LeaderHolds
    /\ CandidateIsFresh
    /\ ClosedByReturn

-----------------------------------------------------------------------------
(* Type correctness. *)

\* A step of RunOrDie keeps the types.
LEMMA ElectionType ==
    ASSUME TypeOK, NEW r \in Replicas, Election(r)
    PROVE  TypeOK'
<1>1. CASE Acquire(r)
  BY <1>1 DEF Acquire, TypeOK, Elections, Controllers, bounds
<1>2. CASE RenewalFails(r)
  BY <1>2, LeadershipAssumption DEF RenewalFails, TypeOK, Elections
<1>3. CASE Release(r)
  BY <1>3 DEF Release, TypeOK, replicaState, bounds
<1>4. CASE RunOrDieReturns(r)
  BY <1>4 DEF RunOrDieReturns, TypeOK, Elections, bounds
<1> QED
  BY <1>1, <1>2, <1>3, <1>4 DEF Election

\* A step of the controller keeps the types.
LEMMA RunType ==
    ASSUME TypeOK, NEW r \in Replicas, Run(r)
    PROVE  TypeOK'
<1>1. CASE StartController(r)
  BY <1>1 DEF StartController, ControllerStep, TypeOK, Controllers, bounds
<1>2. CASE Load(r)
  BY <1>2 DEF Load, ControllerStep, TypeOK, Controllers, bounds
<1>3. CASE TickList(r)
  BY <1>3 DEF TickList, ControllerStep, TypeOK, Controllers, bounds
<1>4. CASE Reconcile(r)
  BY <1>4 DEF Reconcile, ControllerStep, TypeOK, Controllers, bounds
<1>5. CASE LoopReturns(r)
  BY <1>5 DEF LoopReturns, TypeOK, Controllers, bounds
<1> QED
  BY <1>1, <1>2, <1>3, <1>4, <1>5 DEF Run

\* The end of a process, or its stopping, keeps the types.
LEMMA ProcessType ==
    ASSUME TypeOK, NEW r \in Replicas, Process(r)
    PROVE  TypeOK'
<1>1. CASE Shutdown(r)
  BY <1>1, LeadershipAssumption DEF Shutdown, TypeOK, Elections
<1>2. CASE Exit(r)
  BY <1>2 DEF Exit, Restarted, TypeOK, Elections, Controllers, bounds
<1>3. CASE Crash(r)
  BY <1>3, LeadershipAssumption DEF Crash, Restarted, TypeOK, Elections, Controllers
<1> QED
  BY <1>1, <1>2, <1>3 DEF Process

\* TypeOK is inductive.
LEMMA TypeNext ==
    ASSUME TypeOK, [Next]_vars
    PROVE  TypeOK'
<1>1. ASSUME NEW r \in Replicas, Election(r) \/ Run(r) \/ Process(r)
      PROVE  TypeOK'
  BY <1>1, ElectionType, RunType, ProcessType
<1>2. CASE LeaseExpires
  BY <1>2 DEF LeaseExpires, TypeOK, replicaState, bounds
<1>3. CASE EditMetricAccess
  BY <1>3, LeadershipAssumption DEF EditMetricAccess, TypeOK, replicaState
<1>4. CASE UNCHANGED vars
  BY <1>4 DEF vars, TypeOK, replicaState, bounds
<1> QED
  BY <1>1, <1>2, <1>3, <1>4 DEF Next

\* TypeOK holds initially.
LEMMA TypeInit == Init => TypeOK
BY LeadershipAssumption DEF Init, TypeOK, Elections, Controllers

(***************************************************************************)
(* Every state of the replicas and their Lease is well typed.              *)
(***************************************************************************)
THEOREM TypeCorrect == Spec => []TypeOK
<1>1. TypeOK /\ [Next]_vars => TypeOK'
  BY TypeNext
<1> QED
  BY TypeInit, <1>1, PTL DEF Spec

-----------------------------------------------------------------------------
(* The inductive invariant. *)

\* A step of RunOrDie: only Acquire makes a leader, of the Lease's new holder.
LEMMA ElectionKeeps ==
    ASSUME ElectionInv, NEW r \in Replicas, Election(r)
    PROVE  LeaderHolds' /\ CandidateIsFresh' /\ ClosedByReturn'
<1> USE DEF ElectionInv, TypeOK, LeaderHolds, CandidateIsFresh, ClosedByReturn
<1>1. CASE Acquire(r)
  <2>1. /\ election' = [election EXCEPT ![r] = "leading"]
        /\ holder' = r /\ holder \in {None, r}
    BY <1>1 DEF Acquire
  <2>2. LeaderHolds'
    BY <2>1, LeadershipAssumption
  <2>3. ~doneClosed[r]
    BY <1>1 DEF Acquire
  <2> QED
    BY <1>1, <2>1, <2>2, <2>3 DEF Acquire
<1>2. CASE RenewalFails(r)
  BY <1>2 DEF RenewalFails
<1>3. CASE Release(r)
  BY <1>3 DEF Release, replicaState
<1>4. CASE RunOrDieReturns(r)
  BY <1>4 DEF RunOrDieReturns
<1> QED
  BY <1>1, <1>2, <1>3, <1>4 DEF Election

\* A step of the controller: of a process past its candidacy, and not of a loop
\* that has returned.
LEMMA RunKeeps ==
    ASSUME ElectionInv, NEW r \in Replicas, Run(r)
    PROVE  LeaderHolds' /\ CandidateIsFresh' /\ ClosedByReturn'
<1> USE DEF ElectionInv, TypeOK, LeaderHolds, CandidateIsFresh, ClosedByReturn
<1>1. CASE StartController(r)
  BY <1>1 DEF StartController, ControllerStep
<1>2. CASE Load(r)
  BY <1>2 DEF Load, ControllerStep
<1>3. CASE TickList(r)
  BY <1>3 DEF TickList, ControllerStep
<1>4. CASE Reconcile(r)
  BY <1>4 DEF Reconcile, ControllerStep
<1>5. CASE LoopReturns(r)
  BY <1>5 DEF LoopReturns
<1> QED
  BY <1>1, <1>2, <1>3, <1>4, <1>5 DEF Run

\* ElectionInv is inductive.
LEMMA ElectionNext ==
    ASSUME ElectionInv, [Next]_vars
    PROVE  ElectionInv'
<1>t. TypeOK'
  BY TypeNext DEF ElectionInv
<1>1. ASSUME NEW r \in Replicas, Election(r) \/ Run(r)
      PROVE  ElectionInv'
  BY <1>1, <1>t, ElectionKeeps, RunKeeps DEF ElectionInv
<1> USE DEF ElectionInv, TypeOK, LeaderHolds, CandidateIsFresh, ClosedByReturn
<1>2. ASSUME NEW r \in Replicas, Process(r)
      PROVE  LeaderHolds' /\ CandidateIsFresh' /\ ClosedByReturn'
  <2>1. CASE Shutdown(r)
    BY <2>1 DEF Shutdown
  <2>2. CASE Exit(r) \/ Crash(r)
    BY <2>2 DEF Exit, Crash, Restarted
  <2> QED
    BY <1>2, <2>1, <2>2 DEF Process
<1>3. CASE LeaseExpires
  <2>1. \A r \in Replicas : election[r] # "leading"
    BY <1>3, LeadershipAssumption DEF LeaseExpires
  <2> QED
    BY <1>t, <1>3, <2>1 DEF LeaseExpires, replicaState
<1>4. CASE EditMetricAccess
  BY <1>t, <1>4 DEF EditMetricAccess, replicaState
<1>5. CASE UNCHANGED vars
  BY <1>t, <1>5 DEF vars, replicaState
<1> QED
  BY <1>t, <1>1, <1>2, <1>3, <1>4, <1>5 DEF Next

\* What the replicas rely on: leaders hold the Lease, candidates are fresh, and
\* a loop returns once.
THEOREM ElectionInvariant == Spec => []ElectionInv
<1>1. Init => ElectionInv
  BY TypeInit DEF Init, ElectionInv, LeaderHolds, CandidateIsFresh, ClosedByReturn
<1>2. ElectionInv /\ [Next]_vars => ElectionInv'
  BY ElectionNext
<1> QED
  BY <1>1, <1>2, PTL DEF Spec

(***************************************************************************)
(* close(c.doneCh) never panics, however leases are lost.                  *)
(***************************************************************************)
THEOREM LoopReturnsOnce == Spec => []DoneChClosedOnce
<1>1. ElectionInv => DoneChClosedOnce
  BY DEF ElectionInv, ClosedByReturn, DoneChClosedOnce
<1> QED
  BY <1>1, ElectionInvariant, PTL

(***************************************************************************)
(* Among any number of replicas, a tenant's data has two writers only      *)
(* while one of them is an ex-leader.                                      *)
(***************************************************************************)
THEOREM OneWriterButForExLeaders == Spec => []WritersOverlapOnlyWithExLeader
<1>1. ElectionInv => WritersOverlapOnlyWithExLeader
  <2> SUFFICES ASSUME ElectionInv, NEW r \in Replicas, NEW s \in Replicas,
                      r # s, serving[r] # {}, serving[s] # {}
               PROVE  \E q \in {r, s} : election[q] \in {"releasing", "returned", "stopping"}
    BY DEF WritersOverlapOnlyWithExLeader
  <2>1. election[r] # "candidate" /\ election[s] # "candidate"
    BY DEF ElectionInv, CandidateIsFresh
  <2>2. ~(election[r] = "leading" /\ election[s] = "leading")
    BY DEF ElectionInv, LeaderHolds
  <2>3. election[r] \in Elections /\ election[s] \in Elections
    BY DEF ElectionInv, TypeOK
  <2> QED
    BY <2>1, <2>2, <2>3 DEF Elections
<1> QED
  BY <1>1, ElectionInvariant, PTL

-----------------------------------------------------------------------------
(* Reconciliation, replica by replica.                                     *)

\* A step that leaves what Reconciliation sees of a replica alone.
LEMMA ReplicaUntouched ==
    ASSUME NEW q \in Replicas,
           enabled' = enabled,
           /\ serving'[q] = serving[q] /\ listed'[q] = listed[q]
           /\ ControllerPhase(q)' = ControllerPhase(q)
           /\ controller'[q] \in {"loading", "ticking"}
                  <=> controller[q] \in {"loading", "ticking"}
           /\ ToldToEnd(q)' = ToldToEnd(q)
    PROVE  UNCHANGED Controlled(q)!vars
BY DEF Controlled!vars, Serves, ListUnderWay

\* With no keys nothing is served and no List is under way.
LEMMA NothingServed == Serves({}) = [k \in Keys |-> {}]
BY DEF Serves

\* A step of RunOrDie: at most it cancels the leader's context.
LEMMA ElectionReconciles ==
    ASSUME ElectionInv, NEW q \in Replicas, NEW r \in Replicas, Election(r)
    PROVE  [Controlled(q)!Next]_(Controlled(q)!vars)
<1> USE DEF ElectionInv, TypeOK
<1>1. CASE Acquire(r)
  <2>1. /\ enabled' = enabled /\ serving'[q] = serving[q] /\ listed'[q] = listed[q]
        /\ ControllerPhase(q)' = ControllerPhase(q)
        /\ controller'[q] \in {"loading", "ticking"}
               <=> controller[q] \in {"loading", "ticking"}
        /\ ToldToEnd(q)' = ToldToEnd(q)
    BY <1>1 DEF Acquire, CandidateIsFresh, ControllerPhase, ToldToEnd
  <2> QED
    BY <2>1, ReplicaUntouched
<1>2. CASE RenewalFails(r)
  BY <1>2, ReplicaUntouched DEF RenewalFails, ControllerPhase, ToldToEnd
<1>3. CASE Release(r)
  BY <1>3, ReplicaUntouched DEF Release, replicaState, ControllerPhase, ToldToEnd
<1>4. CASE RunOrDieReturns(r) /\ q # r
  BY <1>4, ReplicaUntouched DEF RunOrDieReturns, ControllerPhase, ToldToEnd
<1>5. CASE RunOrDieReturns(r) /\ q = r
  <2>1. /\ ToldToEnd(q)' = ToldToEnd(q) \cup {"cancelled"}
        /\ UNCHANGED <<enabled, serving, listed, controller>>
    BY <1>5 DEF RunOrDieReturns, ToldToEnd
  <2>2. Controlled(q)!Tell
    BY <2>1 DEF Controlled!Tell, Serves, ListUnderWay, ControllerPhase
  <2> QED
    BY <2>2 DEF Controlled!Next
<1> QED
  BY <1>1, <1>2, <1>3, <1>4, <1>5 DEF Election

\* A step of the controller of another replica.
LEMMA OtherRuns ==
    ASSUME ElectionInv, NEW q \in Replicas, NEW r \in Replicas \ {q}, Run(r)
    PROVE  UNCHANGED Controlled(q)!vars
<1>1. /\ enabled' = enabled /\ election' = election
      /\ serving'[q] = serving[q] /\ listed'[q] = listed[q] /\ controller'[q] = controller[q]
  BY DEF ElectionInv, TypeOK, Run, StartController, Load, TickList, Reconcile, LoopReturns,
         ControllerStep
<1> QED
  BY <1>1, ReplicaUntouched DEF ControllerPhase, ToldToEnd

\* A step of the replica's own controller.
LEMMA RunReconciles ==
    ASSUME ElectionInv, NEW q \in Replicas, Run(q)
    PROVE  [Controlled(q)!Next]_(Controlled(q)!vars)
<1> USE DEF ElectionInv, TypeOK
<1>1. CASE StartController(q)
  <2>1. /\ UNCHANGED <<enabled, serving, election>>
        /\ ControllerPhase(q) = "new" /\ ListUnderWay(q) = {}
    BY <1>1 DEF StartController, ControllerStep, ControllerPhase, ListUnderWay
  <2>2. \/ /\ ToldToEnd(q) = {} /\ ControllerPhase(q)' = "loading"
           /\ ListUnderWay(q)' = enabled
        \/ ControllerPhase(q)' = "waiting" /\ ListUnderWay(q)' = {}
    BY <1>1 DEF StartController, ControllerStep, ControllerPhase, ListUnderWay, ToldToEnd,
                LeaderContextLive
  <2>3. ToldToEnd(q)' = ToldToEnd(q)
    BY <2>1 DEF ToldToEnd
  <2>4. Controlled(q)!List("new", "loading") \/ Controlled(q)!StartWithoutList
    BY <2>1, <2>2, <2>3 DEF Controlled!List, Controlled!StartWithoutList, Serves
  <2> QED
    BY <2>4 DEF Controlled!Next
<1>2. CASE Load(q) \/ Reconcile(q)
  <2>1. /\ UNCHANGED <<enabled, election>> /\ serving'[q] = ListUnderWay(q)
        /\ ControllerPhase(q)' = "waiting" /\ ListUnderWay(q)' = {}
        /\ ControllerPhase(q) = IF Load(q) THEN "loading" ELSE "ticking"
    BY <1>2 DEF Load, Reconcile, ControllerStep, ControllerPhase, ListUnderWay
  <2>2. ToldToEnd(q)' = ToldToEnd(q)
    BY <2>1 DEF ToldToEnd
  <2>3. Controlled(q)!Serve("loading") \/ Controlled(q)!Serve("ticking")
    BY <2>1, <2>2, NothingServed DEF Controlled!Serve, Controlled!Unserved, Serves
  <2> QED
    BY <2>3 DEF Controlled!Next
<1>3. CASE TickList(q)
  <2>1. /\ UNCHANGED <<enabled, serving, election>> /\ ToldToEnd(q) = {}
        /\ ControllerPhase(q) = "waiting" /\ ControllerPhase(q)' = "ticking"
        /\ ListUnderWay(q)' = enabled
    BY <1>3 DEF TickList, ControllerStep, ControllerPhase, ListUnderWay, ToldToEnd,
                LeaderContextLive
  <2>2. ToldToEnd(q)' = ToldToEnd(q)
    BY <2>1 DEF ToldToEnd
  <2>3. Controlled(q)!List("waiting", "ticking")
    BY <2>1, <2>2 DEF Controlled!List, Serves
  <2> QED
    BY <2>3 DEF Controlled!Next
<1>4. CASE LoopReturns(q)
  <2>1. /\ UNCHANGED <<enabled, serving, election>> /\ ToldToEnd(q) # {}
        /\ ControllerPhase(q) = "waiting" /\ ControllerPhase(q)' = "returned"
        /\ ListUnderWay(q) = {} /\ ListUnderWay(q)' = {}
    BY <1>4 DEF LoopReturns, ControllerPhase, ListUnderWay, ToldToEnd, LeaderContextLive,
                CandidateIsFresh, Elections
  <2>2. ToldToEnd(q)' = ToldToEnd(q)
    BY <2>1 DEF ToldToEnd
  <2>3. Controlled(q)!Return
    BY <2>1, <2>2 DEF Controlled!Return, Serves
  <2> QED
    BY <2>3 DEF Controlled!Next
<1> QED
  BY <1>1, <1>2, <1>3, <1>4 DEF Run

\* The end of a process, or its stopping.
LEMMA ProcessReconciles ==
    ASSUME ElectionInv, NEW q \in Replicas, NEW r \in Replicas, Process(r)
    PROVE  [Controlled(q)!Next]_(Controlled(q)!vars)
<1> USE DEF ElectionInv, TypeOK
<1>1. CASE q # r
  <2>1. /\ enabled' = enabled /\ election'[q] = election[q]
        /\ serving'[q] = serving[q] /\ listed'[q] = listed[q] /\ controller'[q] = controller[q]
    BY <1>1 DEF Process, Shutdown, Exit, Crash, Restarted
  <2> QED
    BY <2>1, ReplicaUntouched DEF ControllerPhase, ToldToEnd
<1>2. CASE q = r /\ Shutdown(r)
  <2>1. /\ ToldToEnd(q)' = ToldToEnd(q) \cup {"cancelled"}
        /\ UNCHANGED <<enabled, serving, listed, controller>>
    BY <1>2 DEF Shutdown, ToldToEnd
  <2>2. Controlled(q)!Tell
    BY <2>1 DEF Controlled!Tell, Serves, ListUnderWay, ControllerPhase
  <2> QED
    BY <2>2 DEF Controlled!Next
<1>3. CASE q = r /\ (Exit(r) \/ Crash(r))
  <2>1. /\ enabled' = enabled /\ serving'[q] = {} /\ ListUnderWay(q)' = {}
        /\ ControllerPhase(q)' = "new" /\ ToldToEnd(q)' = {}
    BY <1>3 DEF Exit, Crash, Restarted, ListUnderWay, ControllerPhase, ToldToEnd
  <2>2. Controlled(q)!ProcessEnds
    BY <2>1, NothingServed DEF Controlled!ProcessEnds, Controlled!Unserved, Serves
  <2> QED
    BY <2>2 DEF Controlled!Next
<1> QED
  BY <1>1, <1>2, <1>3 DEF Process

\* Every step of the replicas is, for each of them, one of Reconciliation's or
\* leaves it alone.
LEMMA ReconciliationNext ==
    ASSUME ElectionInv, NEW q \in Replicas, [Next]_vars
    PROVE  [Controlled(q)!Next]_(Controlled(q)!vars)
<1>1. ASSUME NEW r \in Replicas, Election(r) \/ Run(r) \/ Process(r)
      PROVE  [Controlled(q)!Next]_(Controlled(q)!vars)
  BY <1>1, ElectionReconciles, RunReconciles, OtherRuns, ProcessReconciles
<1>2. CASE LeaseExpires
  BY <1>2, ReplicaUntouched DEF LeaseExpires, replicaState, ControllerPhase, ToldToEnd
<1>3. CASE EditMetricAccess
  <2>1. UNCHANGED replicaState
    BY <1>3 DEF EditMetricAccess
  <2>2. Controlled(q)!Edit \/ UNCHANGED Controlled(q)!vars
    BY <2>1 DEF Controlled!Edit, Controlled!vars, Serves, ListUnderWay, ControllerPhase,
                ToldToEnd, replicaState
  <2> QED
    BY <2>2 DEF Controlled!Next
<1>4. CASE UNCHANGED vars
  BY <1>4, ReplicaUntouched DEF vars, replicaState, ControllerPhase, ToldToEnd
<1> QED
  BY <1>1, <1>2, <1>3, <1>4 DEF Next

(***************************************************************************)
(* Each of any number of replicas implements Reconciliation, whoever       *)
(* leads: what it serves is what one of its Lists returned, and it lists   *)
(* nothing more once its context is cancelled.                             *)
(***************************************************************************)
THEOREM ReplicasReconcile == Spec => RefinesReconciliation
<1>1. Init => \A r \in Replicas : Controlled(r)!Init
  BY NothingServed
     DEF Init, Controlled!Init, Controlled!Unserved, ListUnderWay, ControllerPhase, ToldToEnd
<1>2. ElectionInv /\ [Next]_vars =>
         [\A r \in Replicas : [Controlled(r)!Next]_(Controlled(r)!vars)]_vars
  BY ReconciliationNext
<1> QED
  BY <1>1, <1>2, ElectionInvariant, PTL DEF Spec, RefinesReconciliation

-----------------------------------------------------------------------------
(* A leader that keeps turning serves what is enabled.                     *)

\* The loop runs, and no List is under way that is older than the last edit.
FreshLoop(r) ==
    /\ controller[r] \in {"waiting", "ticking"}
    /\ controller[r] = "ticking" => listed[r] = enabled

SettledLoop(r) == FreshLoop(r) /\ serving[r] = enabled

\* A step between two states in which r leads, and no edit.
LeaderStep(r) ==
    /\ ElectionInv
    /\ election[r] = "leading" /\ election'[r] = "leading"
    /\ enabled' = enabled
    /\ Next

\* A fresh list stays fresh, and is reconciled; then what is served stays.
LEMMA LeaderStepSettles ==
    ASSUME NEW r \in Replicas, [LeaderStep(r)]_vars
    PROVE  /\ FreshLoop(r) => FreshLoop(r)'
           /\ FreshLoop(r) /\ controller[r] = "ticking" =>
                 controller'[r] = "ticking" \/ SettledLoop(r)'
           /\ SettledLoop(r) => SettledLoop(r)'
<1> USE DEF FreshLoop, SettledLoop
<1>1. CASE UNCHANGED vars
  BY <1>1 DEF vars, replicaState
<1>2. ASSUME LeaderStep(r),
             UNCHANGED <<controller[r], listed[r], serving[r]>>
      PROVE  /\ FreshLoop(r) => FreshLoop(r)'
             /\ FreshLoop(r) /\ controller[r] = "ticking" =>
                   controller'[r] = "ticking" \/ SettledLoop(r)'
             /\ SettledLoop(r) => SettledLoop(r)'
  BY <1>2 DEF LeaderStep
<1>3. ASSUME LeaderStep(r), NEW q \in Replicas, Election(q)
      PROVE  controller[r] \in {"waiting", "ticking"} =>
                UNCHANGED <<controller[r], listed[r], serving[r]>>
  BY <1>3 DEF LeaderStep, ElectionInv, TypeOK, Election, Acquire, RenewalFails, Release,
              RunOrDieReturns, replicaState
<1>4. ASSUME LeaderStep(r), NEW q \in Replicas \ {r}, Run(q) \/ Process(q)
      PROVE  UNCHANGED <<controller[r], listed[r], serving[r]>>
  BY <1>4 DEF LeaderStep, ElectionInv, TypeOK, Run, StartController, Load, TickList, Reconcile,
              LoopReturns, ControllerStep, Process, Shutdown, Exit, Crash, Restarted
<1>5. ASSUME LeaderStep(r), Process(r)
      PROVE  FALSE
  BY <1>5 DEF LeaderStep, ElectionInv, TypeOK, Process, Shutdown, Exit, Crash, Restarted
<1>6. ASSUME LeaderStep(r), Run(r), FreshLoop(r)
      PROVE  \/ /\ controller'[r] = "ticking" /\ listed'[r] = enabled'
                /\ serving'[r] = serving[r]
             \/ /\ controller[r] = "ticking"
                /\ controller'[r] = "waiting" /\ serving'[r] = enabled'
  BY <1>6 DEF LeaderStep, ElectionInv, TypeOK, Run, StartController, Load, TickList, Reconcile,
              LoopReturns, ControllerStep, LeaderContextLive
<1>7. ASSUME LeaderStep(r), LeaseExpires \/ EditMetricAccess
      PROVE  UNCHANGED <<controller[r], listed[r], serving[r]>>
  BY <1>7 DEF LeaseExpires, EditMetricAccess, replicaState
<1>8. CASE LeaderStep(r) /\ Run(r)
  BY <1>6, <1>8 DEF LeaderStep
<1> QED
  BY <1>1, <1>2, <1>3, <1>4, <1>5, <1>7, <1>8 DEF LeaderStep, Next

\* A replica that leads for good and keeps listing and reconciling comes to
\* serve what is enabled, once that stays.
LEMMA LeaderConverges ==
    ASSUME NEW r \in Replicas
    PROVE  /\ Spec
           /\ <>[](election[r] = "leading")
           /\ []<>(controller[r] = "waiting") /\ []<>(controller[r] = "ticking")
           /\ <>[][FALSE]_enabled
           => <>[](election[r] = "leading" /\ serving[r] = enabled)
<1>1. /\ ElectionInv /\ [Next]_vars /\ [FALSE]_enabled
      /\ election[r] = "leading" /\ (election[r] = "leading")'
      => [LeaderStep(r)]_vars
  BY DEF LeaderStep
<1>2. /\ controller[r] = "waiting" => FreshLoop(r)
      /\ ~(controller[r] = "waiting" /\ controller[r] = "ticking")
      /\ SettledLoop(r) => serving[r] = enabled
  BY DEF FreshLoop, SettledLoop
<1>3. /\ FreshLoop(r) /\ [LeaderStep(r)]_vars => FreshLoop(r)'
      /\ FreshLoop(r) /\ controller[r] = "ticking" /\ [LeaderStep(r)]_vars =>
            (controller[r] = "ticking")' \/ SettledLoop(r)'
      /\ SettledLoop(r) /\ [LeaderStep(r)]_vars => SettledLoop(r)'
  BY LeaderStepSettles
<1>4. Spec /\ <>[](election[r] = "leading") /\ <>[][FALSE]_enabled => <>[][LeaderStep(r)]_vars
  BY <1>1, ElectionInvariant, PTL DEF Spec
<1>5. <>[][LeaderStep(r)]_vars /\ []<>(controller[r] = "waiting")
         => <>([][LeaderStep(r)]_vars /\ []FreshLoop(r))
  BY <1>2, <1>3, PTL
<1>6. /\ <>([][LeaderStep(r)]_vars /\ []FreshLoop(r))
      /\ []<>(controller[r] = "waiting") /\ []<>(controller[r] = "ticking")
      => <>([][LeaderStep(r)]_vars /\ SettledLoop(r))
  BY <1>2, <1>3, PTL
<1>7. <>([][LeaderStep(r)]_vars /\ SettledLoop(r)) => <>[]SettledLoop(r)
  BY <1>3, PTL
<1> QED
  BY <1>2, <1>4, <1>5, <1>6, <1>7, PTL

\* Some replica leads and serves what is enabled.
ALeaderServes == \E r \in Replicas : election[r] = "leading" /\ serving[r] = enabled

(***************************************************************************)
(* Among any number of replicas: where the leadership settles and the      *)
(* leader's loop turns, the tenants served by the leader come to be those  *)
(* enabled, once these stay as they are.  LeaderServesEnabled needs        *)
(* nothing else of the scheduler.                                          *)
(***************************************************************************)
THEOREM SettledLeaderServes ==
    Spec /\ LeaderSettles /\ LeaderLoopTurns /\ <>[][FALSE]_enabled => LeaderServesEnabled
<1> DEFINE Calm == Spec /\ <>[][FALSE]_enabled
           Leads(r) == <>[](election[r] = "leading")
           Turns(r) == []<>(controller[r] = "waiting") /\ []<>(controller[r] = "ticking")
           Served == <>[]ALeaderServes
<1>1. ASSUME NEW r \in Replicas PROVE Calm /\ Leads(r) /\ Turns(r) => Served
  <2>1. election[r] = "leading" /\ serving[r] = enabled => ALeaderServes
    BY DEF ALeaderServes
  <2> QED
    BY <2>1, LeaderConverges, PTL
<1>2. LeaderSettles /\ LeaderLoopTurns =>
         \/ \E r \in Replicas : Leads(r) /\ Turns(r)
         \/ <>[](\A r \in Replicas : election[r] = "returned")
  BY DEF LeaderSettles, LeaderLoopTurns
<1>3. Served \/ <>[](\A r \in Replicas : election[r] = "returned") => LeaderServesEnabled
  BY DEF LeaderServesEnabled, ALeaderServes
<1> HIDE DEF Calm, Leads, Turns, Served
<1>4. Calm /\ LeaderSettles /\ LeaderLoopTurns => LeaderServesEnabled
  BY <1>1, <1>2, <1>3
<1> QED
  BY <1>4 DEF Calm
=============================================================================
