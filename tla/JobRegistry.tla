----------------------------- MODULE JobRegistry -----------------------------
(***************************************************************************)
(* What the remote-write controller promises about its collection jobs,    *)
(* whatever makes it start, replace or stop one (a reconcile, a self-heal  *)
(* recreate, a shutdown).  A MetricAccess key is owned by at most one      *)
(* collector goroutine; a collector that loses its key is retiring: it may *)
(* still be inside a collection cycle, it never owns a key again, and it   *)
(* eventually returns.  A collector is never dropped: it is an owner or it *)
(* is retiring until it returns or the process ends.                       *)
(***************************************************************************)
EXTENDS Functions

CONSTANTS
    Keys,       \* namespace/name of the MetricAccess resources
    Ids,        \* collector goroutines (one RemoteWriteJob struct each)
    None        \* no collector

VARIABLES
    owner,      \* key -> the collector that serves it, or None
    retiring    \* collectors told to stop that have not returned yet

vars == <<owner, retiring>>

-----------------------------------------------------------------------------
Owners == {i \in Ids : \E k \in Keys : owner[k] = i}

Init ==
    /\ owner = [k \in Keys |-> None]
    /\ retiring = {}

(***************************************************************************)
(* One critical section of the controller: any number of keys lose their   *)
(* collector, any number get a fresh one, and whoever lost its key is now  *)
(* retiring.                                                               *)
(***************************************************************************)
Reassign ==
    /\ owner' \in [Keys -> Ids \cup {None}]
    /\ \A k \in Keys :
          owner'[k] # owner[k] => owner'[k] \notin Owners \cup retiring
    /\ \A k1, k2 \in Keys :
          owner'[k1] = owner'[k2] /\ owner'[k1] # None => k1 = k2
    /\ retiring' = retiring \cup {i \in Owners : \A k \in Keys : owner'[k] # i}

\* A retiring collector returns.
Finish(i) ==
    /\ i \in retiring
    /\ retiring' = retiring \ {i}
    /\ UNCHANGED owner

\* The process ends, and every goroutine with it.
ProcessEnds ==
    /\ owner' = [k \in Keys |-> None]
    /\ retiring' = {}

Next ==
    \/ Reassign
    \/ \E i \in Ids : Finish(i)
    \/ ProcessEnds

Spec == Init /\ [][Next]_vars

LiveSpec == Spec /\ \A i \in Ids : WF_vars(Finish(i))
=============================================================================
