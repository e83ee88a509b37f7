------------------------------ MODULE MCTargets ------------------------------
(* Small instances of Targets for TLC: two resource types in two           *)
(* namespaces, two backends.                                               *)
EXTENDS Targets

CONSTANTS Pod, Endpoints, n1, n2, a, b

\* The pod's backend can fail.
FlakyPod == {a}

In(t, ns) == [type |-> t, namespace |-> ns]

TypesInNamespaces == <<In(Pod, n1), In(Pod, n2), In(Endpoints, n1), In(Endpoints, n2)>>

\* A pod comes and goes in one namespace, another is in the other.  Endpoints
\* have no annotation, yet a List of theirs that fails must not lose the pods.
Distinct ==
    In(Pod, n1) :> {<<>>, <<a>>} @@ In(Pod, n2) :> {<<b>>}
 @@ In(Endpoints, n1) :> {<<>>} @@ In(Endpoints, n2) :> {<<>>}
=============================================================================
