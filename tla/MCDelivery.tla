----------------------------- MODULE MCDelivery -----------------------------
(* Two targets, which can fail; two replicas; four series: one two         *)
(* patterns can select, one a relabeling rule drops, two another makes one.*)
EXTENDS Delivery, TLC

CONSTANTS t1, t2, r1, r2, cpu, mem, swap, tmp, memory, byName, bySelector

TwoTargets == <<t1, t2>>
TwoPatterns == <<bySelector, byName>>
FourSeries == <<cpu, tmp, mem, swap>>

\* A selector is queried as it is; a name first with the tenant's selectors.
QueriesOf == bySelector :> <<{cpu}>> @@ byName :> <<{tmp}, {cpu, tmp, mem, swap}>>

\* Both targets scrape cpu, t1 tmp and mem, t2 swap.
Bound ==
       t1 :> (cpu :> 2 @@ tmp :> 1 @@ mem :> 1 @@ swap :> 0)
    @@ t2 :> (cpu :> 1 @@ tmp :> 0 @@ mem :> 0 @@ swap :> 1)
Rules == cpu :> cpu @@ tmp :> Dropped @@ mem :> memory @@ swap :> memory

\* The replicas are interchangeable: no constant or definition tells them apart.
ReplicaSymmetry == Permutations({r1, r2})
=============================================================================
