------------------------------- MODULE Delivery -------------------------------
(***************************************************************************)
(* One collection cycle after another of one remote-write job:             *)
(* collectMetrics queries every pattern at every healthy target            *)
(* (src/internal/remote_write/controller.go), deduplicateMetrics keeps one *)
(* sample a series, sendMetrics splits the samples into batches, and Send  *)
(* writes every batch to every replica of the tenant's Prometheus, with    *)
(* retries (src/internal/remote_write/collector.go).                       *)
(*                                                                         *)
(* The targets scrape at their own times, some series all of them           *)
(* (cluster-wide), some only one (node-sharded).  The series are counters. *)
(***************************************************************************)
EXTENDS Naturals, FiniteSetsExt, SequencesExt

CONSTANTS
    Targets,        \* the discovered targets, in their order
    Unreliable,     \* those that can be unhealthy or fail a query
    Patterns,       \* Spec.Metrics, in its order
    Strategies,     \* pattern -> the series each query tried for it selects, in turn
    Series,         \* the collected series
    MaxReading,     \* target -> series -> bound on its counter, 0 if not scraped there
    Relabel,        \* series -> the series written for it, or Dropped
    Dropped,
    Replicas,       \* the URLs of buildPrometheusURLs
    BatchSize,
    Tries           \* attempts of sendRemoteWrite

Written == {Relabel[s] : s \in ToSet(Series)} \ {Dropped}

ASSUME DeliveryAssumption ==
    /\ Targets \in Seq(ToSet(Targets)) /\ Patterns \in Seq(ToSet(Patterns))
    /\ Series \in Seq(ToSet(Series))
    /\ Unreliable \subseteq ToSet(Targets)
    /\ MaxReading \in [ToSet(Targets) -> [ToSet(Series) -> Nat]]
    /\ \A p \in ToSet(Patterns) :
          /\ Strategies[p] # <<>>
          /\ \A k \in DOMAIN Strategies[p] : Strategies[p][k] \subseteq ToSet(Series)
    /\ BatchSize \in Nat \ {0} /\ Tries \in Nat \ {0}

VARIABLES
    reading,    \* target -> series -> the counter as last scraped, 0 if never
    received,   \* replica -> written series -> the last value it received, 0 if none
    phase,      \* "idle", "querying" or "sending"
    asked,      \* the queries to make: a target, a pattern and the strategy to try
    missed,     \* targets that were unhealthy in this cycle, or failed one of its queries
    collected,  \* the samples so far
    stored,     \* the samples of the cycle, one a series
    batch,      \* the number of the batch being sent
    attempts,   \* replica -> attempts made for this batch
    acked,      \* replicas that acknowledged it
    errs,       \* the batch and replica pairs given up in this cycle
    outcome     \* of the last cycle

vars == <<reading, received, phase, asked, missed, collected, stored,
          batch, attempts, acked, errs, outcome>>

sending == <<batch, attempts, acked, errs>>

Samples == [series : ToSet(Series), value : Nat \ {0}]
AllQueries == [target : ToSet(Targets), pattern : ToSet(Patterns), strategy : Nat \ {0}]

\* splitIntoBatches: batch b of the samples.
Batches(samples) == (Len(samples) + BatchSize - 1) \div BatchSize

Batch(samples, b) == SubSeq(samples, (b - 1) * BatchSize + 1, Min({b * BatchSize, Len(samples)}))

\* No two of the samples belong to the same series.
OneEach(samples) ==
    \A i, j \in DOMAIN samples : samples[i].series = samples[j].series => i = j

(***************************************************************************)
(* Types; a cycle stores a series once; an unreported replica is settled.  *)
(***************************************************************************)
TypeOK ==
    /\ reading \in [ToSet(Targets) -> [ToSet(Series) -> Nat]]
    /\ received \in [Replicas -> [Written -> Nat]]
    /\ phase \in {"idle", "querying", "sending"}
    /\ asked \in Seq(AllQueries)
    /\ missed \subseteq Unreliable
    /\ collected \in Seq(Samples)
    /\ stored \in Seq(Samples)
    /\ OneEach(stored)
    /\ batch \in Nat \ {0}
    /\ attempts \in [Replicas -> 0 .. Tries]
    /\ acked \subseteq Replicas
    /\ errs \subseteq (Nat \ {0}) \X Replicas
    /\ outcome \in {"none", "no targets", "success", "failure", "clean-empty"}

Init ==
    /\ reading = [t \in ToSet(Targets) |-> [s \in ToSet(Series) |-> 0]]
    /\ received = [r \in Replicas |-> [w \in Written |-> 0]]
    /\ phase = "idle"
    /\ asked = <<>>
    /\ missed = {}
    /\ collected = <<>>
    /\ stored = <<>>
    /\ batch = 1
    /\ attempts = [r \in Replicas |-> 0]
    /\ acked = {}
    /\ errs = {}
    /\ outcome = "none"

-----------------------------------------------------------------------------
(* Collecting.                                                             *)

\* The members of set in seq, in their order: SelectSeq as a recursive function.
Select(seq, set) ==
    LET select[i \in 0 .. Len(seq)] ==
            IF i = 0 THEN <<>>
            ELSE IF seq[i] \in set THEN Append(select[i - 1], seq[i]) ELSE select[i - 1]
    IN  select[Len(seq)]

Queries(healthy) ==
    FlattenSeq([t \in DOMAIN healthy |->
        [p \in DOMAIN Patterns |-> [target |-> healthy[t], pattern |-> Patterns[p], strategy |-> 1]]])

\* A tick: collectMetrics on the targets that are healthy now.
StartCycle ==
    /\ phase = "idle"
    /\ missed' \in SUBSET Unreliable
    /\ LET healthy == Select(Targets, ToSet(Targets) \ missed')
       IN  IF healthy = <<>>
           THEN /\ stored' = <<>>
                /\ outcome' = "no targets"
                /\ UNCHANGED <<phase, asked>>
           ELSE /\ phase' = "querying"
                /\ asked' = Queries(healthy)
                /\ UNCHANGED <<stored, outcome>>
    /\ UNCHANGED <<reading, received, collected, sending>>

\* The next strategy of a query that found nothing, if there is one.
TryNext(q) ==
    IF q.strategy < Len(Strategies[q.pattern])
    THEN <<[q EXCEPT !.strategy = @ + 1]>>
    ELSE <<>>

\* What queryPromQL returns: the readings of the series the query selects.
Found(q) ==
    LET selected == Select(Series, {s \in Strategies[q.pattern][q.strategy] : reading[q.target][s] > 0})
    IN  [i \in DOMAIN selected |->
            [series |-> selected[i], value |-> reading[q.target][selected[i]]]]

\* A query is answered; if it found nothing, the next strategy is tried.
QueryAnswered ==
    /\ phase = "querying" /\ asked # <<>>
    /\ LET q == Head(asked)
       IN  /\ collected' = collected \o Found(q)
           /\ asked' = (IF Found(q) = <<>> THEN TryNext(q) ELSE <<>>) \o Tail(asked)
    /\ UNCHANGED <<reading, received, phase, missed, stored, sending, outcome>>

\* queryPromQL, failed: it is logged, and the pattern is skipped at this target if
\* the query was the first one for it.
QueryFails ==
    /\ phase = "querying" /\ asked # <<>>
    /\ LET q == Head(asked)
       IN  /\ q.target \in Unreliable
           /\ missed' = missed \cup {q.target}
           /\ asked' = (IF q.strategy = 1 THEN <<>> ELSE TryNext(q)) \o Tail(asked)
    /\ UNCHANGED <<reading, received, phase, collected, stored, sending, outcome>>

-----------------------------------------------------------------------------
(* Storing.                                                                *)

SeriesOf(samples) == {samples[i].series : i \in DOMAIN samples}

\* Mutant: the sample with the most recent timestamp, that of the last query.
AlwaysReplaces(m, n) == TRUE

\* Whether sample m takes the place of sample n of the same series.
Replaces(m, n) == m.value > n.value

\* Mutant: duplicates stay.
KeepAll(samples) == samples

\* A sample of a series not seen yet goes to the end; any other one may replace it.
AddSample(result, m) ==
    IF m.series \notin SeriesOf(result)
    THEN Append(result, m)
    ELSE [i \in DOMAIN result |->
             IF result[i].series = m.series /\ Replaces(m, result[i]) THEN m ELSE result[i]]

\* The highest sample of each series, in the place of its first one.
DeduplicateMetrics(samples) ==
    LET result[i \in 0 .. Len(samples)] ==
            IF i = 0 THEN <<>> ELSE AddSample(result[i - 1], samples[i])
    IN  result[Len(samples)]

\* The cycle's samples are stored; without any, it ends clean-empty.  (No target
\* returns an error: collectFromTarget skips the queries that fail.)
Store ==
    /\ phase = "querying" /\ asked = <<>>
    /\ stored' = DeduplicateMetrics(collected)
    /\ collected' = <<>>
    /\ errs' = {}
    /\ IF stored' = <<>>
       THEN phase' = "idle" /\ outcome' = "clean-empty"
       ELSE phase' = "sending" /\ UNCHANGED outcome
    /\ batch' = 1
    /\ UNCHANGED <<reading, received, asked, missed, attempts, acked>>

-----------------------------------------------------------------------------
(* Sending: one goroutine a replica, the batches one after the other.      *)

\* What the samples bring for a written series: buildTimeseries after
\* applyMetricRelabelings.  The rules can make several series one (a labeldrop).
Brought(samples, w) == {m.value : m \in {n \in ToSet(samples) : Relabel[n.series] = w}}

\* What a replica can have once it received these samples; of several for one
\* written series, which it keeps is its own affair.
Receives(values, samples) ==
    LET kept(w) == IF Brought(samples, w) = {} THEN {values[w]} ELSE Brought(samples, w)
    IN  {v \in [Written -> UNION {kept(w) : w \in Written}] : \A w \in Written : v[w] \in kept(w)}

Arrives(r) ==
    \E values \in Receives(received[r], Batch(stored, batch)) :
        received' = [received EXCEPT ![r] = values]

\* sendRemoteWrite: an attempt that is acknowledged ...
AttemptSucceeds(r) ==
    /\ phase = "sending" /\ r \notin acked /\ attempts[r] < Tries
    /\ attempts' = [attempts EXCEPT ![r] = @ + 1]
    /\ acked' = acked \cup {r}
    /\ Arrives(r)
    /\ UNCHANGED <<reading, phase, asked, missed, collected, stored, batch, errs, outcome>>

\* ... and one that is not, although it may have arrived.  (An attempt after the
\* 30 s of the batch have passed fails too, before it is sent.)
AttemptFails(r) ==
    /\ phase = "sending" /\ r \notin acked /\ attempts[r] < Tries
    /\ attempts' = [attempts EXCEPT ![r] = @ + 1]
    /\ Arrives(r) \/ UNCHANGED received
    /\ UNCHANGED <<reading, phase, asked, missed, collected, stored, batch, acked, errs, outcome>>

Settled == \A r \in Replicas : r \in acked \/ attempts[r] = Tries

GaveUp == {<<batch, r>> : r \in Replicas \ acked}

\* Mutant: the error of the last batch alone.
LastBatchFailed == GaveUp # {}

\* The error of sendMetrics.
SendFailed == errs \cup GaveUp # {}

\* Mutant: a batch that failed is the last one.
StopAtFailure == batch = Batches(stored) \/ GaveUp # {}

LastBatch == batch = Batches(stored)

\* Send has waited for every replica; the batches that remain are sent whether
\* this one failed or not.
BatchEnds ==
    /\ phase = "sending" /\ Settled
    /\ errs' = errs \cup GaveUp
    /\ attempts' = [r \in Replicas |-> 0]
    /\ acked' = {}
    /\ IF LastBatch
       THEN /\ phase' = "idle"
            /\ outcome' = IF SendFailed THEN "failure" ELSE "success"
            /\ UNCHANGED batch
       ELSE /\ batch' = batch + 1
            /\ UNCHANGED <<phase, outcome>>
    /\ UNCHANGED <<reading, received, asked, missed, collected, stored>>

-----------------------------------------------------------------------------
\* A target scrapes a series that has grown.
Scrape(t, s) ==
    /\ reading[t][s] < MaxReading[t][s]
    /\ reading' = [reading EXCEPT ![t][s] = @ + 1]
    /\ UNCHANGED <<received, phase, asked, missed, collected, stored, sending, outcome>>

Next ==
    \/ StartCycle \/ QueryAnswered \/ QueryFails \/ Store
    \/ \E r \in Replicas : AttemptSucceeds(r) \/ AttemptFails(r)
    \/ BatchEnds
    \/ \E t \in ToSet(Targets), s \in ToSet(Series) : Scrape(t, s)

Spec == Init /\ [][Next]_vars

-----------------------------------------------------------------------------
\* Whether a target that scrapes the series always contributes it: some pattern
\* selects it at once, or no other target has it.  (A fallback ends at a target as
\* soon as an earlier strategy finds another series there.)
Steady(s) ==
    \/ \E p \in ToSet(Patterns) : s \in Strategies[p][1]
    \/ \A t, u \in ToSet(Targets) : MaxReading[t][s] > 0 /\ MaxReading[u][s] > 0 => t = u

\* Whether the rules neither drop the series nor make it one with another.
KeptApart(s) ==
    /\ Relabel[s] # Dropped
    /\ \A t \in ToSet(Series) : Relabel[t] = Relabel[s] => t = s

(***************************************************************************)
(* The tenant's counters never run backwards: what a replica receives for  *)
(* a series is never below what it has, whichever targets lag, in whatever *)
(* order they are asked, with attempts repeated and batches lost, unless   *)
(* the cycle missed a target, the series depends on a fallback, or the     *)
(* rules make it one with another.                                         *)
(***************************************************************************)
NoCounterReset ==
    [][missed = {} =>
          \A r \in Replicas, s \in ToSet(Series) :
              Steady(s) /\ KeptApart(s)
                  => received'[r][Relabel[s]] >= received[r][Relabel[s]]]_vars

\* Whether the last the replica received for the series of the stored sample m is
\* m, or a stored sample the rules make one with it.
Has(r, m) ==
    Relabel[m.series] # Dropped
        => received[r][Relabel[m.series]] \in Brought(stored, Relabel[m.series])

(***************************************************************************)
(* A cycle counted as a success has brought every sample it stored to all  *)
(* replicas: the watchdog's baseline and the health metrics rest on it.    *)
(***************************************************************************)
SuccessIsDelivery ==
    phase = "idle" /\ outcome = "success" =>
        \A r \in Replicas, i \in DOMAIN stored : Has(r, stored[i])

\* Whether the replica has the samples of batch b.
Delivered(b, r) == \A i \in DOMAIN Batch(stored, b) : Has(r, Batch(stored, b)[i])

(***************************************************************************)
(* A failing replica or batch takes nothing from the others: at the end of *)
(* a cycle every batch not reported as failed at a replica is there.       *)
(***************************************************************************)
FailureIsContained ==
    phase = "idle" /\ outcome \in {"success", "failure"} =>
        \A b \in 1 .. Batches(stored), r \in Replicas : <<b, r>> \in errs \/ Delivered(b, r)
=============================================================================
