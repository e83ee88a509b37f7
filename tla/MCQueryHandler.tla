---------------------------- MODULE MCQueryHandler ----------------------------
(***************************************************************************)
(* Small instances of QueryHandler for TLC: two watched namespaces, the    *)
(* second with two resources.  One is edited between a metric name next to *)
(* a pattern that does not compile, and a selector next to a regular       *)
(* expression with a repetition, which is read as something else; the      *)
(* other has a label selector, and selectors that are read as something    *)
(* else: with a regular expression, a comma in a value, and a label twice. *)
(***************************************************************************)
EXTENDS QueryHandler, TLC

CONSTANTS k1, k2, n1, n2, cpu, web, db, xdot

Matcher(l, o, vs, f) == [label |-> l, op |-> o, values |-> vs, first |-> f, more |-> <<>>]
Equal(l, v) == Matcher(l, "=", {v}, v)
Names(ns) == [form |-> "names", names |-> ns, before |-> None]
Selector(ms) == [form |-> "selector", name |-> NoName, matchers |-> ms]
Invalid == [form |-> "invalid", before |-> None]
Rules(ps, ls) == [metrics |-> ps, labelSelectors |-> ls]

\* The jobs like db by job=~"db.*"; the job "web,db" by a value with a comma; no job
\* at all by two matchers; x.{3}, which takes cpu for one.
Likes == Selector(<<Matcher("job", "=~", {db}, None)>>)
Comma == Selector(<<Matcher("job", "=", {<<web, db>>}, web)>>)
Twice == Selector(<<Equal("job", db), Equal("job", web)>>)
Braces == [form |-> "names", names |-> {cpu}, before |-> xdot]

\* A metric of one job, and an aggregate over another, which has no name.
CpuOfWeb == "__name__" :> cpu @@ "job" :> web
SumOfDb == "job" :> db
TwoSeries == {CpuOfWeb, SumOfDb}
OneAnswer == {<<CpuOfWeb, SumOfDb>>}

BothInN2 == [k \in Keys |-> n2]

SpecsOf ==
    k1 :> {Rules({Names({cpu}), Invalid}, <<>>), Rules({Selector(<<Equal("job", db)>>), Braces}, <<>>)}
 @@ k2 :> {Rules({Likes, Comma, Twice}, "job" :> web)}

BothNamespaces == <<n1, n2>>
=============================================================================
