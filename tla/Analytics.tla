------------------------------- MODULE Analytics -------------------------------
(* What the profiler makes of the transactions it has loaded: groups of the    *)
(* same category and route, timelines, histograms, and the conflated, filtered *)
(* and compared views of the notebook (analytics/*.py, types/route.py,         *)
(* txn/classifier.py, report/histogram.py, profiler/reportgenerator.py,        *)
(* report/__init__.py, jupyter/commands.py).                                   *)
(*                                                                             *)
(* A transaction is [id, counters]; a counter is [probe, tsc, thread, pmc,     *)
(* data]: one hardware counter stands for all of them, and its value is None   *)
(* in a sample that was recorded without it. Time is counted in cycles: the    *)
(* conversion to microseconds multiplies by a constant of the host.            *)
EXTENDS Naturals, Integers, Sequences, SequencesExt, FiniteSetsExt

CONSTANTS
  Txns,            \* the transactions a run may have loaded
  ClassifierProbe, \* the probe whose data tells the category,
  TypeMapper(_),   \* and the category for that data, or for None
  ReportName(_),   \* the user's name of a probe, or its own
  Filters,         \* txnFilter, timeline predicates: sets of ids to keep
  Routes,          \* the route points a user of the notebook may type
  Benchmarks,      \* names of the benchmarks, in the order of the repository
  MaxCurrent,      \* bound: transactions of the current run
  Stored,          \* bound: the sets of transactions a benchmark may hold
  BucketCount,     \* 35
  ChildCount,      \* 4, the children of a node of the timeline tree
  NaN,             \* the difference of counters of two threads
  None

VARIABLES
  phase,       \* "loaded", "filtered", "plotted", "profiled", "reported", "failed"
  current,     \* transactions of the current run, sorted by begin tsc
  benchmarks,  \* the same for each benchmark
  histograms,  \* category -> sequence of [title, bars]
  profiles,    \* the set of Profile objects
  conflation,  \* RouteConflation.On?
  report,      \* the profiles that the report shows
  shown        \* what the last command of the notebook displayed

vars == <<phase, current, benchmarks, histograms, profiles, conflation, report, shown>>

CurrentRun == "current run"

(* Transaction.finalize: the route is the probes in the order of the counters. *)
Route(txn) == [i \in DOMAIN txn.counters |-> txn.counters[i].probe]
BeginTsc(txn) == Head(txn.counters).tsc
ElapsedTsc(txn) == Last(txn.counters).tsc - BeginTsc(txn)

(* ProbeDataClassifier.classify: by the data of the probe's first hit.         *)
(* DefaultClassifier is the type mapper that has one category.                 *)
Classify(txn) ==
  LET hits == SelectSeq(txn.counters, LAMBDA c : c.probe = ClassifierProbe)
  IN  TypeMapper(IF hits = <<>> THEN None ELSE Head(hits).data)

(* TxnCollection: the transactions are kept in the order of their begin.       *)
Chronological(txns) == SetToSortSeq(txns, LAMBDA s, t : BeginTsc(s) < BeginTsc(t))

-----------------------------------------------------------------------------
(* conflateRoutes, backwards over the source route: the last place at which    *)
(* the destination's last unmatched point occurs. <<>> stands for None and for *)
(* the empty list: the callers cannot tell them apart.                         *)
MatchPointOnce(src, dst, i, m) ==
  IF m.probeIndex > 1 /\ dst[m.probeIndex] = src[i]
  THEN [probeIndex |-> m.probeIndex - 1, indices |-> <<i>> \o m.indices]
  ELSE m
MatchPoint(src, dst, i, m) ==
  IF m.probeIndex > 0 /\ dst[m.probeIndex] = src[i]
  THEN [probeIndex |-> m.probeIndex - 1, indices |-> <<i>> \o m.indices]
  ELSE m
ConflateRoutes(src, dst) ==
  LET m == FoldRight(LAMBDA i, acc : MatchPoint(src, dst, i, acc),
                     [i \in DOMAIN src |-> i],
                     [probeIndex |-> Len(dst), indices |-> <<>>])
  IN  IF Len(m.indices) = Len(dst) THEN m.indices ELSE <<>>

(* A dictionary of lists: the values under each key, in order.                 *)
GroupBy(seq, key) ==
  [k \in {key[x] : x \in ToSet(seq)} |-> SelectSeq(seq, LAMBDA x : key[x] = k)]

(* TxnAggregator.groupTxns, RouteAggregator and RouteConflatingAggregator.     *)
GroupTxns(txns) == GroupBy(txns, [t \in ToSet(txns) |-> Classify(t)])
LastOfEachRoute(txns) ==
  LET routes == GroupBy(txns, [t \in ToSet(txns) |-> Route(t)])
  IN  [r \in DOMAIN routes |-> <<Last(routes[r])>>]
AggregateByRoutes(txns) == GroupBy(txns, [t \in ToSet(txns) |-> Route(t)])
AggregateByConflatable(txns, routes) ==
  LET Of(route) == SelectSeq(txns, LAMBDA t : ConflateRoutes(Route(t), route) # <<>>)
  IN  [route \in {r \in routes : Of(r) # <<>>} |-> Of(route)]

(* buildTreeCollection with two classifiers: category -> route -> transactions.*)
TxnTree(txns) ==
  LET groups == GroupTxns(txns)
  IN  [c \in DOMAIN groups |-> AggregateByRoutes(groups[c])]

(* TreeCollection.getChildren: the routes of a category in the current run.    *)
GetChildren(tree, c) == IF c \in DOMAIN tree THEN DOMAIN tree[c] ELSE {}

(* The tree of one benchmark, by its own routes or by those of the current run.*)
BenchmarkTree(txns, tree, conflate) ==
  LET groups == GroupTxns(txns)
  IN  [c \in DOMAIN groups |->
        IF conflate THEN AggregateByConflatable(groups[c], GetChildren(tree, c))
                    ELSE AggregateByRoutes(groups[c])]

(* buildCompositeTreeCollection: a tree for each benchmark.                    *)
BenchmarkTrees(repo, tree, conflate) ==
  [n \in DOMAIN repo |-> BenchmarkTree(repo[n], tree, conflate)]

(* CompositeTreeCollection.getCollectionMap for the path [category, route].    *)
GetCollectionMap(trees, c, route) ==
  [name \in {n \in DOMAIN trees : c \in DOMAIN trees[n] /\ route \in DOMAIN trees[n][c]}
     |-> trees[name][c][route]]

-----------------------------------------------------------------------------
Add(a, b) == IF a = NaN \/ b = NaN THEN NaN ELSE a + b
Subtract(a, b) == IF a = NaN \/ b = NaN THEN NaN ELSE a - b
TimePoint(name, point, duration, pmc) ==
  [name |-> name, point |-> point, duration |-> duration, pmc |-> pmc]
Timeline(txn, points, endpoint) == [txn |-> txn, points |-> points, endpoint |-> endpoint]

(* buildTimelineStats, for one transaction: the counters of the route, the     *)
(* time and the counts between one and the next, and the end point. The last   *)
(* point has no duration and no counts.                                        *)
Kept(route, txn) ==
  LET at == IF Len(txn.counters) > Len(route) THEN ConflateRoutes(Route(txn), route)
                                              ELSE [i \in DOMAIN route |-> i]
  IN  [i \in DOMAIN at |-> txn.counters[at[i]]]
DeltaPmc(c, d) == IF c.thread = d.thread THEN d.pmc - c.pmc ELSE NaN
BuildTimeline(route, txn) ==
  LET kept == Kept(route, txn)
      n == Len(kept)
      Pmc(i) == DeltaPmc(kept[i], kept[i + 1])
  IN  Timeline(txn,
        [i \in 1 .. n |->
          TimePoint(ReportName(route[i]), kept[i].tsc - kept[1].tsc,
                    IF i < n THEN kept[i + 1].tsc - kept[i].tsc ELSE 0,
                    IF i < n THEN Pmc(i) ELSE None)],
        TimePoint("end", 0,
          Max({kept[i].tsc : i \in 1 .. n}) - kept[1].tsc,
          MapThenSumSet(Pmc, {i \in 1 .. n - 1 : Pmc(i) # NaN})))

(* The checks in the loop, each of which raises: the probes of the route       *)
(* against those of the counters; and, but for the first counter, a time, the  *)
(* counts, and those of the counter before if it is of the same thread (the    *)
(* first one's are not checked, and indexing them raises). A counter is never  *)
(* false, so the check for one that is missing is dead code.                   *)
Mismatch(route, txn) ==
  LET kept == Kept(route, txn)
  IN  \E i \in DOMAIN kept : kept[i].probe # route[i]
Incomplete(route, txn) ==
  LET kept == Kept(route, txn)
  IN  \E i \in 2 .. Len(kept) :
        \/ kept[i].tsc = 0
        \/ kept[i].pmc = None
        \/ kept[i - 1].pmc = None /\ kept[i - 1].thread = kept[i].thread
Raises(route, txn) == Mismatch(route, txn) \/ Incomplete(route, txn)

(* The DeltaSeriesRepo of a list of timelines: for each pair of probes, and    *)
(* for begin to end, the durations, and the counts where a point has some.     *)
SeriesPoint(tl, i, n) == IF i < n THEN tl.points[i] ELSE tl.endpoint
DeltaSeries(timelines, i, n) ==
  LET points == [k \in DOMAIN timelines |-> SeriesPoint(timelines[k], i, n)]
      counted == SelectSeq(points, LAMBDA p : p.pmc # None)
  IN  [tsc |-> [k \in DOMAIN points |-> points[k].duration],
       pmc |-> [k \in DOMAIN counted |-> counted[k].pmc]]
DeltaSeriesRepo(timelines, n) == [i \in 1 .. n |-> DeltaSeries(timelines, i, n)]
TimelineStats(category, route, timelines) ==
  [category |-> category, route |-> route, timelines |-> timelines,
   series |-> DeltaSeriesRepo(timelines, Len(route))]
BuildTimelineStats(category, route, txns) ==
  TimelineStats(category, route, [k \in DOMAIN txns |-> BuildTimeline(route, txns[k])])

-----------------------------------------------------------------------------
(* Conflator.conflateTimepoints: a kept point takes the durations and counts   *)
(* of the points dropped after it, up to the next kept one; the last kept one  *)
(* takes none. A count that is not a number is left out, unless it is the      *)
(* kept point's own.                                                           *)
DroppedButOne(indices, i) ==
  indices[i] + 1 .. (IF i = Len(indices) THEN indices[i] ELSE indices[i + 1] - 2)
Dropped(indices, i) ==
  indices[i] + 1 .. (IF i = Len(indices) THEN indices[i] ELSE indices[i + 1] - 1)
Counted(points, dropped) == {j \in dropped : points[j].pmc \notin {NaN, None}}
ConflateTimepoints(points, indices) ==
  [i \in DOMAIN indices |->
    LET src == points[indices[i]]
        dropped == Dropped(indices, i)
    IN  TimePoint(src.name, src.point,
          src.duration + MapThenSumSet(LAMBDA j : points[j].duration, dropped),
          IF Counted(points, dropped) = {} THEN src.pmc
          ELSE Add(src.pmc, MapThenSumSet(LAMBDA j : points[j].pmc, Counted(points, dropped))))]
ConflateTimeline(tl, indices) ==
  LET points == ConflateTimepoints(tl.points, indices)
  IN  Timeline(tl.txn, points, ConflateTimepoints(points, <<1, Len(points)>>)[1])

(* conflateTimelineStats over several sources: the timelines of every source   *)
(* whose route holds the route, sorted by the tsc at which they begin.         *)
Conflatable(route, stats) == {s \in stats : ConflateRoutes(s.route, route) # <<>>}
ConflateStats(category, route, stats) ==
  LET Of(s) == [k \in DOMAIN s.timelines |->
                  ConflateTimeline(s.timelines[k], ConflateRoutes(s.route, route))]
      srcs == SetToSeq(Conflatable(route, stats))
  IN  TimelineStats(category, route,
        SortSeq(FlattenSeq([k \in DOMAIN srcs |-> Of(srcs[k])]),
                LAMBDA s, t : BeginTsc(s.txn) < BeginTsc(t.txn)))

Profile(stats, benchmarkStats) == [current |-> stats, benchmarks |-> benchmarkStats]

(* Conflator.conflateProfiles.                                                 *)
ConflateProfiles(srcs, route) ==
  LET Of(name) == {p.benchmarks[name] : p \in {q \in srcs : name \in DOMAIN q.benchmarks}}
  IN  Profile(ConflateStats("", route, {p.current : p \in srcs}),
              [name \in {n \in ToSet(Benchmarks) : Conflatable(route, Of(n)) # {}} |->
                 ConflateStats("", route, Of(name))])

(* TimelineFilter: a profile that has no timeline left is dropped, and so is a *)
(* benchmark.                                                                  *)
FilterTimelineStats(stats, keep) ==
  TimelineStats(stats.category, stats.route,
                SelectSeq(stats.timelines, LAMBDA tl : tl.txn.id \in keep))
FilterProfile(p, keep) ==
  LET Of(name) == FilterTimelineStats(p.benchmarks[name], keep)
  IN  Profile(FilterTimelineStats(p.current, keep),
              [name \in {n \in DOMAIN p.benchmarks : Of(n).timelines # <<>>} |-> Of(name)])
FilterProfiles(srcs, keep) ==
  {p \in {FilterProfile(q, keep) : q \in srcs} : p.current.timelines # <<>>}

-----------------------------------------------------------------------------
(* buildTimelineTree over the points begin .. end - 1 (counted from 0): points *)
(* are grouped until their duration reaches the threshold, a ChildCount-th of  *)
(* the node's duration, or until the places left for children are needed for   *)
(* the points left. The value is the sequence of the leaves under the node:    *)
(* the point and its duration.                                                 *)
CanGroup(end, i, children) == end - i > ChildCount - children
Leaf(tl, i) == [from |-> i, value |-> tl.points[i + 1].duration]
TimelineLeaves(tl) ==
  LET last == Len(tl.points) - 1
      Duration(b, e) == MapThenSumSet(LAMBDA j : tl.points[j + 1].duration, b .. e - 1)
      tree[r \in (0 .. last) \X (0 .. last)] ==
        LET end == r[2]
            total == IF r = <<0, last>> THEN tl.endpoint.duration ELSE Duration(r[1], r[2])
            Step(node, i) ==
              LET group == CanGroup(end, i, node.children)
                  close == \/ Duration(node.groupBegin, i + 1) * ChildCount >= total
                           \/ ~ group
              IN  IF ~ close THEN node
                  ELSE [children |-> node.children + 1,
                        groupBegin |-> i + 1,
                        leaves |-> node.leaves \o IF group THEN tree[<<node.groupBegin, i + 1>>]
                                                           ELSE <<Leaf(tl, i)>>]
        IN  FoldLeft(Step, [children |-> 0, groupBegin |-> r[1], leaves |-> <<>>],
                     [k \in 1 .. r[2] - r[1] |-> r[1] + k - 1]).leaves
  IN  tree[<<0, last>>]

-----------------------------------------------------------------------------
(* buildBuckets over the lowest 95 % of a series, from half the mean to twice  *)
(* the mean, in units of 1 / Scale of a cycle; rounding decides whether the    *)
(* loop still makes the last bucket. <<>>: no histogram.                       *)
Confidence(series) == SubSeq(SortSeq(series, <), 1, (95 * Len(series)) \div 100)
Total(series) == FoldSeq(+, 0, series)
Scale(series) == 2 * Len(Confidence(series)) * BucketCount
Buckets(series, count) ==
  LET total == Total(Confidence(series))
  IN  IF total = 0 THEN <<>>
      ELSE [k \in 1 .. count |-> total * BucketCount + 3 * total * (k - 1)]

(* buildDistribution: bisect_left; what is beyond the last bucket is added to  *)
(* that bucket.                                                                *)
BucketOrNone(buckets, value) ==
  Cardinality({k \in DOMAIN buckets : buckets[k] < value}) + 1
Bucket(buckets, value) ==
  Min({Cardinality({k \in DOMAIN buckets : buckets[k] < value}) + 1, Len(buckets)})
BuildDistribution(buckets, values) ==
  [k \in DOMAIN buckets |->
    Cardinality({i \in DOMAIN values : Bucket(buckets, values[i]) = k})]

(* Analytics.buildElapsedTimeBundles: the elapsed times of a category, one     *)
(* list for each collection that has transactions of it; the categories are    *)
(* those of the current run.                                                   *)
Collections == <<current>> \o [i \in DOMAIN Benchmarks |-> benchmarks[Benchmarks[i]]]
Titles == <<CurrentRun>> \o Benchmarks
Elapsed(txns, c) ==
  LET of == SelectSeq(txns, LAMBDA t : Classify(t) = c)
  IN  [i \in DOMAIN of |-> ElapsedTsc(of[i])]
Bundle(c) ==
  SelectSeq([i \in DOMAIN Collections |-> Elapsed(Collections[i], c)], LAMBDA e : e # <<>>)

(* buildHistograms: a series of bars for each list of the bundle.              *)
BuildHistograms(titles, series) ==
  [k \in DOMAIN series |-> [title |-> titles[k], bars |-> series[k]]]

(* ReportGenerator.generateHistograms, for one category: the k-th list of the  *)
(* bundle is given the name of the k-th collection.                            *)
Histogram(c, count) ==
  LET bundle == Bundle(c)
      buckets == Buckets(bundle[1], count)
      Scaled(e) == [i \in DOMAIN e |-> e[i] * Scale(bundle[1])]
  IN  IF buckets = <<>> THEN <<>>
      ELSE BuildHistograms(Titles, [k \in DOMAIN bundle |->
             BuildDistribution(buckets, Scaled(bundle[k]))])
Categories(txns) == {Classify(txns[i]) : i \in DOMAIN txns}

-----------------------------------------------------------------------------
AtMost(max) == UNION {kSubset(k, Txns) : k \in 0 .. max}
Nothing == [kind |-> "nothing"]

Init ==
  /\ phase = "loaded"
  /\ current \in {Chronological(s) : s \in AtMost(MaxCurrent)}
  /\ benchmarks \in [ToSet(Benchmarks) -> {Chronological(s) : s \in Stored}]
  /\ histograms = <<>> /\ profiles = {} /\ conflation = FALSE /\ report = {}
  /\ shown = Nothing

(* Analytics.filterTxns, on the current run and on the benchmarks.             *)
FilterTxns(keep) ==
  LET Select(txns) == SelectSeq(txns, LAMBDA t : t.id \in keep)
  IN  /\ phase = "loaded"
      /\ current' = Select(current)
      /\ benchmarks' = [n \in DOMAIN benchmarks |-> Select(benchmarks[n])]
      /\ phase' = "filtered"
      /\ UNCHANGED <<histograms, profiles, conflation, report, shown>>

(* generateHistograms; a current run without transactions raises.              *)
GenerateHistograms(count) ==
  /\ phase \in {"loaded", "filtered"}
  /\ IF current = <<>>
     THEN phase' = "failed" /\ UNCHANGED histograms
     ELSE /\ histograms' = [c \in {d \in Categories(current) : Histogram(d, count) # <<>>} |->
                              Histogram(c, count)]
          /\ phase' = "plotted"
  /\ UNCHANGED <<current, benchmarks, profiles, conflation, report, shown>>

(* Analytics.generateProfiles: one profile for each category and route of the  *)
(* current run, with the benchmarks that have transactions for it. One         *)
(* transaction that buildTimelineStats cannot use fails the whole report.      *)
GenerateProfiles(conflate) ==
  LET tree == TxnTree(current)
      trees == BenchmarkTrees(benchmarks, tree, conflate)
      paths == UNION {{<<c, r>> : r \in DOMAIN tree[c]} : c \in DOMAIN tree}
      groups == {[category |-> q[1], route |-> q[2], txns |-> tree[q[1]][q[2]],
                  others |-> GetCollectionMap(trees, q[1], q[2])] : q \in paths}
      All(g) == {g.txns} \cup {g.others[n] : n \in DOMAIN g.others}
      Stats(g, txns) == BuildTimelineStats(g.category, g.route, txns)
  IN  /\ phase = "plotted"
      /\ conflation' = conflate
      /\ IF \E g \in groups : \E txns \in All(g) : \E i \in DOMAIN txns : Raises(g.route, txns[i])
         THEN phase' = "failed" /\ UNCHANGED profiles
         ELSE /\ profiles' = {Profile(Stats(g, g.txns),
                                      [n \in DOMAIN g.others |-> Stats(g, g.others[n])]) : g \in groups}
              /\ phase' = "profiled"
      /\ UNCHANGED <<current, benchmarks, histograms, report, shown>>

(* report.generate: the profiles of the categories that have a histogram.      *)
Generate == {p \in profiles : p.current.category \in DOMAIN histograms}

(* The last step of ReportGenerator.generateReport.                            *)
GenerateReport ==
  /\ phase = "profiled"
  /\ report' = Generate
  /\ phase' = "reported"
  /\ UNCHANGED <<current, benchmarks, histograms, profiles, conflation, shown>>

-----------------------------------------------------------------------------
(* The notebook's commands. They change nothing but the cell's output, and read *)
(* nothing that another command wrote: one command a session is enough.        *)
Display(what) ==
  /\ phase = "reported"
  /\ shown = Nothing
  /\ shown' = what
  /\ UNCHANGED <<phase, current, benchmarks, histograms, profiles, conflation, report>>

(* conflate: one profile of the timelines that the route holds.                *)
Conflate(srcs, route, keep) ==
  LET p == ConflateProfiles(srcs, route)
  IN  IF p.current.timelines = <<>> THEN Nothing
      ELSE [kind |-> "profile", profile |-> p, keep |-> keep]

(* plot, stat and txns of a route, on the profiles of the session or on those  *)
(* that filter(keep) returned. A route has two points at least, unless it is   *)
(* the one of the first profile.                                               *)
ConflateCommand(srcs, keep) ==
  \E route \in {r \in Routes : Len(r) > 1} \cup {p.current.route : p \in srcs} :
    Display(Conflate(srcs, route, keep))

(* locateTimeline.                                                             *)
Timelines(srcs) == UNION {ToSet(p.current.timelines) : p \in srcs}
Located(id) == {tl \in Timelines(profiles) : tl.txn.id = id}

(* plot(txnId).                                                                *)
PlotTxn(id) ==
  \E tl \in Located(id) :
    Display([kind |-> "tree", timeline |-> tl, leaves |-> TimelineLeaves(tl)])

(* filter(keep).plot(..), stat(..) and txns(..): an empty collection is false, *)
(* so plot and stat take all the profiles of the session in its place; txns    *)
(* displays that there are no transactions. plot of an id shows the timeline   *)
(* that it shows without the filter.                                           *)
FilterCommand(keep) ==
  LET found == FilterProfiles(profiles, keep)
      srcs == IF found = {} THEN profiles ELSE found
  IN  ConflateCommand(srcs, keep)

(* buildDiffTable: a row for each pair of probes, named by the right side.     *)
DiffTable(lhs, rhs) ==
  [i \in 1 .. Len(lhs.points) - 1 |->
    [name |-> rhs.points[i].name, until |-> rhs.points[i + 1].name,
     duration |-> rhs.points[i].duration - lhs.points[i].duration,
     pmc |-> Subtract(rhs.points[i].pmc, lhs.points[i].pmc)]]

(* diffTxn: the longer timeline is conflated to the route of the shorter one.  *)
Longer(s, t) == IF Len(s.points) > Len(t.points) THEN s ELSE t
Shorter(s, t) == IF Len(s.points) > Len(t.points) THEN t ELSE s
DiffByPosition(s, t) ==
  IF ConflateRoutes(Route(Longer(s, t).txn), Route(Shorter(s, t).txn)) = <<>> THEN {}
  ELSE {[lhs |-> Longer(s, t).txn, rhs |-> Shorter(s, t).txn,
         rows |-> DiffTable(ConflateTimeline(Longer(s, t), [i \in DOMAIN Shorter(s, t).points |-> i]),
                            Shorter(s, t))]}
Diff(s, t) ==
  LET indices == ConflateRoutes(Route(Longer(s, t).txn), Route(Shorter(s, t).txn))
  IN  IF indices = <<>> THEN {}
      ELSE {[lhs |-> Longer(s, t).txn, rhs |-> Shorter(s, t).txn,
             rows |-> DiffTable(ConflateTimeline(Longer(s, t), indices), Shorter(s, t))]}
Compared(tables, stats) == [kind |-> "diff", tables |-> tables, stats |-> stats]
DiffTxn(lhs, rhs) ==
  \E s \in Located(lhs), t \in Located(rhs) :
    Display(Compared(Diff(s, t), {}))

(* diffTxns: every profile of the left side against those of the right side,   *)
(* conflated to its route; one transaction against one are compared as by      *)
(* diffTxn. The first profile that has nothing to be compared with raises, and *)
(* leaves what was displayed before it.                                        *)
DiffTxns(lhs, rhs) ==
  LET left == FilterProfiles(profiles, lhs)
      right == FilterProfiles(profiles, rhs)
      Against(p) == ConflateProfiles(right, p.current.route).current
      comparable == {p \in left : Against(p).timelines # <<>>}
      single == {p \in comparable : Len(p.current.timelines) = 1 /\ Len(Against(p).timelines) = 1}
      Tables(p) == UNION {Diff(s, t) : s \in Located(p.current.timelines[1].txn.id),
                                       t \in Located(Against(p).timelines[1].txn.id)}
  IN  /\ \A id \in lhs \cup rhs : Located(id) # {}
      /\ \E done \in IF comparable = left THEN {left} ELSE SUBSET comparable :
           Display(Compared(UNION {Tables(p) : p \in done \cap single},
                            {<<p.current, Against(p)>> : p \in done \ single}))

Ids == {t.id : t \in Txns}
Next ==
  \/ \E keep \in Filters : FilterTxns(keep)
  \/ \E count \in {BucketCount, BucketCount + 1} : GenerateHistograms(count)
  \/ \E conflate \in BOOLEAN : GenerateProfiles(conflate)
  \/ GenerateReport
  \/ ConflateCommand(profiles, Ids)
  \/ \E keep \in Filters : FilterCommand(keep)
  \/ \E id \in Ids : PlotTxn(id)
  \/ \E lhs, rhs \in Ids : DiffTxn(lhs, rhs)
  \/ \E lhs, rhs \in Filters : DiffTxns(lhs, rhs)

Spec == Init /\ [][Next]_vars

-----------------------------------------------------------------------------
(* Reference: some choice of places of src, in order, spells dst.              *)
IsSubRoute(dst, src) ==
  \E at \in kSubset(Len(dst), DOMAIN src) :
    LET places == SetToSortSeq(at, <)
    IN  \A i \in DOMAIN dst : src[places[i]] = dst[i]

FullyCounted(txn) == \A i \in DOMAIN txn.counters : txn.counters[i].pmc # None
TxnsOf(stats) == [k \in DOMAIN stats.timelines |-> stats.timelines[k].txn]

(* Every transaction of the current run that the filter kept is in the one     *)
(* profile of its category and route, in order of time; and a profile compares *)
(* it with every transaction of a benchmark that is of the same category and   *)
(* hits the probes of the route in that order, or, when routes may not be      *)
(* conflated, hits exactly those. No pair of categories, routes and benchmarks *)
(* makes the mismatch check of buildTimelineStats raise: the report fails only *)
(* without transactions, or for one that was recorded without its counts.      *)
EveryTxnReported ==
  /\ phase \in {"profiled", "reported"} =>
       /\ {t \in Txns : \E p \in profiles : t \in ToSet(TxnsOf(p.current))} = ToSet(current)
       /\ \A p \in profiles :
            LET Same(t) == Classify(t) = p.current.category
                Hits(t) == IF conflation THEN IsSubRoute(p.current.route, Route(t))
                                         ELSE Route(t) = p.current.route
            IN  /\ TxnsOf(p.current) = SelectSeq(current, LAMBDA t : Same(t) /\ Route(t) = p.current.route)
                /\ \A n \in DOMAIN benchmarks :
                     LET found == SelectSeq(benchmarks[n], LAMBDA t : Same(t) /\ Hits(t))
                     IN  IF found = <<>> THEN n \notin DOMAIN p.benchmarks
                         ELSE n \in DOMAIN p.benchmarks /\ TxnsOf(p.benchmarks[n]) = found
  /\ phase = "failed" =>
       \/ current = <<>>
       \/ \E txns \in {current} \cup {benchmarks[n] : n \in DOMAIN benchmarks} :
            \E i \in DOMAIN txns : ~ FullyCounted(txns[i])

(* The report has the statistics of each category and route of the current run *)
(* (profiler/reportgenerator.py:7). The code leaves out those of a category    *)
(* that has no histogram: one transaction alone, or elapsed times that sum to  *)
(* zero, make no buckets.                                                      *)
EveryRouteRendered == phase = "reported" => report = profiles

(* A timeline, built from a transaction or conflated once or twice, splits the *)
(* time from its first to its last probe without gap or overlap; the series of *)
(* counts are as long as those of durations; and conflating a timeline of the  *)
(* current run to a shorter route gives what building it from the transaction  *)
(* gives: the same durations, and the same counts if it ran in one thread. A   *)
(* conflated profile shows no transaction of the current run twice.            *)
Segments(tl) == 1 .. Len(tl.points) - 1
Splits(tl) == MapThenSumSet(LAMBDA i : tl.points[i].duration, Segments(tl)) = tl.endpoint.duration
OneThread(txn) == Cardinality({txn.counters[i].thread : i \in DOMAIN txn.counters}) = 1
AsBuilt(route, tl) ==
  LET built == BuildTimeline(route, tl.txn)
  IN  /\ \A i \in Segments(tl) :
           /\ tl.points[i].duration = built.points[i].duration
           /\ OneThread(tl.txn) => tl.points[i].pmc = built.points[i].pmc
      /\ tl.endpoint.duration = built.endpoint.duration
      /\ OneThread(tl.txn) => tl.endpoint.pmc = built.endpoint.pmc
StatsSound(stats) ==
  Len(stats.route) > 1 =>
    /\ \A i \in DOMAIN stats.timelines : Splits(stats.timelines[i])
    /\ \A i \in DOMAIN stats.series :
         /\ Len(stats.series[i].tsc) = Len(stats.timelines)
         /\ Len(stats.series[i].pmc) = Len(stats.timelines)
ProfileSound(p) == \A s \in {p.current} \cup {p.benchmarks[n] : n \in DOMAIN p.benchmarks} : StatsSound(s)
TimelinesAgree ==
  /\ \A p \in profiles : ProfileSound(p)
  /\ shown.kind = "profile" =>
       /\ ProfileSound(shown.profile)
       /\ IsInjective(TxnsOf(shown.profile.current))
       /\ Len(shown.profile.current.route) > 1 =>
            \A tl \in ToSet(shown.profile.current.timelines) : AsBuilt(shown.profile.current.route, tl)

(* A conflated profile shows a transaction of a benchmark once.                *)
BenchmarkCountedOnce ==
  shown.kind = "profile" =>
    \A n \in DOMAIN shown.profile.benchmarks : IsInjective(TxnsOf(shown.profile.benchmarks[n]))

(* The leaves of the tree that plot(txnId) draws are distinct points of the    *)
(* timeline, in order, and break up all of its time (timelineTree.py:2). The   *)
(* code loses time: when the places left are needed while a group is open, the *)
(* leaf it adds has the duration of its last point only.                       *)
TreeCovers ==
  shown.kind = "tree" =>
    /\ \A i, j \in DOMAIN shown.leaves : i < j => shown.leaves[i].from < shown.leaves[j].from
    /\ MapThenSumSet(LAMBDA i : shown.leaves[i].value, DOMAIN shown.leaves)
         = shown.timeline.endpoint.duration

(* diff compares like with like: each row of the table of two transactions is  *)
(* about a pair of probes that both hit one after the other in their routes,   *)
(* and the rows account for the whole difference of the times that the two     *)
(* take from the first to the last of those probes; and both sides of a        *)
(* comparison of statistics have the same probes, point by point.              *)
Names(route) == [i \in DOMAIN route |-> ReportName(route[i])]
RowNames(table) == [i \in DOMAIN table.rows |-> table.rows[i].name] \o <<Last(table.rows).until>>
Took(txn, route) == BuildTimeline(route, txn).endpoint.duration
DiffAligned ==
  shown.kind = "diff" =>
    /\ \A table \in shown.tables :
         LET route == Route(table.rhs)
         IN  /\ IsSubRoute(route, Route(table.lhs))
             /\ Len(route) > 1 => RowNames(table) = Names(route)
             /\ MapThenSumSet(LAMBDA i : table.rows[i].duration, DOMAIN table.rows)
                  = Took(table.rhs, route) - Took(table.lhs, route)
    /\ \A pair \in shown.stats : \A s \in ToSet(pair[2].timelines) :
         \A i \in DOMAIN s.points : s.points[i].name = pair[1].timelines[1].points[i].name

(* filter(predicate) shows no transaction that the predicate rejects.          *)
FilterRespected ==
  shown.kind = "profile" => \A t \in ToSet(TxnsOf(shown.profile.current)) : t.id \in shown.keep

(* A histogram counts every transaction of its category, those beyond its last *)
(* bucket too: first those of the current run, then those of each benchmark    *)
(* that has some, in the order of the benchmarks.                              *)
HistogramComplete ==
  \A c \in DOMAIN histograms :
    LET Of(txns) == Len(SelectSeq(txns, LAMBDA t : Classify(t) = c))
        counts == SelectSeq([i \in DOMAIN Collections |-> Of(Collections[i])], LAMBDA n : n > 0)
    IN  [k \in DOMAIN histograms[c] |-> Total(histograms[c][k].bars)] = counts

(* The legend of a series of bars is headed by the collection whose            *)
(* transactions the bars count.                                                *)
HistogramTitled ==
  \A c \in DOMAIN histograms : \A k \in DOMAIN histograms[c] :
    \E i \in DOMAIN Titles :
      /\ Titles[i] = histograms[c][k].title
      /\ Total(histograms[c][k].bars) = Len(SelectSeq(Collections[i], LAMBDA t : Classify(t) = c))
=============================================================================
