------------------------------ MODULE MCAnalytics ------------------------------
(* Transactions of which two take one route at overlapping times (1 and 7);    *)
(* others hit a probe twice, cross threads and come back with two points that  *)
(* coincide, cross to a thread that records no counts (3), or are all in one   *)
(* point.                                                                      *)
EXTENDS Analytics

MCCounter(probe, tsc, thread, pmc, data) ==
  [probe |-> probe, tsc |-> tsc, thread |-> thread, pmc |-> pmc, data |-> data]
MCTxn(id, begin, probes, gaps, threads) ==
  [id |-> id,
   counters |-> [i \in DOMAIN probes |->
     MCCounter(probes[i], begin + MapThenSumSet(LAMBDA j : gaps[j], 1 .. i - 1),
               threads[i], IF threads[i] = "uncounted" THEN None ELSE 10 * i + (i * i), i)]]
MCTxns ==
  {MCTxn(1, 10, <<"a", "b", "c">>, <<3, 1>>, <<"t", "t", "t">>),
   MCTxn(2, 20, <<"a", "b", "a", "c">>, <<1, 5, 1>>, <<"t", "t", "t", "t">>),
   MCTxn(3, 30, <<"a", "c">>, <<2>>, <<"t", "uncounted">>),
   MCTxn(4, 40, <<"a", "b", "b", "a", "b", "c">>, <<1, 4, 0, 3, 2>>, <<"t", "u", "u", "t", "t", "t">>),
   MCTxn(5, 50, <<"b", "c">>, <<7>>, <<"t", "t">>),
   MCTxn(6, 60, <<"b">>, <<>>, <<"t">>),
   MCTxn(7, 12, <<"a", "b", "c">>, <<1, 9>>, <<"u", "u", "u">>)}
MCTypeMapper(data) == IF data = 1 THEN "order" ELSE "quote"
MCReportName(probe) == <<"name of", probe>>
MCFilters == {{1}, {1, 7}, {2, 4}, {5, 6}}
MCRoutes == {<<"a", "c">>, <<"b", "a", "c">>, <<"b">>, <<"c", "a">>}
MCBenchmarks == <<"b1", "b2">>
MCStored ==
  LET Of(ids) == {t \in MCTxns : t.id \in ids}
  IN  {Of({}), Of({1, 7}), Of({2, 4}), Of({3}), Of({5}), Of({1, 6})}
=============================================================================
