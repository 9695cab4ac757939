-------------------------- MODULE MCProfilerClient --------------------------
(* ProfilerClient on small sets. k1 and k2 name one probe each, k0 names none. *)
EXTENDS ProfilerClient, TLC

CONSTANTS p1, p2, k0, k1, k2

MCMatches == (k0 :> {}) @@ (k1 :> {p1}) @@ (k2 :> {p2})
MCProfiles == {<<k1, k2>>, <<k2, k1>>, <<k1, k0>>}
MCLookup == {<<k2, k1>>}
MCDurations == {None, 0, 3}
MCHeartbeats == {None, 2}

\* An earlier profiler may have gone before it began its profile, or because its perf
\* events could not be opened.
MCLeftovers == {Fresh, ActivateProbe(ActivatePmu(Fresh, TRUE, FALSE), k1),
                [Fresh EXCEPT !.attrs = "failed", !.attached = TRUE]}

=============================================================================
