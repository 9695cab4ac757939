-------------------------- MODULE MCSessionControl --------------------------
(* SessionControl on small sets: k1 matches one probe, any other key all of *)
(* them, as a name and a file may match the same probes.                    *)
EXTENDS SessionControl

CONSTANTS p1, k1

MCMatches == [k \in Keys |-> IF k = k1 THEN {p1} ELSE Probes]

\* The requests of a profiler that counts no events.
MCFewRequests ==
  {r \in Request : r.op \notin {"activatePmu", "activatePerfEvents", "deactivateProbe"}
                     /\ (r.op = "beginProfile" => r.interval = 1 /\ ~ r.custom)}

=============================================================================
