------------------------------- MODULE Handler -------------------------------
(***************************************************************************)
(* What a request does to the process it is sent to: Handler, Profile,     *)
(* PmuCtl and RecorderCtl (lib/xpedite/framework, pmu, probes), as pure    *)
(* operators on one record of state. SessionControl has the sessions that  *)
(* execute requests, ProfilerClient the profiler that sends them.          *)
(***************************************************************************)
EXTENDS Integers, Sequences

CONSTANTS
  Probes,       \* probes of the application
  Keys,         \* ProbeKeys that requests name
  Matches       \* the probes each key matches

ASSUME MatchesAssumption == Matches \in [Keys -> SUBSET Probes]

Recorders == {"expandable", "pmc", "perf", "custom"}
Intervals == {0, 1}

\* PerfEventsCtl::_activeEventAttrs: none, those of an enable that succeeded, or
\* those of one that failed after it had published them.
Attrs == {"none", "enabled", "failed"}

\* perf is PerfEventsCtl::_isEnabled; attached says that some thread has perf events.
State == [profile : BOOLEAN, interval : Intervals, active : SUBSET Keys, enabled : SUBSET Probes,
          gp : BOOLEAN, fixed : BOOLEAN, perf : BOOLEAN, attrs : Attrs, attached : BOOLEAN,
          recorder : Recorders]

\* The poll interval is abstracted to whether it is 0.
Fresh == [profile |-> FALSE, interval |-> 1, active |-> {}, enabled |-> {},
          gp |-> FALSE, fixed |-> FALSE, perf |-> FALSE, attrs |-> "none", attached |-> FALSE,
          recorder |-> "expandable"]

-----------------------------------------------------------------------------
(* Requests.  The frames the parser knows, and the ones beginProfile and   *)
(* endProfile of Framework build.                                          *)

Ping == [op : {"ping"}]
ProbeRequest == [op : {"activateProbe", "deactivateProbe"}, key : Keys]
PmuRequest == [op : {"activatePmu", "activatePerfEvents"}, gp : BOOLEAN, fixed : BOOLEAN]
BeginRequest == [op : {"beginProfile"}, interval : Intervals, custom : BOOLEAN]
EndRequest == [op : {"endProfile"}]

Request == Ping \cup ProbeRequest \cup PmuRequest \cup BeginRequest \cup EndRequest

Ok(s) == [ok |-> TRUE, h |-> s]
Failed(s) == [ok |-> FALSE, h |-> s]

Matched(keys) == UNION {Matches[k] : k \in keys}

ActivateProbe(s, key) ==
  [s EXCEPT !.enabled = @ \cup Matches[key], !.active = @ \cup {key}]

DeactivateProbe(s, key) ==
  [s EXCEPT !.enabled = @ \ Matches[key], !.active = @ \ {key}]

PmcCount(s) == s.gp \/ s.fixed

\* PmuActivationRequest: enableGenericPmc, then enableFixedPmc for each counter.
ActivatePmu(s, gp, fixed) ==
  [s EXCEPT !.gp = @ \/ gp, !.fixed = @ \/ fixed,
            !.recorder = IF ~ PmcCount(s) /\ (gp \/ fixed) THEN "pmc" ELSE @]

\* PmuCtl::enablePerfEvents.  PerfEventsCtl::enable refuses an empty set and a second
\* one; then it publishes the attributes, and fails if the events of a thread cannot
\* be opened, with the attributes still published.  There may be no thread yet.
EnablePerfEvents(s, gp, fixed) ==
  {Failed(s)} \cup
    IF s.perf \/ ~ (gp \/ fixed) THEN {}
    ELSE {Failed([s EXCEPT !.attrs = "failed"])} \cup
         {Ok([s EXCEPT !.perf = TRUE, !.attrs = "enabled", !.attached = threads,
                       !.gp = gp, !.fixed = @ \/ fixed, !.recorder = "perf"])
            : threads \in {TRUE, s.attached}}

\* PerfEventsCtl::attachTo, by a thread that has just created its buffer: it attaches
\* events if attributes are published when it holds the lock.
AttachPerfEvents(s) == IF s.attrs = "none" THEN s ELSE [s EXCEPT !.attached = TRUE]

\* PerfEventsCtl::disable.
DisablePerfEvents(s) ==
  IF s.perf THEN [s EXCEPT !.perf = FALSE, !.attrs = "none", !.attached = FALSE] ELSE s

\* Mutated form: samples are left to the recorder that never expands a buffer.
DisablePMUTrivial(s) ==
  [DisablePerfEvents(s) EXCEPT !.gp = FALSE, !.fixed = FALSE,
                               !.recorder = IF PmcCount(s) THEN "trivial" ELSE @]

\* Mutated form: the attributes of the profile stay published.
DisablePMUPublished(s) ==
  [s EXCEPT !.perf = FALSE, !.gp = FALSE, !.fixed = FALSE,
            !.recorder = IF PmcCount(s) THEN "expandable" ELSE @]

\* Profile::disablePMU, with or without perf events.
DisablePMU(s) ==
  [DisablePerfEvents(s) EXCEPT !.gp = FALSE, !.fixed = FALSE,
                               !.recorder = IF PmcCount(s) THEN "expandable" ELSE @]

\* Mutated form: a custom recorder outlives the profile.
StopKeepsRecorder(s) == DisablePMU([s EXCEPT !.enabled = @ \ Matched(s.active)])

\* Profile::stop.  The keys stay in _activeProbes.
Stop(s) ==
  LET d == DisablePMU([s EXCEPT !.enabled = @ \ Matched(s.active)])
  IN  [d EXCEPT !.recorder = IF @ = "custom" THEN "expandable" ELSE @]

\* Handler::endProfile stops the profile even when none is active.
EndProfile(s) == [Stop(s) EXCEPT !.profile = FALSE]

\* Handler::beginProfile.  It fails unchanged when the file pattern is empty, and
\* after it has stored the interval when a reader cannot be attached.
BeginProfile(s, interval) ==
  {Failed(s)} \cup
    IF s.profile \/ s.interval = 0 THEN {}
    ELSE {Ok([s EXCEPT !.interval = interval, !.profile = TRUE]),
          Failed([s EXCEPT !.interval = interval])}

\* ProfileActivationRequest.  It fails when one of the two recorders is missing.
Begin(s, interval, custom) ==
  IF custom
  THEN {Failed(s)} \cup BeginProfile([s EXCEPT !.recorder = "custom"], interval)
  ELSE BeginProfile(s, interval)

\* What executing a request may return and leave behind.
Outcomes(s, r) ==
  CASE r.op = "ping" -> {Ok(s)}
    [] r.op = "activateProbe" -> {Ok(ActivateProbe(s, r.key))}
    [] r.op = "deactivateProbe" -> {Ok(DeactivateProbe(s, r.key))}
    [] r.op = "activatePmu" -> {Ok(ActivatePmu(s, r.gp, r.fixed))}
    [] r.op = "activatePerfEvents" -> EnablePerfEvents(s, r.gp, r.fixed)
    [] r.op = "beginProfile" -> Begin(s, r.interval, r.custom)
    [] r.op = "endProfile" -> {[ok |-> s.profile, h |-> EndProfile(s)]}

\* No probe is patched, no counter is read, samples are taken by the recorder the
\* process started with, and no perf events are left but those that threads attached
\* for an enable that failed: disable leaves these alone.
Restored(s) ==
  /\ s.enabled = {}
  /\ ~ s.gp /\ ~ s.fixed /\ ~ s.perf
  /\ s.attrs # "enabled" /\ (s.attached => s.attrs = "failed")
  /\ s.recorder = "expandable"

=============================================================================
