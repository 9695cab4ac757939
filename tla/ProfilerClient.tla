--------------------------- MODULE ProfilerClient ---------------------------
(* A profile session as the profiler runs it (profiler/__init__.py,          *)
(* runtime.py, app.py, environment.py, probeAdmin.py, transport/), against   *)
(* the process it profiles: RemoteSession on the other end of the connection *)
(* and the requests of module Handler.                                       *)
(*                                                                           *)
(* The profiler sends one command at a time and waits ten seconds for its    *)
(* response. When it stops waiting the command and its response stay in the  *)
(* connection, which the next command may use again.                         *)
EXTENDS Handler, FiniteSets

CONSTANTS
  Profiles,     \* the lists of probes that profile info files ask for
  Lookup,       \* those with a probe given by name, which has to be resolved
  Durations,    \* values of --duration (None: until a key is pressed)
  Heartbeats,   \* values of --heartbeat
  Leftovers,    \* states an earlier profiler may have left behind
  MaxTimeouts,  \* bound: commands that time out in a session
  MaxElapsed,   \* bound: time of a session without a duration
  None

\* Runtime refuses a profile with fewer than two probes.
ASSUME ProfilesAssumption ==
  /\ Profiles \subseteq Seq(Keys) /\ Lookup \subseteq Profiles
  /\ \A p \in Profiles : Len(p) >= 2
\* A profiler that has counters programmed also has them recorded.
ASSUME LeftoversAssumption ==
  /\ Leftovers \subseteq State
  /\ \A s \in Leftovers : PmcCount(s) => s.recorder \in {"pmc", "perf"}
ASSUME TimesAssumption ==
  /\ Durations \subseteq Int \cup {None} /\ Heartbeats \subseteq Nat \cup {None}
  /\ MaxElapsed \in Nat
ASSUME NoneAssumption ==
  None \notin {"notStarted", "failed", "fallback", "unclean", "ended"} /\ None \notin 0 .. 2

VARIABLES
  mode,       \* "record", "report" (of an earlier recording) or "probes"
  opts,       \* the profile and the command line: fixed during a session
  pc,         \* where the profiler is
  todo,       \* probes that updateProbes has not activated yet
  waiting,    \* the command whose response admin awaits
  part,       \* the part of the frame that readFrame reads: "hdr" or "body"
  garbled,    \* the connection is not at the beginning of a frame
  conn,       \* the connection of env.client, or None
  rpyc,       \* rpyc servers that are running on the host of the target
  linked,     \* rpyc servers that the profiler got connected to
  device,     \* the device driver is open and its counters programmed
  elapsed,    \* time since the profile began
  timeouts,   \* number of commands that have timed out
  outcome,    \* how the session ended
  h,          \* the state of the target
  alive,      \* the target runs
  tConn,      \* RemoteSession::_client: a connection, Other or None
  backlog,    \* connections not accepted yet
  c2t, t2c,   \* commands and responses in each connection
  closedC,    \* connections closed by the profiler
  closedT     \* connections closed by the target

frameVars  == <<waiting, part, garbled>>
clientVars == <<mode, opts, todo, conn, rpyc, linked, device, elapsed, timeouts, outcome>>
targetVars == <<h, alive, tConn, backlog>>
wireVars   == <<c2t, t2c, closedC, closedT>>
vars == <<pc, frameVars, clientVars, targetVars, wireVars>>

Conns == 1 .. 2       \* start and one restart
Other == 0            \* the connection of another profiler
Opts == [probes : Profiles, pmu : {"none", "driver", "perf"}, remote : BOOLEAN,
         duration : Durations, heartbeat : Heartbeats]

Init ==
  /\ mode \in {"record", "report", "probes"}
  /\ opts \in Opts
  /\ mode # "record" => opts.pmu = "none" /\ opts.duration = None /\ opts.heartbeat = None
  /\ pc = "start"
  /\ todo = <<>>
  /\ waiting = None
  /\ part = "hdr"
  /\ garbled = FALSE
  /\ conn = None
  /\ rpyc = {}
  /\ linked = {}
  /\ device = FALSE
  /\ elapsed = 0
  /\ timeouts = 0
  /\ outcome = None
  /\ h \in Leftovers
  /\ alive = TRUE
  /\ tConn \in {None, Other}
  /\ backlog = <<>>
  /\ c2t = [c \in Conns |-> <<>>]
  /\ t2c = [c \in Conns |-> <<>>]
  /\ closedC = {}
  /\ closedT = {}

-----------------------------------------------------------------------------
(* Starting and stopping the app.                                            *)

Reset == waiting' = None /\ part' = "hdr" /\ garbled' = FALSE

(* XpediteApp.start fails: at the first time __enter__ has raised, so that    *)
(* __exit__ is not called.                                                    *)
StartFailed ==
  /\ outcome' = IF pc = "start" THEN "notStarted"
                ELSE IF mode = "probes" THEN "fallback" ELSE "failed"
  /\ pc' = IF pc = "start" THEN "done" ELSE "exit"

(* Remote.__enter__ launches an rpyc server on the host of the target, and     *)
(* connects to it.                                                            *)
Launched(n) == IF opts.remote THEN rpyc \cup {n} ELSE rpyc
Linked(n) == IF opts.remote THEN linked \cup {n} ELSE linked

(* A server whose pid has not been seen in time is killed through ssh: that    *)
(* kills no process, and one that came up too late stays.                     *)
LaunchFails(n) ==
  /\ opts.remote
  /\ StartFailed
  /\ rpyc' \in {rpyc, Launched(n)}
  /\ UNCHANGED <<linked, conn, backlog>>

(* The connection to the server fails.                                        *)
LinkFails(n) ==
  /\ opts.remote
  /\ StartFailed
  /\ rpyc' = Launched(n)
  /\ UNCHANGED <<linked, conn, backlog>>

(* There is no app info file to gather and load, or the connection is refused. *)
AttachFails(n) ==
  /\ StartFailed
  /\ rpyc' = Launched(n)
  /\ linked' = Linked(n)
  /\ UNCHANGED <<conn, backlog>>

(* XpediteDormantApp: a dry run connects to nothing.                          *)
AttachDormant(n) ==
  /\ mode = "report"
  /\ rpyc' = Launched(n)
  /\ linked' = Linked(n)
  /\ pc' = "report"
  /\ UNCHANGED <<conn, backlog, outcome>>

(* Environment.__enter__: the client connects to the target.                  *)
Attach(n) ==
  /\ mode # "report"
  /\ alive
  /\ rpyc' = Launched(n)
  /\ linked' = Linked(n)
  /\ conn' = n
  /\ backlog' = Append(backlog, n)
  /\ pc' = IF n = 1 THEN "ping" ELSE "reping"
  /\ UNCHANGED outcome

(* XpediteApp.start, for the first time or to restart.                        *)
Start ==
  LET n == IF pc = "start" THEN 1 ELSE 2 IN
  /\ pc \in {"start", "restart"}
  /\ Reset
  /\ LaunchFails(n) \/ LinkFails(n) \/ AttachFails(n) \/ AttachDormant(n) \/ Attach(n)
  /\ UNCHANGED <<mode, opts, todo, device, elapsed, timeouts, h, alive, tConn, wireVars>>

(* Fault: the client is closed, the rpyc server is not.                       *)
StopAppOnly(next) ==
  /\ pc' = next
  /\ closedC' = IF conn = None THEN closedC ELSE closedC \cup {conn}
  /\ conn' = None
  /\ Reset
  /\ UNCHANGED <<mode, opts, todo, rpyc, linked, device, elapsed, timeouts, targetVars, c2t, t2c, closedT>>

(* XpediteApp.stop: the client is closed, then Remote.__exit__ closes the      *)
(* connection to the rpyc server and kills it; without one it raises before.   *)
StopApp(next) ==
  /\ pc' = next
  /\ closedC' = IF conn = None THEN closedC ELSE closedC \cup {conn}
  /\ conn' = None
  /\ rpyc' = rpyc \ linked
  /\ Reset
  /\ UNCHANGED <<mode, opts, todo, linked, device, elapsed, timeouts, targetVars, c2t, t2c, closedT>>

StopToRestart == pc = "stop" /\ StopApp("restart") /\ UNCHANGED outcome

Exit ==
  /\ pc = "exit"
  /\ StopApp("done")
  /\ outcome' = IF outcome = None THEN "ended" ELSE outcome

-----------------------------------------------------------------------------
(* Commands.                                                                  *)

(* ProbeAdmin.getProbes, _updateProbe and enablePMU; Environment.enablePMU    *)
(* when the driver is not loaded. Profiles ask for generic counters.          *)
GetProbes == [op |-> "listProbes"]
UpdateProbe(key) == [op |-> "activateProbe", key |-> key]
EnableCounters == [op |-> "activatePmu", gp |-> TRUE, fixed |-> FALSE]
EnablePerf == [op |-> "activatePerfEvents", gp |-> TRUE, fixed |-> FALSE]

BeginSamples == [op |-> "beginProfile", interval |-> 1, custom |-> FALSE]

Commands == {[op |-> "ping"], GetProbes, EnableCounters, EnablePerf, BeginSamples,
             [op |-> "endProfile"]} \cup {UpdateProbe(k) : k \in Keys}
ASSUME NoneIsNoCommand == None \notin Commands

(* The command of each step.                                                  *)
Cmd ==
  CASE pc \in {"ping", "reping", "heartbeat"} -> [op |-> "ping"]
    [] pc \in {"list", "resolve", "verify"}   -> GetProbes
    [] pc = "perf"  -> EnablePerf
    [] pc = "pmc"   -> EnableCounters
    [] pc = "probe" -> UpdateProbe(Head(todo))
    [] pc = "begin" -> BeginSamples
    [] pc = "end"   -> [op |-> "endProfile"]

SetUp == {"ping", "reping", "list", "perf", "resolve", "pmc", "probe", "verify", "begin"}
Asking == SetUp \cup {"heartbeat", "end"}

(* The steps of Runtime.__init__, and of _loadProbes, after a step succeeded. *)
ToProbesOnly == "probe"        \* fault: the target is not told about counters
ToProbes == IF opts.pmu = "none" THEN "probe" ELSE "pmc"
ToResolve == IF opts.probes \in Lookup THEN "resolve" ELSE ToProbes
ToCounters == CASE opts.pmu = "none" -> ToResolve
                [] opts.pmu = "driver" -> "enable"
                [] OTHER -> "perf"
AfterPing == IF mode = "probes" THEN "list" ELSE ToCounters

Asked == {opts.probes[i] : i \in DOMAIN opts.probes}

(* Fault: the probes to activate are not listed.                              *)
LeaveKeepsTodo(next, result) ==
  /\ pc' = next
  /\ outcome' = result
  /\ todo' = todo

(* admin returns or raises after one read: where the profiler goes on.        *)
Leave(next, result) ==
  /\ pc' = next
  /\ outcome' = result
  /\ todo' = IF next = "probe" /\ pc # "probe" THEN opts.probes ELSE todo

Fail == Leave("exit", IF mode = "probes" THEN "fallback" ELSE "failed")

(* Fault: pingApp pings again on the connection that has timed out.           *)
RaisePingsAgain(kind) ==
  IF pc = "ping" /\ kind \in {"timeout", "reset"} THEN Leave("reping", outcome)
  ELSE IF pc = "heartbeat" THEN Leave("end", outcome)
  ELSE IF pc = "end" THEN Leave("release", "unclean")
  ELSE Fail

(* An exception of the given kind, in each caller of admin. pingApp catches   *)
(* errors of the socket only.                                                 *)
Raise(kind) ==
  IF pc = "ping" /\ kind \in {"timeout", "reset"} THEN Leave("stop", outcome)
  ELSE IF pc = "heartbeat" THEN Leave("end", outcome)
  ELSE IF pc = "end" THEN Leave("release", "unclean")
  ELSE Fail

(* Every probe of the profile is known to the target and active.              *)
Verified(listed) == \A k \in Asked : Matches[k] # {} /\ Matches[k] \subseteq listed
(* ProbeResolver finds every probe given by name.                             *)
Resolved == \A k \in Asked : Matches[k] # {}

(* admin returns a result; what it says matters in two steps only.            *)
Accepted(rsp) ==
  \/ pc \in {"ping", "reping"} /\ Leave(AfterPing, outcome)
  \/ pc = "list"    /\ Leave("exit", "ended")
  \/ pc = "perf"    /\ Leave(ToResolve, outcome)
  \/ pc = "resolve" /\ IF Resolved THEN Leave(ToProbes, outcome) ELSE Fail
  \/ pc = "pmc"     /\ Leave("probe", outcome)
  \/ /\ pc = "probe"
     /\ todo' = Tail(todo)
     /\ pc' = IF Len(todo) = 1 THEN "verify" ELSE "probe"
     /\ UNCHANGED outcome
  \/ pc = "verify"  /\ IF Verified(rsp.enabled) THEN Leave("begin", outcome) ELSE Fail
  \/ pc \in {"begin", "heartbeat"} /\ Leave("profiling", outcome)
  \/ pc = "end"     /\ Leave("release", outcome)

(* client.send.                                                               *)
Send ==
  /\ pc \in Asking
  /\ waiting = None
  /\ waiting' = Cmd
  /\ c2t' = IF conn \in closedT THEN c2t ELSE [c2t EXCEPT ![conn] = Append(@, Cmd)]
  /\ part' = "hdr"
  /\ UNCHANGED <<pc, garbled, clientVars, targetVars, t2c, closedC, closedT>>

readUnchanged == UNCHANGED <<mode, opts, conn, rpyc, linked, device, elapsed, targetVars, c2t, closedC, closedT>>

(* readFrame has read a header.                                               *)
ReadHeader ==
  /\ waiting # None
  /\ part = "hdr"
  /\ t2c[conn] # <<>>
  /\ ~ garbled
  /\ part' = "body"
  /\ UNCHANGED <<pc, waiting, garbled, todo, timeouts, outcome, t2c>>
  /\ readUnchanged

(* readFrame has read a frame, and admin looks at its status.                 *)
ReadBody ==
  /\ waiting # None
  /\ part = "body"
  /\ t2c[conn] # <<>>
  /\ t2c' = [t2c EXCEPT ![conn] = Tail(@)]
  /\ LET rsp == Head(t2c[conn]) IN IF rsp.ok THEN Accepted(rsp) ELSE Raise("status")
  /\ waiting' = None
  /\ part' = "hdr"
  /\ UNCHANGED <<garbled, timeouts>>
  /\ readUnchanged

(* The first bytes are not the length of a frame.                             *)
ReadGarbled ==
  /\ waiting # None
  /\ garbled
  /\ t2c[conn] # <<>>
  /\ Raise("format")
  /\ waiting' = None
  /\ UNCHANGED <<part, garbled, timeouts, t2c>>
  /\ readUnchanged

(* Fault: readAtleast goes on reading at the end of the stream.               *)
ReadFailsNever == FALSE

(* recv fails, or returns nothing: the target has closed the connection.      *)
ReadFails ==
  /\ waiting # None
  /\ conn \in closedT
  /\ \/ t2c[conn] = <<>> /\ Raise("eof")
     \/ Raise("reset")
  /\ waiting' = None
  /\ UNCHANGED <<part, garbled, timeouts, t2c>>
  /\ readUnchanged

(* recv times out. The bytes read before are lost: the next frame is read     *)
(* from the middle of this one.                                               *)
Timeout ==
  /\ waiting # None
  /\ conn \notin closedT
  /\ timeouts < MaxTimeouts
  /\ timeouts' = timeouts + 1
  /\ garbled' \in IF part = "body" \/ garbled THEN {TRUE}
                  ELSE IF t2c[conn] = <<>> THEN {FALSE} ELSE BOOLEAN
  /\ Raise("timeout")
  /\ waiting' = None
  /\ part' = "hdr"
  /\ UNCHANGED t2c
  /\ readUnchanged

-----------------------------------------------------------------------------
(* The other steps of the profiler.                                           *)

stepUnchanged == UNCHANGED <<mode, opts, conn, rpyc, linked, timeouts, frameVars, targetVars, wireVars>>

(* ProxyEnvironment.enablePMU: the driver is opened and programmed.           *)
EnablePMU ==
  /\ pc = "enable"
  /\ \/ Fail /\ UNCHANGED device
     \/ Fail /\ device' = TRUE
     \/ Leave(ToResolve, outcome) /\ device' = TRUE
  /\ UNCHANGED elapsed
  /\ stepUnchanged

TimeIsUp(now) == opts.duration \notin {None, 0} /\ now >= opts.duration

(* One round of the loop of Profiler.profile: it waits for a key or for the   *)
(* heartbeat interval. min(None, duration) and a negative wait raise.         *)
WaitInvalid ==
  /\ opts.duration # None
  /\ opts.heartbeat = None \/ opts.duration < elapsed

Wait ==
  /\ pc = "profiling"
  /\ IF WaitInvalid
     THEN Leave("exit", "failed") /\ UNCHANGED elapsed
     ELSE \/ Leave("end", outcome) /\ UNCHANGED elapsed          \* a key is pressed
          \/ /\ opts.heartbeat # None
             /\ LET left == IF opts.duration = None THEN opts.heartbeat ELSE opts.duration - elapsed
                    wait == IF left < opts.heartbeat THEN left ELSE opts.heartbeat
                    now  == IF elapsed + wait + 1 > MaxElapsed THEN MaxElapsed ELSE elapsed + wait + 1
                IN  /\ elapsed' = now
                    /\ Leave(IF TimeIsUp(now) THEN "end" ELSE "heartbeat", outcome)
  /\ UNCHANGED device
  /\ stepUnchanged

(* Runtime.report: disablePMU.                                                *)
Release ==
  /\ pc = "release"
  /\ device' = FALSE
  /\ Leave("report", outcome)
  /\ UNCHANGED elapsed
  /\ stepUnchanged

(* ... then the samples are gathered, and the report is built (other modules). *)
Report ==
  /\ pc = "report"
  /\ \/ Leave("exit", outcome)
     \/ Leave("exit", "failed")
  /\ UNCHANGED <<device, elapsed>>
  /\ stepUnchanged

Profiler ==
  \/ Start \/ StopToRestart \/ Exit
  \/ Send \/ ReadHeader \/ ReadBody \/ ReadGarbled \/ ReadFails \/ Timeout
  \/ EnablePMU \/ Wait \/ Release \/ Report

-----------------------------------------------------------------------------
(* The target: RemoteSession and Handler.                                     *)

profilerUnchanged == UNCHANGED <<pc, frameVars, clientVars, closedC>>

Response(o, cmd) == [op |-> cmd.op, ok |-> o.ok, enabled |-> o.h.enabled]
Respond(c, rsp) == t2c' = [t2c EXCEPT ![c] = Append(@, rsp)]
TargetOutcomes(cmd) == IF cmd.op = "listProbes" THEN {Ok(h)} ELSE Outcomes(h, cmd)

Accept ==
  /\ alive
  /\ tConn = None
  /\ backlog # <<>>
  /\ tConn' = Head(backlog)
  /\ backlog' = Tail(backlog)
  /\ UNCHANGED <<h, alive, c2t, t2c, closedT>>
  /\ profilerUnchanged

(* "multiple sessions not supported"                                          *)
Refuse ==
  /\ alive
  /\ tConn # None
  /\ backlog # <<>>
  /\ backlog' = Tail(backlog)
  /\ Respond(Head(backlog), [op |-> "refused", ok |-> FALSE, enabled |-> {}])
  /\ closedT' = closedT \cup {Head(backlog)}
  /\ c2t' = [c2t EXCEPT ![Head(backlog)] = <<>>]
  /\ UNCHANGED <<h, alive, tConn>>
  /\ profilerUnchanged

Execute ==
  /\ alive
  /\ tConn \in Conns
  /\ c2t[tConn] # <<>>
  /\ LET cmd == Head(c2t[tConn]) IN
       \E o \in TargetOutcomes(cmd) : h' = o.h /\ Respond(tConn, Response(o, cmd))
  /\ c2t' = [c2t EXCEPT ![tConn] = Tail(@)]
  /\ UNCHANGED <<alive, tConn, backlog, closedT>>
  /\ profilerUnchanged

(* Fault: a profile survives the connection it was begun in.                  *)
DropClientOnly ==
  /\ alive
  /\ tConn \in Conns
  /\ tConn \in closedC
  /\ tConn' = None
  /\ closedT' = closedT \cup {tConn}
  /\ c2t' = [c2t EXCEPT ![tConn] = <<>>]
  /\ UNCHANGED <<h, alive, backlog, t2c>>
  /\ profilerUnchanged

(* The profiler has closed the connection: resetClient.                       *)
DropClient ==
  /\ alive
  /\ tConn \in Conns
  /\ tConn \in closedC
  /\ h' = IF h.profile THEN EndProfile(h) ELSE h
  /\ tConn' = None
  /\ closedT' = closedT \cup {tConn}
  /\ c2t' = [c2t EXCEPT ![tConn] = <<>>]
  /\ UNCHANGED <<alive, backlog, t2c>>
  /\ profilerUnchanged

(* A profiler that was connected before leaves.                               *)
OtherLeaves ==
  /\ tConn = Other
  /\ tConn' = None
  /\ UNCHANGED <<h, alive, backlog, c2t, t2c, closedT>>
  /\ profilerUnchanged

(* The process being profiled ends.                                           *)
TargetDies ==
  /\ alive
  /\ alive' = FALSE
  /\ h' = Fresh
  /\ tConn' = None
  /\ backlog' = <<>>
  /\ closedT' = Conns
  /\ c2t' = [c \in Conns |-> <<>>]
  /\ UNCHANGED t2c
  /\ profilerUnchanged

Target == Accept \/ Refuse \/ Execute \/ DropClient

Next == Profiler \/ Target \/ OtherLeaves \/ TargetDies

(* The profiler is a program that runs; the framework thread keeps polling.   *)
FairSpec == Init /\ [][Next]_vars /\ WF_vars(Profiler) /\ WF_vars(Target)

-----------------------------------------------------------------------------
Responses == [op : {"ping", "listProbes", "activatePerfEvents", "activatePmu", "activateProbe",
                    "beginProfile", "endProfile", "refused"},
              ok : BOOLEAN, enabled : SUBSET Probes]

(* The types of the variables; a command is sent only over a connection.      *)
TypeOK ==
  /\ opts \in Opts
  /\ pc \in Asking \cup {"start", "stop", "restart", "enable", "profiling", "release",
                         "report", "exit", "done"}
  /\ pc \in Asking \cup {"profiling"} => conn \in Conns
  /\ todo \in Seq(Keys)
  /\ pc = "probe" => todo # <<>>
  /\ part \in {"hdr", "body"}
  /\ garbled \in BOOLEAN
  /\ rpyc \subseteq Conns /\ linked \subseteq Conns
  /\ device \in BOOLEAN
  /\ elapsed \in 0 .. MaxElapsed
  /\ outcome \in {None, "notStarted", "failed", "fallback", "unclean", "ended"}
  /\ h \in State
  /\ tConn \in Conns \cup {None, Other}
  /\ \A c \in Conns : t2c[c] \in Seq(Responses)

(* While a session is set up, a response that is accepted is the response to  *)
(* the command just sent: pingApp leaves the connection on which a response   *)
(* may still be under way, and every later time out ends the session.         *)
SetUpInStep ==
  (pc \in SetUp /\ waiting # None /\ ~ garbled /\ t2c[conn] # <<>>)
    => /\ Head(t2c[conn]).op \in {waiting.op, "refused"}
       /\ Len(t2c[conn]) = 1 \/ t2c[conn][2].op = "refused"

(* As long as the loop of the profile runs and the target is connected, every *)
(* probe of the profile is active, a profile is collected, and samples carry  *)
(* counters if the profile asks for any, whatever an earlier profiler left.   *)
ProfiledAsAsked ==
  (pc \in {"profiling", "heartbeat"} /\ tConn = conn)
    => /\ h.profile
       /\ Verified(h.enabled)
       /\ opts.pmu # "none" => h.gp /\ h.recorder \in {"pmc", "perf"}

(* A session that was started has closed its connection to the target, and has *)
(* killed its rpyc servers, but for the server of a restart that could not be  *)
(* reached: Remote.__exit__ raises then. A session that got to its report      *)
(* has left no server, and has released the driver.                           *)
NothingHeld ==
  (pc = "done" /\ outcome # "notStarted") =>
    /\ conn = None
    /\ rpyc # {} => rpyc = {2} /\ 2 \notin linked /\ outcome \in {"failed", "fallback"}
    /\ outcome \in {"ended", "unclean"} => ~ device

(* A session with a duration comes to an end, however the target behaves: no  *)
(* key is needed, and no answer. It may end early, in an exception (below).   *)
SessionEnds == (opts.duration # None) ~> (pc = "done")

(* However the session goes, a profile it has begun is ended, and the target  *)
(* restored: by EndProfile, or because the connection is closed.              *)
TargetRestored == (h.profile /\ opts.duration # None) ~> Restored(h)

(* Claim of Profiler.profile: "The session is automatically terminated after  *)
(* elapse of duration seconds": the loop does not give up a profile before.   *)
DurationElapses ==
  [][(opts.duration # None /\ pc = "profiling" /\ pc' = "exit") => elapsed >= opts.duration]_vars

(* Claim of Remote.__exit__: "Bring down the server", also of a session whose *)
(* restart has failed.                                                        *)
ServerBroughtDown == (pc = "done" /\ outcome # "notStarted") => rpyc = {}

(* Claim of Runtime.report: "Ends samples collection and disconnects ...": when *)
(* it saw no failure, the samples are gathered after the profile has ended.   *)
EndedBeforeReport ==
  (pc = "report" /\ mode = "record" /\ outcome = None) => ~ h.profile

=============================================================================
