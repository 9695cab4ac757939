------------------------- MODULE ProfilerClientProofs -------------------------
(* What a session holds when it is over, and that it is in step with its       *)
(* target until then, for any profiles, probes and options, any number of time *)
(* outs, and a target that does anything a target may do.                      *)
EXTENDS ProfilerClient, SequenceTheorems, TLAPS

(* The driver is open only between the step that programs it and the one that  *)
(* releases it, or after a failure.                                            *)
NotProgrammed == {"start", "ping", "stop", "restart", "reping", "list", "enable", "report"}

(* The server of a start is killed before a restart, and the server of a       *)
(* restart unless it was not reached: the session has failed then.             *)
HostInv ==
  /\ pc \in {"start", "restart"} => rpyc = {}
  /\ pc \in {"start", "ping", "stop", "restart"} => 2 \notin linked
  /\ \/ rpyc \subseteq linked
     \/ rpyc = {2} /\ 2 \notin linked /\ pc \in {"exit", "done"} /\ outcome \in {"failed", "fallback"}
     \/ pc = "done" /\ outcome = "notStarted"
  /\ pc = "done" /\ outcome # "notStarted" =>
       conn = None /\ (rpyc # {} => rpyc = {2} /\ 2 \notin linked /\ outcome \in {"failed", "fallback"})

HoldInv ==
  /\ waiting # None => pc \in Asking
  /\ pc \in NotProgrammed => ~ device
  /\ pc \in {"exit", "done"} /\ outcome \in {None, "ended", "unclean"} => ~ device
  /\ HostInv

(* Where a command may lead: the driver is neither opened nor released there.  *)
Onward ==
  /\ pc' \notin {"done", "start", "restart", "ping"}
  /\ pc' = "stop" => pc = "ping"
  /\ pc' \in NotProgrammed => pc \in NotProgrammed
  /\ pc' = "exit" => outcome' \notin {None, "ended", "unclean"} \/ pc = "list"

(* A failure ends the session with a result that says so.                      *)
LEMMA FailOnward == ASSUME Fail PROVE Onward
BY NoneAssumption DEF Fail, Leave, Onward, NotProgrammed

(* An exception of a command, in each of its callers.                          *)
LEMMA RaiseOnward == ASSUME NEW kind, pc \in Asking, Raise(kind) PROVE Onward
BY FailOnward DEF Raise, Leave, Onward, NotProgrammed

(* The result of a command, in each of its callers.                            *)
LEMMA AcceptedOnward == ASSUME NEW rsp, pc \in Asking, Accepted(rsp) PROVE Onward
<1> USE DEF Leave, Onward, NotProgrammed
<1>1. CASE pc \in {"ping", "reping"}
  BY <1>1 DEF Accepted, AfterPing, ToCounters, ToResolve, ToProbes
<1>2. CASE pc \in {"list", "pmc", "probe", "begin", "heartbeat", "end"}
  BY <1>2 DEF Accepted
<1>3. CASE pc = "perf"
  BY <1>3 DEF Accepted, ToResolve, ToProbes
<1>4. CASE pc = "resolve"
  BY <1>4, FailOnward DEF Accepted, ToProbes
<1>5. CASE pc = "verify"
  BY <1>5, FailOnward DEF Accepted
<1> QED
  BY <1>1, <1>2, <1>3, <1>4, <1>5 DEF Asking, SetUp

(* A command that returns or raises keeps the invariant.                       *)
LEMMA OnwardInv ==
  ASSUME HoldInv, Onward, pc \in Asking, waiting' = None, UNCHANGED <<device, rpyc, linked>>
  PROVE  HoldInv'
<1>1. rpyc \subseteq linked
  BY DEF HoldInv, HostInv, Asking, SetUp
<1>2. HostInv'
  BY <1>1 DEF HoldInv, HostInv, Onward
<1> QED
  BY <1>2 DEF HoldInv, Onward, NotProgrammed

(* Nothing is held before the session starts.                                  *)
LEMMA HoldInit == Init => HoldInv
BY DEF Init, HoldInv, HostInv

(* The steps of a command.                                                     *)
LEMMA CommandInv ==
  ASSUME HoldInv, Send \/ ReadHeader \/ ReadBody \/ ReadGarbled \/ ReadFails \/ Timeout
  PROVE  HoldInv'
<1>1. CASE Send
  BY <1>1 DEF Send, HoldInv, HostInv, clientVars
<1>2. CASE ReadHeader
  BY <1>2 DEF ReadHeader, HoldInv, HostInv, readUnchanged
<1>3. CASE ReadBody
  BY <1>3, AcceptedOnward, RaiseOnward, OnwardInv DEF ReadBody, HoldInv, readUnchanged
<1>4. CASE ReadGarbled
  BY <1>4, RaiseOnward, OnwardInv DEF ReadGarbled, HoldInv, readUnchanged
<1>5. CASE ReadFails
  BY <1>5, RaiseOnward, OnwardInv DEF ReadFails, HoldInv, readUnchanged
<1>6. CASE Timeout
  BY <1>6, RaiseOnward, OnwardInv DEF Timeout, HoldInv, readUnchanged
<1> QED
  BY <1>1, <1>2, <1>3, <1>4, <1>5, <1>6

(* Starting, stopping, waiting, and what is done with the driver.              *)
LEMMA StepInv ==
  ASSUME HoldInv, Start \/ StopToRestart \/ Exit \/ EnablePMU \/ Wait \/ Release \/ Report
  PROVE  HoldInv'
<1> USE NoneAssumption DEF HoldInv, NotProgrammed
<1>1. CASE Start
  <2>1. PICK n \in {1, 2} :
          /\ n = IF pc = "start" THEN 1 ELSE 2
          /\ LaunchFails(n) \/ LinkFails(n) \/ AttachFails(n) \/ AttachDormant(n) \/ Attach(n)
    BY <1>1 DEF Start
  <2>2. pc \in {"start", "restart"} /\ rpyc = {} /\ 2 \notin linked /\ device' = device /\ waiting' = None
    BY <1>1 DEF Start, HostInv, Reset
  <2>3. CASE LaunchFails(n) \/ LinkFails(n)
    <3>1. rpyc' \in {{}, {n}} /\ linked' = linked
      BY <2>2, <2>3 DEF LaunchFails, LinkFails, Launched
    <3>2. CASE pc = "start"
      BY <2>2, <2>3, <3>2 DEF LaunchFails, LinkFails, StartFailed, HostInv
    <3>3. CASE pc = "restart"
      <4>1. pc' = "exit" /\ outcome' \in {"failed", "fallback"} /\ n = 2
        BY <2>1, <2>3, <3>3 DEF LaunchFails, LinkFails, StartFailed
      <4>2. HostInv'
        BY <2>2, <3>1, <4>1 DEF HostInv
      <4> QED
        BY <2>2, <4>1, <4>2
    <3> QED
      BY <2>2, <3>2, <3>3
  <2>4. CASE AttachFails(n) \/ AttachDormant(n) \/ Attach(n)
    <3>1. rpyc' \subseteq linked' /\ (n = 1 => 2 \notin linked')
      BY <2>2, <2>4 DEF AttachFails, AttachDormant, Attach, Launched, Linked
    <3>2. pc' \in {"exit", "report", "ping", "reping", "done"} /\ (pc' = "ping" => n = 1)
      BY <2>4 DEF AttachFails, AttachDormant, Attach, StartFailed
    <3>3. pc' \in {"exit", "done"} => outcome' \in {"notStarted", "failed", "fallback"}
                                   /\ (pc' = "done" => outcome' = "notStarted")
      BY <2>4 DEF AttachFails, AttachDormant, Attach, StartFailed
    <3>4. HostInv'
      BY <3>1, <3>2, <3>3 DEF HostInv
    <3> QED
      BY <2>2, <3>2, <3>3, <3>4
  <2> QED
    BY <2>1, <2>3, <2>4
<1>2. CASE StopToRestart
  <2>1. HostInv'
    BY <1>2 DEF StopToRestart, StopApp, HostInv
  <2> QED
    BY <1>2, <2>1 DEF StopToRestart, StopApp, Reset
<1>3. CASE Exit
  <2>1. /\ pc = "exit" /\ pc' = "done" /\ conn' = None /\ rpyc' = rpyc \ linked /\ linked' = linked
        /\ outcome' = (IF outcome = None THEN "ended" ELSE outcome)
    BY <1>3 DEF Exit, StopApp
  <2>2. HostInv'
    <3>1. CASE rpyc \subseteq linked
      BY <2>1, <3>1 DEF HostInv
    <3>2. CASE rpyc = {2} /\ 2 \notin linked /\ outcome \in {"failed", "fallback"}
      BY <2>1, <3>2 DEF HostInv
    <3> QED
      BY <2>1, <3>1, <3>2 DEF HostInv
  <2> QED
    BY <1>3, <2>1, <2>2 DEF Exit, StopApp, Reset
<1>4. CASE EnablePMU \/ Wait \/ Release \/ Report
  <2>1. /\ pc \in {"enable", "profiling", "release", "report"} /\ UNCHANGED <<rpyc, linked>>
        /\ pc' \notin {"start", "ping", "stop", "restart", "done"}
    BY <1>4 DEF EnablePMU, Wait, Release, Report, Fail, Leave, ToResolve, ToProbes, stepUnchanged
  <2>2. HostInv'
    BY <2>1 DEF HostInv
  <2>3. CASE EnablePMU
    BY <2>2, <2>3 DEF EnablePMU, Fail, Leave, ToResolve, ToProbes, stepUnchanged, frameVars, Asking, SetUp
  <2>4. CASE Wait
    BY <2>2, <2>4 DEF Wait, Leave, stepUnchanged, frameVars, Asking, SetUp
  <2>5. CASE Release
    BY <2>2, <2>5 DEF Release, Leave, stepUnchanged, frameVars, Asking, SetUp
  <2>6. CASE Report
    BY <2>2, <2>6 DEF Report, Leave, stepUnchanged, frameVars, Asking, SetUp
  <2> QED
    BY <1>4, <2>3, <2>4, <2>5, <2>6
<1> QED
  BY <1>1, <1>2, <1>3, <1>4

(* Every step keeps the invariant; what the target does cannot disturb it.     *)
LEMMA HoldNext == HoldInv /\ [Next]_vars => HoldInv'
<1> SUFFICES ASSUME HoldInv, [Next]_vars PROVE HoldInv'
  OBVIOUS
<1>1. CASE Profiler
  BY <1>1, CommandInv, StepInv DEF Profiler
<1>2. CASE Target \/ OtherLeaves \/ TargetDies
  BY <1>2 DEF HoldInv, HostInv, Target, Accept, Refuse, Execute, DropClient, OtherLeaves, TargetDies,
              profilerUnchanged, frameVars, clientVars
<1>3. CASE UNCHANGED vars
  BY <1>3 DEF HoldInv, HostInv, vars, frameVars, clientVars
<1> QED
  BY <1>1, <1>2, <1>3 DEF Next

(* However the target behaves and whatever command fails, a session that was   *)
(* started ends without a connection to the target; an rpyc server is left     *)
(* running by a restart that could not reach it only; and a session that got   *)
(* to its report leaves the driver closed (XpediteApp.stop, Runtime.report).   *)
THEOREM NothingHeldHolds == FairSpec => []NothingHeld
<1>1. HoldInv => NothingHeld
  BY DEF HoldInv, HostInv, NothingHeld
<1> QED
  BY <1>1, HoldInit, HoldNext, PTL DEF FairSpec

-----------------------------------------------------------------------------
(* A session in step with its target.                                          *)

Running == SetUp \cup {"enable", "profiling", "heartbeat"}
(* A response has come on the connection.                                      *)
Heard == Running \ {"ping", "reping"}

Queued(c) == \E i \in DOMAIN backlog : backlog[i] = c
Unused(c) == /\ c2t[c] = <<>> /\ t2c[c] = <<>>
             /\ tConn # c /\ ~ Queued(c) /\ c \notin closedC

(* The two connections of a session are used one after the other, and a        *)
(* connection is accepted or refused once.                                     *)
ConnInv ==
  /\ backlog \in {<<>>, <<1>>, <<2>>, <<1, 2>>}
  /\ \A c \in Conns : Queued(c) => t2c[c] = <<>> /\ tConn # c
  /\ conn \in Conns \cup {None} /\ closedC \subseteq Conns /\ closedT \subseteq Conns
  /\ pc \in Running => conn \in Conns
  /\ pc \in Heard => ~ Queued(conn)
  /\ pc = "start" => conn = None /\ closedC = {} /\ Unused(1) /\ Unused(2)
  /\ pc = "restart" => conn = None /\ Unused(2)
  /\ pc \in {"ping", "stop"} => conn = 1
  /\ pc = "reping" => conn = 2
  /\ conn = 1 => closedC = {} /\ Unused(2)
  /\ conn = 2 => closedC \subseteq {1}

WireType ==
  /\ c2t \in [Conns -> Seq(Commands)]
  /\ t2c \in [Conns -> Seq(Responses)]

(* What the profiler awaits in a step.                                         *)
Awaits ==
  waiting # None =>
    /\ waiting \in Commands
    /\ pc = "pmc" => waiting = EnableCounters
    /\ pc = "probe" => waiting.op = "activateProbe"
    /\ pc = "verify" => waiting = GetProbes
    /\ pc = "begin" => waiting = BeginSamples
    /\ pc = "heartbeat" => waiting = [op |-> "ping"]

(* Nothing but the last command or its response is in the connection.          *)
OneAtATime ==
  pc \in Running =>
    /\ ~ garbled
    /\ waiting = None =>
         /\ c2t[conn] = <<>>
         /\ t2c[conn] # <<>> => /\ Len(t2c[conn]) = 1 /\ conn \in closedT
                                /\ t2c[conn][1].op = "refused" /\ ~ t2c[conn][1].ok
    /\ waiting # None =>
         /\ c2t[conn] # <<>> => c2t[conn] = <<waiting>> /\ t2c[conn] = <<>>
         /\ t2c[conn] # <<>> => /\ Len(t2c[conn]) = 1
                                /\ \/ t2c[conn][1].op = waiting.op
                                   \/ t2c[conn][1].op = "refused" /\ ~ t2c[conn][1].ok

(* What a response says that has not been read.                                *)
Answer ==
  (pc \in Running /\ waiting # None /\ tConn = conn /\ t2c[conn] # <<>> /\ t2c[conn][1].ok) =>
    /\ pc = "pmc" => h.gp
    /\ pc = "verify" => t2c[conn][1].enabled = h.enabled
    /\ pc = "begin" => h.profile

(* What is done when the profiler gets to a step.                              *)
Prepared ==
  (pc \in Heard /\ tConn = conn) =>
    /\ opts.pmu # "none" /\ pc \in {"probe", "verify", "begin", "profiling", "heartbeat"} => h.gp
    /\ pc \in {"begin", "profiling", "heartbeat"} => Verified(h.enabled)
    /\ pc \in {"profiling", "heartbeat"} => h.profile

Recorded == PmcCount(h) => h.recorder \in {"pmc", "perf"}

(* The inductive invariant.                                                    *)
SessionInv ==
  /\ TypeOK /\ HoldInv /\ ConnInv /\ WireType
  /\ Awaits /\ OneAtATime /\ Answer /\ Prepared /\ Recorded

-----------------------------------------------------------------------------
(* What the steps of the profiler do, in each caller of admin.                 *)

PCs == Asking \cup {"start", "stop", "restart", "enable", "profiling", "release",
                    "report", "exit", "done"}
Outcome == {None, "notStarted", "failed", "fallback", "unclean", "ended"}

(* Types are kept where the profiler goes on.                                  *)
Moved ==
  /\ pc' \in PCs
  /\ todo' \in Seq(Keys) /\ (pc' = "probe" => todo' # <<>>)
  /\ outcome' \in Outcome

(* The step a command or the driver leads to.                                  *)
Follows(listed) ==
  /\ pc' \notin {"ping", "reping", "start", "restart", "stop", "heartbeat", "done"}
  /\ pc' \in Running \cup {"end"} => pc \in Running
  /\ opts.pmu # "none" /\ pc' \in {"probe", "verify", "begin", "profiling"}
       => pc \in {"pmc", "probe", "verify", "begin", "heartbeat"}
  /\ pc' = "begin" => pc = "verify" /\ Verified(listed)
  /\ pc' = "profiling" => pc \in {"begin", "heartbeat"}

(* A profile names probes.                                                     *)
LEMMA ProfileType == TypeOK => opts.probes \in Seq(Keys) /\ opts.probes # <<>>
<1>. SUFFICES ASSUME TypeOK PROVE opts.probes \in Seq(Keys) /\ opts.probes # <<>>
  OBVIOUS
<1>1. opts.probes \in Profiles
  BY DEF TypeOK, Opts
<1>2. opts.probes \in Seq(Keys) /\ Len(opts.probes) >= 2
  BY <1>1, ProfilesAssumption
<1>. QED  BY <1>2

(* Leaving a step of the session is a move of the session.                     *)
LEMMA LeaveMoves ==
  ASSUME TypeOK, NEW next \in PCs, NEW result \in Outcome, Leave(next, result)
  PROVE  Moved
BY ProfileType DEF Leave, Moved, TypeOK

(* So is giving it up.                                                         *)
LEMMA FailMoves == ASSUME TypeOK, Fail PROVE Moved /\ pc' = "exit"
<1>1. Leave("exit", IF mode = "probes" THEN "fallback" ELSE "failed")
  BY DEF Fail
<1>2. pc' = "exit"
  BY <1>1 DEF Leave
<1>3. "exit" \in PCs /\ (IF mode = "probes" THEN "fallback" ELSE "failed") \in Outcome
  BY DEF PCs, Outcome
<1>. QED  BY <1>1, <1>2, <1>3, LeaveMoves

(* An exception leaves the steps of a running session.                         *)
LEMMA RaiseMoves ==
  ASSUME TypeOK, pc \in Asking, NEW kind, Raise(kind)
  PROVE  Moved /\ pc' \in {"stop", "end", "release", "exit"} /\ (pc' = "stop" => pc = "ping")
               /\ (pc' = "end" => pc = "heartbeat")
<1>. USE DEF PCs, Outcome, Asking
<1>1. CASE pc = "ping" /\ Leave("stop", outcome)
  BY <1>1, LeaveMoves DEF Leave, TypeOK
<1>2. CASE pc = "heartbeat" /\ Leave("end", outcome)
  BY <1>2, LeaveMoves DEF Leave, TypeOK
<1>3. CASE pc = "end" /\ Leave("release", "unclean")
  BY <1>3, LeaveMoves DEF Leave, TypeOK
<1>4. CASE Fail
  BY <1>4, FailMoves
<1>. QED  BY <1>1, <1>2, <1>3, <1>4 DEF Raise

(* Where the session goes after a step.                                        *)
LEMMA NextSteps ==
  /\ ToProbes \in {"probe", "pmc"} /\ (opts.pmu # "none" => ToProbes = "pmc")
  /\ ToResolve \in {"probe", "pmc", "resolve"} /\ (opts.pmu # "none" => ToResolve # "probe")
  /\ TypeOK => AfterPing \in {"list", "enable", "perf", "probe", "resolve"}
               /\ (opts.pmu # "none" => AfterPing # "probe")
<1>1. ToProbes \in {"probe", "pmc"} /\ (opts.pmu # "none" => ToProbes = "pmc")
  BY DEF ToProbes
<1>2. ToResolve \in {"probe", "pmc", "resolve"} /\ (opts.pmu # "none" => ToResolve # "probe")
  BY <1>1 DEF ToResolve
<1>3. opts.pmu = "none" => ToResolve \in {"probe", "resolve"}
  BY DEF ToResolve, ToProbes
<1>4. TypeOK => opts.pmu \in {"none", "driver", "perf"}
  BY DEF TypeOK, Opts
<1>. QED  BY <1>1, <1>2, <1>3, <1>4 DEF AfterPing, ToCounters

(* A result leads to the next step.                                            *)
LEMMA AcceptedMoves ==
  ASSUME TypeOK, pc \in Asking, NEW rsp, Accepted(rsp)
  PROVE  Moved /\ Follows(rsp.enabled)
<1>. USE DEF PCs, Outcome, Asking, SetUp
<1>0. outcome \in Outcome
  BY DEF TypeOK
<1>1. CASE pc \in {"ping", "reping"} /\ Leave(AfterPing, outcome)
  <2>1. AfterPing \in {"list", "enable", "perf", "probe", "resolve"}
        /\ (opts.pmu # "none" => AfterPing # "probe")
    BY NextSteps
  <2>2. Moved
    BY <1>0, <1>1, <2>1, LeaveMoves
  <2>. QED  BY <1>1, <2>1, <2>2 DEF Follows, Leave, Running
<1>2. CASE pc = "list" /\ Leave("exit", "ended")
  BY <1>2, LeaveMoves DEF Follows, Leave, Running
<1>3. CASE pc = "perf" /\ Leave(ToResolve, outcome)
  <2>1. ToResolve \in {"probe", "pmc", "resolve"} /\ (opts.pmu # "none" => ToResolve # "probe")
    BY NextSteps
  <2>2. Moved
    BY <1>0, <1>3, <2>1, LeaveMoves
  <2>. QED  BY <1>3, <2>1, <2>2 DEF Follows, Leave, Running
<1>4. CASE pc = "resolve" /\ IF Resolved THEN Leave(ToProbes, outcome) ELSE Fail
  <2>1. ToProbes \in {"probe", "pmc"} /\ (opts.pmu # "none" => ToProbes = "pmc")
    BY NextSteps
  <2>2. CASE Leave(ToProbes, outcome)
    <3>1. Moved
      BY <1>0, <2>1, <2>2, LeaveMoves
    <3>. QED  BY <1>4, <2>1, <2>2, <3>1 DEF Follows, Leave, Running
  <2>3. CASE Fail
    BY <2>3, FailMoves DEF Follows, Running
  <2>. QED  BY <1>4, <2>2, <2>3
<1>5. CASE pc = "pmc" /\ Leave("probe", outcome)
  BY <1>0, <1>5, LeaveMoves DEF Follows, Leave, Running
<1>6. CASE /\ pc = "probe" /\ todo' = Tail(todo)
           /\ pc' = (IF Len(todo) = 1 THEN "verify" ELSE "probe")
           /\ UNCHANGED outcome
  <2>1. todo \in Seq(Keys) /\ todo # <<>>
    BY <1>6 DEF TypeOK
  <2>2. Tail(todo) \in Seq(Keys) /\ (Len(todo) # 1 => Tail(todo) # <<>>)
    <3>1. Tail(todo) \in Seq(Keys) /\ Len(Tail(todo)) = Len(todo) - 1 /\ Len(todo) \in Nat
      BY <2>1, HeadTailProperties, LenProperties
    <3>2. Len(todo) # 1 => Len(Tail(todo)) # 0
      BY <3>1
    <3>. QED  BY <3>1, <3>2, EmptySeq
  <2>. QED  BY <1>0, <1>6, <2>2 DEF Moved, Follows, Running
<1>7. CASE pc = "verify" /\ IF Verified(rsp.enabled) THEN Leave("begin", outcome) ELSE Fail
  <2>1. CASE Verified(rsp.enabled) /\ Leave("begin", outcome)
    BY <1>0, <1>7, <2>1, LeaveMoves DEF Follows, Leave, Running
  <2>2. CASE Fail
    BY <2>2, FailMoves DEF Follows, Running
  <2>. QED  BY <1>7, <2>1, <2>2
<1>8. CASE pc \in {"begin", "heartbeat"} /\ Leave("profiling", outcome)
  BY <1>0, <1>8, LeaveMoves DEF Follows, Leave, Running
<1>9. CASE pc = "end" /\ Leave("release", outcome)
  BY <1>0, <1>9, LeaveMoves DEF Follows, Leave, Running
<1>. QED  BY <1>1, <1>2, <1>3, <1>4, <1>5, <1>6, <1>7, <1>8, <1>9 DEF Accepted

-----------------------------------------------------------------------------
(* The steps of a command keep the invariant.                                  *)

(* A command is outstanding only in a step that asks one.                      *)
LEMMA WhileAsking ==
  ASSUME SessionInv, waiting # None
  PROVE  pc \in Asking /\ conn \in Conns /\ t2c[conn] \in Seq(Responses) /\ c2t[conn] \in Seq(Commands)
BY DEF SessionInv, HoldInv, TypeOK, WireType

(* A command that is over, with nothing of it left in the connection if the    *)
(* session goes on.                                                            *)
LEMMA ReturnKeeps ==
  ASSUME SessionInv, waiting # None, HoldInv', Moved, waiting' = None,
         part' \in {"hdr", "body"}, garbled' \in BOOLEAN, readUnchanged,
         t2c' \in [Conns -> Seq(Responses)], \A c \in Conns : t2c[c] = <<>> => t2c'[c] = <<>>,
         pc' \notin {"ping", "reping", "start", "restart"}, pc' = "stop" => pc = "ping",
         pc' \in Running => /\ c2t[conn] = <<>> /\ t2c'[conn] = <<>> /\ t2c[conn] # <<>>
                            /\ ~ garbled',
         Prepared'
  PROVE  SessionInv'
<1>1. pc \in Asking /\ conn \in Conns
  BY WhileAsking
<1>2. /\ mode' = mode /\ opts' = opts /\ conn' = conn /\ rpyc' = rpyc /\ linked' = linked /\ device' = device
      /\ elapsed' = elapsed /\ h' = h /\ alive' = alive /\ tConn' = tConn /\ backlog' = backlog
      /\ c2t' = c2t /\ closedC' = closedC /\ closedT' = closedT
  BY DEF readUnchanged, targetVars
<1>3. TypeOK /\ ConnInv /\ WireType /\ Recorded
  BY DEF SessionInv
<1>4. TypeOK'
  BY <1>1, <1>2, <1>3 DEF TypeOK, Moved, PCs, Outcome
<1>5. WireType'
  BY <1>2, <1>3 DEF WireType
<1>6. \A c \in Conns : (Queued(c))' <=> Queued(c)
  BY <1>2 DEF Queued
<1>7. Unused(2) => (Unused(2))'
  BY <1>2, <1>6 DEF Unused, Conns
<1>8. ConnInv'
  <2>1. \A c \in Conns : (Queued(c))' => t2c'[c] = <<>> /\ tConn' # c
    BY <1>2, <1>3, <1>6 DEF ConnInv
  <2>2. pc' \in Running => ~ (Queued(conn))'
    BY <1>1, <1>2, <1>3, <1>6 DEF ConnInv
  <2>3. pc' \in Heard => pc' \in Running
    BY DEF Heard
  <2>. QED  BY <1>1, <1>2, <1>3, <1>7, <2>1, <2>2, <2>3 DEF ConnInv
<1>9. OneAtATime' /\ Answer' /\ Awaits'
  BY <1>2 DEF OneAtATime, Answer, Awaits
<1>10. Recorded'
  BY <1>2, <1>3 DEF Recorded
<1>. QED  BY <1>4, <1>5, <1>8, <1>9, <1>10 DEF SessionInv

(* A command that fails ends the steps of a running session.                   *)
LEMMA FailureKeeps ==
  ASSUME SessionInv, waiting # None, HoldInv', NEW kind, Raise(kind), waiting' = None,
         part' \in {"hdr", "body"}, garbled' \in BOOLEAN, readUnchanged,
         t2c' \in [Conns -> Seq(Responses)], \A c \in Conns : t2c[c] = <<>> => t2c'[c] = <<>>
  PROVE  SessionInv'
<1>1. pc \in Asking /\ TypeOK
  BY WhileAsking DEF SessionInv
<1>2. Moved /\ pc' \in {"stop", "end", "release", "exit"} /\ (pc' = "stop" => pc = "ping")
  BY <1>1, RaiseMoves
<1>3. pc' \notin Running
  BY <1>2 DEF Running, SetUp
<1>4. Prepared'
  BY <1>3 DEF Prepared, Heard
<1>. QED  BY <1>2, <1>3, <1>4, ReturnKeeps

(* Reading a response takes it off its connection and no other.                *)
LEMMA TailOnly ==
  ASSUME SessionInv, waiting # None, t2c[conn] # <<>>, t2c' = [t2c EXCEPT ![conn] = Tail(@)]
  PROVE  /\ t2c' \in [Conns -> Seq(Responses)] /\ \A c \in Conns : t2c[c] = <<>> => t2c'[c] = <<>>
         /\ t2c'[conn] = Tail(t2c[conn])
<1>1. conn \in Conns /\ t2c[conn] \in Seq(Responses) /\ t2c \in [Conns -> Seq(Responses)]
  BY WhileAsking DEF SessionInv, WireType
<1>2. Tail(t2c[conn]) \in Seq(Responses)
  BY <1>1
<1>. QED  BY <1>1, <1>2

(* The answer to a command is read.                                            *)
LEMMA ReadBodyKeeps == ASSUME SessionInv, HoldInv', ReadBody PROVE SessionInv'
<1>. DEFINE rsp == Head(t2c[conn])
<1>1. /\ waiting # None /\ t2c[conn] # <<>> /\ t2c' = [t2c EXCEPT ![conn] = Tail(@)]
      /\ waiting' = None /\ part' = "hdr" /\ garbled' = garbled /\ readUnchanged
      /\ (rsp.ok /\ Accepted(rsp)) \/ (~ rsp.ok /\ Raise("status"))
  BY DEF ReadBody
<1>2. pc \in Asking /\ conn \in Conns /\ t2c[conn] \in Seq(Responses) /\ TypeOK
  BY <1>1, WhileAsking DEF SessionInv
<1>3. garbled' \in BOOLEAN
  BY <1>1, <1>2 DEF TypeOK
<1>4. /\ t2c' \in [Conns -> Seq(Responses)] /\ \A c \in Conns : t2c[c] = <<>> => t2c'[c] = <<>>
      /\ t2c'[conn] = Tail(t2c[conn])
  BY <1>1, TailOnly
<1>5. CASE ~ rsp.ok /\ Raise("status")
  BY <1>1, <1>3, <1>4, <1>5, FailureKeeps
<1>6. CASE rsp.ok /\ Accepted(rsp)
  <2>1. Moved /\ Follows(rsp.enabled)
    BY <1>2, <1>6, AcceptedMoves
  <2>2. rsp = t2c[conn][1]
    BY <1>1, <1>2
  <2>3. pc \in Running => /\ c2t[conn] = <<>> /\ Len(t2c[conn]) = 1 /\ ~ garbled
    BY <1>1, <2>2, <1>6 DEF SessionInv, OneAtATime
  <2>4. Len(t2c[conn]) = 1 => t2c'[conn] = <<>>
    <3>1. Len(t2c[conn]) = 1 => Len(Tail(t2c[conn])) = 0 /\ Tail(t2c[conn]) \in Seq(Responses)
      BY <1>1, <1>2, HeadTailProperties
    <3>. QED  BY <3>1, <1>4, EmptySeq
  <2>5. tConn' = tConn /\ conn' = conn /\ h' = h /\ opts' = opts
    BY <1>1 DEF readUnchanged, targetVars
  <2>6. Prepared'
    <3>. SUFFICES ASSUME pc' \in Heard, tConn = conn
                  PROVE  /\ opts.pmu # "none" /\ pc' \in {"probe", "verify", "begin", "profiling", "heartbeat"} => h.gp
                         /\ pc' \in {"begin", "profiling", "heartbeat"} => Verified(h.enabled)
                         /\ pc' \in {"profiling", "heartbeat"} => h.profile
      BY <2>5 DEF Prepared, Verified, Asked
    <3>1. pc \in Running
      BY <2>1 DEF Follows, Heard
    <3>2. /\ pc = "pmc" => h.gp
          /\ pc = "verify" => rsp.enabled = h.enabled
          /\ pc = "begin" => h.profile
      BY <1>1, <1>6, <2>2, <3>1 DEF SessionInv, Answer
    <3>3. pc \in Heard =>
          /\ opts.pmu # "none" /\ pc \in {"probe", "verify", "begin", "profiling", "heartbeat"} => h.gp
          /\ pc \in {"begin", "profiling", "heartbeat"} => Verified(h.enabled)
          /\ pc \in {"profiling", "heartbeat"} => h.profile
      BY DEF SessionInv, Prepared
    <3>. QED  BY <2>1, <3>2, <3>3 DEF Follows, Heard, Running, SetUp
  <2>. QED  BY <1>1, <1>3, <1>4, <2>1, <2>3, <2>4, <2>6, ReturnKeeps DEF Follows
<1>. QED  BY <1>1, <1>5, <1>6

(* The answer to a command does not come.                                      *)
LEMMA ReadFailsKeeps ==
  ASSUME SessionInv, HoldInv', ReadGarbled \/ ReadFails \/ Timeout
  PROVE  SessionInv'
<1>1. TypeOK /\ t2c \in [Conns -> Seq(Responses)]
  BY DEF SessionInv, WireType
<1>2. CASE ReadGarbled
  BY <1>1, <1>2, FailureKeeps DEF ReadGarbled, TypeOK
<1>3. CASE ReadFails
  BY <1>1, <1>3, FailureKeeps DEF ReadFails, TypeOK
<1>4. CASE Timeout
  BY <1>1, <1>4, FailureKeeps DEF Timeout, TypeOK
<1>. QED  BY <1>2, <1>3, <1>4

(* Every step sends a command, and the ones that matter their own.             *)
LEMMA CommandOfStep ==
  ASSUME TypeOK, pc \in Asking
  PROVE  /\ Cmd \in Commands /\ Cmd # None
         /\ pc = "pmc" => Cmd = EnableCounters
         /\ pc = "probe" => Cmd.op = "activateProbe"
         /\ pc = "verify" => Cmd = GetProbes
         /\ pc = "begin" => Cmd = BeginSamples
         /\ pc = "heartbeat" => Cmd = [op |-> "ping"]
<1>1. CASE pc \in {"ping", "reping", "heartbeat"}
  <2>1. Cmd = [op |-> "ping"]
    BY <1>1 DEF Cmd
  <2>2. [op |-> "ping"] \in Commands
    BY DEF Commands
  <2>. QED  BY <1>1, <2>1, <2>2, NoneIsNoCommand
<1>2. CASE pc \in {"list", "resolve", "verify"}
  <2>1. Cmd = GetProbes
    BY <1>2 DEF Cmd
  <2>2. GetProbes \in Commands
    BY DEF Commands
  <2>. QED  BY <1>2, <2>1, <2>2, NoneIsNoCommand
<1>3. CASE pc = "perf"
  <2>1. Cmd = EnablePerf
    BY <1>3 DEF Cmd
  <2>2. EnablePerf \in Commands
    BY DEF Commands
  <2>. QED  BY <1>3, <2>1, <2>2, NoneIsNoCommand
<1>4. CASE pc = "pmc"
  <2>1. Cmd = EnableCounters
    BY <1>4 DEF Cmd
  <2>2. EnableCounters \in Commands
    BY DEF Commands
  <2>. QED  BY <1>4, <2>1, <2>2, NoneIsNoCommand
<1>5. CASE pc = "probe"
  <2>1. Cmd = UpdateProbe(Head(todo))
    BY <1>5 DEF Cmd
  <2>2. Head(todo) \in Keys
    BY <1>5 DEF TypeOK
  <2>3. UpdateProbe(Head(todo)) \in Commands
    BY <2>2 DEF Commands
  <2>4. Cmd.op = "activateProbe"
    BY <2>1 DEF UpdateProbe
  <2>. QED  BY <1>5, <2>1, <2>3, <2>4, NoneIsNoCommand
<1>6. CASE pc = "begin"
  <2>1. Cmd = BeginSamples
    BY <1>6 DEF Cmd
  <2>2. BeginSamples \in Commands
    BY DEF Commands
  <2>. QED  BY <1>6, <2>1, <2>2, NoneIsNoCommand
<1>7. CASE pc = "end"
  <2>1. Cmd = [op |-> "endProfile"]
    BY <1>7 DEF Cmd
  <2>2. [op |-> "endProfile"] \in Commands
    BY DEF Commands
  <2>. QED  BY <1>7, <2>1, <2>2, NoneIsNoCommand
<1>. QED  BY <1>1, <1>2, <1>3, <1>4, <1>5, <1>6, <1>7 DEF Asking, SetUp

(* A command is sent.                                                          *)
LEMMA SendKeeps == ASSUME SessionInv, HoldInv', Send PROVE SessionInv'
<1>1. /\ pc \in Asking /\ waiting = None /\ waiting' = Cmd /\ part' = "hdr" /\ pc' = pc
      /\ c2t' = IF conn \in closedT THEN c2t ELSE [c2t EXCEPT ![conn] = Append(@, Cmd)]
      /\ garbled' = garbled /\ mode' = mode /\ opts' = opts /\ todo' = todo /\ conn' = conn
      /\ rpyc' = rpyc /\ linked' = linked /\ device' = device /\ elapsed' = elapsed /\ timeouts' = timeouts
      /\ outcome' = outcome /\ h' = h /\ alive' = alive /\ tConn' = tConn /\ backlog' = backlog
      /\ t2c' = t2c /\ closedC' = closedC /\ closedT' = closedT
  BY DEF Send, clientVars, targetVars
<1>2. TypeOK /\ ConnInv /\ WireType /\ OneAtATime /\ Prepared /\ Recorded
  BY DEF SessionInv
<1>3. conn \in Conns /\ c2t[conn] \in Seq(Commands)
  BY <1>1, <1>2 DEF TypeOK, WireType
<1>4. /\ Cmd \in Commands /\ Cmd # None
      /\ pc = "pmc" => Cmd = EnableCounters
      /\ pc = "probe" => Cmd.op = "activateProbe"
      /\ pc = "verify" => Cmd = GetProbes
      /\ pc = "begin" => Cmd = BeginSamples
      /\ pc = "heartbeat" => Cmd = [op |-> "ping"]
  BY <1>1, <1>2, CommandOfStep
<1>5. TypeOK'
  BY <1>1, <1>2 DEF TypeOK
<1>6. /\ c2t' \in [Conns -> Seq(Commands)] /\ \A c \in Conns : c # conn => c2t'[c] = c2t[c]
      /\ c2t'[conn] = IF conn \in closedT THEN c2t[conn] ELSE Append(c2t[conn], Cmd)
  <2>1. Append(c2t[conn], Cmd) \in Seq(Commands)
    BY <1>3, <1>4, AppendProperties
  <2>. HIDE DEF Cmd
  <2>. QED  BY <1>1, <1>2, <1>3, <2>1 DEF WireType
<1>7. ConnInv'
  <2>1. \A c \in Conns : (Queued(c))' <=> Queued(c)
    BY <1>1 DEF Queued
  <2>2. conn = 1 => (Unused(2) => (Unused(2))')
    BY <1>1, <1>6, <2>1 DEF Unused, Conns
  <2>. QED  BY <1>1, <1>2, <1>3, <2>1, <2>2, NoneAssumption DEF ConnInv, Asking, SetUp
<1>8. Awaits'
  BY <1>1, <1>4 DEF Awaits
<1>9. OneAtATime'
  <2>. SUFFICES ASSUME pc \in Running
                PROVE  /\ ~ garbled
                       /\ c2t'[conn] # <<>> => c2t'[conn] = <<Cmd>> /\ t2c[conn] = <<>>
                       /\ t2c[conn] # <<>> => /\ Len(t2c[conn]) = 1
                                              /\ \/ t2c[conn][1].op = Cmd.op
                                                 \/ t2c[conn][1].op = "refused" /\ ~ t2c[conn][1].ok
    BY <1>1, <1>4 DEF OneAtATime
  <2>1. /\ ~ garbled /\ c2t[conn] = <<>>
        /\ t2c[conn] # <<>> => /\ Len(t2c[conn]) = 1 /\ conn \in closedT
                               /\ t2c[conn][1].op = "refused" /\ ~ t2c[conn][1].ok
    BY <1>1, <1>2 DEF OneAtATime
  <2>2. Append(<<>>, Cmd) = <<Cmd>>
    OBVIOUS
  <2>. HIDE DEF Cmd
  <2>3. conn \in closedT => c2t'[conn] = <<>>
    BY <1>6, <2>1
  <2>4. conn \notin closedT => c2t'[conn] = <<Cmd>> /\ t2c[conn] = <<>>
    BY <1>6, <2>1, <2>2
  <2>. QED  BY <2>1, <2>3, <2>4
<1>10. Answer'
  BY <1>1, <1>2 DEF Answer, OneAtATime
<1>11. Prepared'
  BY <1>1, <1>2 DEF Prepared, Verified, Asked
<1>12. WireType' /\ Recorded'
  BY <1>1, <1>2, <1>6 DEF WireType, Recorded
<1>. QED  BY <1>5, <1>7, <1>8, <1>9, <1>10, <1>11, <1>12 DEF SessionInv

(* The header of an answer is read.                                            *)
LEMMA ReadHeaderKeeps == ASSUME SessionInv, HoldInv', ReadHeader PROVE SessionInv'
<1>1. /\ part' = "body" /\ pc' = pc /\ waiting' = waiting /\ garbled' = garbled /\ todo' = todo
      /\ outcome' = outcome /\ t2c' = t2c /\ opts' = opts /\ conn' = conn /\ rpyc' = rpyc /\ linked' = linked
      /\ device' = device /\ elapsed' = elapsed /\ h' = h /\ tConn' = tConn /\ backlog' = backlog
      /\ c2t' = c2t /\ closedC' = closedC /\ closedT' = closedT
  BY DEF ReadHeader, readUnchanged, targetVars
<1>2. TypeOK /\ ConnInv /\ WireType /\ Awaits /\ OneAtATime /\ Answer /\ Prepared /\ Recorded
  BY DEF SessionInv
<1>3. TypeOK'
  BY <1>1, <1>2 DEF TypeOK
<1>4. ConnInv'
  BY <1>1, <1>2 DEF ConnInv, Queued, Unused
<1>5. WireType' /\ Awaits' /\ OneAtATime' /\ Answer' /\ Recorded'
  BY <1>1, <1>2 DEF WireType, Awaits, OneAtATime, Answer, Recorded
<1>6. Prepared'
  BY <1>1, <1>2 DEF Prepared, Verified, Asked
<1>. QED  BY <1>3, <1>4, <1>5, <1>6 DEF SessionInv

-----------------------------------------------------------------------------
(* The other steps of the profiler keep it.                                    *)

(* A step between two commands.                                                *)
LEMMA StepKeeps ==
  ASSUME SessionInv, HoldInv', pc \notin Asking, stepUnchanged, Moved,
         elapsed' \in 0 .. MaxElapsed, device' \in BOOLEAN,
         pc' \notin {"ping", "reping", "start", "restart", "stop"},
         pc' \in Running \cup Asking => pc \in Heard,
         Prepared'
  PROVE  SessionInv'
<1>1. /\ opts' = opts /\ conn' = conn /\ rpyc' = rpyc /\ linked' = linked /\ h' = h /\ tConn' = tConn
      /\ waiting' = waiting /\ part' = part /\ garbled' = garbled /\ backlog' = backlog
      /\ c2t' = c2t /\ t2c' = t2c /\ closedC' = closedC /\ closedT' = closedT
  BY DEF stepUnchanged, targetVars, wireVars, frameVars
<1>2. TypeOK /\ ConnInv /\ WireType /\ OneAtATime /\ Recorded /\ waiting = None
  BY DEF SessionInv, HoldInv
<1>3. pc \in Heard => conn \in Conns /\ ~ Queued(conn)
  BY <1>2 DEF ConnInv, Heard
<1>4. TypeOK'
  <2>1. pc' \in Asking \cup {"profiling"} => conn' \in Conns
    BY <1>1, <1>3 DEF Running
  <2>. QED  BY <1>1, <1>2, <2>1 DEF TypeOK, Moved, PCs, Outcome
<1>5. \A c \in Conns : (Queued(c))' <=> Queued(c)
  BY <1>1 DEF Queued
<1>6. \A c \in Conns : (Unused(c))' <=> Unused(c)
  BY <1>1, <1>5 DEF Unused
<1>7. ConnInv'
  <2>1. pc' \in Running => conn' \in Conns
    BY <1>1, <1>3
  <2>2. pc' \in Heard => ~ (Queued(conn))'
    BY <1>1, <1>3, <1>5 DEF Heard
  <2>. QED  BY <1>1, <1>2, <1>5, <1>6, <2>1, <2>2 DEF ConnInv, Conns
<1>8. WireType' /\ Awaits' /\ Answer' /\ Recorded'
  BY <1>1, <1>2 DEF WireType, Awaits, Answer, Recorded
<1>9. OneAtATime'
  BY <1>1, <1>2 DEF OneAtATime, Heard
<1>. QED  BY <1>4, <1>7, <1>8, <1>9 DEF SessionInv

(* The PMU is enabled.                                                         *)
LEMMA EnableKeeps == ASSUME SessionInv, HoldInv', EnablePMU PROVE SessionInv'
<1>1. /\ pc = "enable" /\ stepUnchanged /\ elapsed' = elapsed /\ device' \in {device, TRUE}
      /\ Fail \/ Leave(ToResolve, outcome)
  BY DEF EnablePMU
<1>2. TypeOK
  BY DEF SessionInv
<1>3. pc \notin Asking /\ pc \in Heard
  BY <1>1 DEF Asking, SetUp, Heard, Running
<1>4. elapsed' \in 0 .. MaxElapsed /\ device' \in BOOLEAN
  BY <1>1, <1>2 DEF TypeOK
<1>5. CASE Fail
  <2>1. Moved /\ pc' = "exit"
    BY <1>2, <1>5, FailMoves
  <2>2. Prepared'
    BY <2>1 DEF Prepared, Heard, Running, SetUp
  <2>. QED  BY <1>1, <1>3, <1>4, <2>1, <2>2, StepKeeps
<1>6. CASE Leave(ToResolve, outcome)
  <2>1. ToResolve \in {"probe", "pmc", "resolve"} /\ (opts.pmu # "none" => ToResolve # "probe")
    BY NextSteps
  <2>2. Moved
    BY <1>2, <1>6, <2>1, LeaveMoves DEF PCs, Asking, SetUp, Outcome, TypeOK
  <2>3. pc' = ToResolve /\ opts' = opts
    BY <1>1, <1>6 DEF Leave, stepUnchanged
  <2>4. Prepared'
    BY <2>1, <2>3 DEF Prepared
  <2>. QED  BY <1>1, <1>3, <1>4, <2>1, <2>2, <2>3, <2>4, StepKeeps
<1>. QED  BY <1>1, <1>5, <1>6

(* The time never runs backwards: the wait is not negative.                    *)
LEMMA WaitElapses ==
  ASSUME TypeOK, ~ WaitInvalid, opts.heartbeat # None
  PROVE  LET left == IF opts.duration = None THEN opts.heartbeat ELSE opts.duration - elapsed
             wait == IF left < opts.heartbeat THEN left ELSE opts.heartbeat
         IN  (IF elapsed + wait + 1 > MaxElapsed THEN MaxElapsed ELSE elapsed + wait + 1)
                \in 0 .. MaxElapsed
<1>. DEFINE left == IF opts.duration = None THEN opts.heartbeat ELSE opts.duration - elapsed
            wait == IF left < opts.heartbeat THEN left ELSE opts.heartbeat
<1>1. opts.duration \in Durations /\ opts.heartbeat \in Heartbeats /\ elapsed \in 0 .. MaxElapsed
  BY DEF TypeOK, Opts
<1>2. opts.heartbeat \in Nat /\ MaxElapsed \in Nat /\ opts.duration \in Int \cup {None}
  BY <1>1, TimesAssumption
<1>3. left \in Nat
  <2>1. CASE opts.duration = None
    BY <1>2, <2>1
  <2>2. CASE opts.duration # None
    BY <1>1, <1>2, <2>2 DEF WaitInvalid
  <2>. QED  BY <2>1, <2>2
<1>. HIDE DEF left
<1>4. wait \in Nat
  BY <1>2, <1>3
<1>. HIDE DEF wait
<1>5. (IF elapsed + wait + 1 > MaxElapsed THEN MaxElapsed ELSE elapsed + wait + 1) \in 0 .. MaxElapsed
  BY <1>1, <1>2, <1>4
<1>. QED  BY <1>5 DEF left, wait

(* The profile runs.                                                           *)
LEMMA WaitKeeps == ASSUME SessionInv, HoldInv', Wait PROVE SessionInv'
<1>1. /\ pc = "profiling" /\ stepUnchanged /\ device' = device
      /\ \/ Leave("exit", "failed") /\ elapsed' = elapsed
         \/ Leave("end", outcome) /\ elapsed' = elapsed
         \/ /\ ~ WaitInvalid /\ opts.heartbeat # None
            /\ LET left == IF opts.duration = None THEN opts.heartbeat ELSE opts.duration - elapsed
                   wait == IF left < opts.heartbeat THEN left ELSE opts.heartbeat
                   now  == IF elapsed + wait + 1 > MaxElapsed THEN MaxElapsed ELSE elapsed + wait + 1
               IN  /\ elapsed' = now
                   /\ Leave(IF TimeIsUp(now) THEN "end" ELSE "heartbeat", outcome)
  BY DEF Wait
<1>2. TypeOK /\ Prepared
  BY DEF SessionInv
<1>3. elapsed' \in 0 .. MaxElapsed /\ device' \in BOOLEAN
  BY <1>1, <1>2, WaitElapses DEF TypeOK
<1>4. \/ Leave("exit", "failed") \/ Leave("end", outcome) \/ Leave("heartbeat", outcome)
  BY <1>1
<1>5. Moved /\ pc' \in {"exit", "end", "heartbeat"}
  BY <1>2, <1>4, LeaveMoves DEF Leave, PCs, Asking, Outcome, TypeOK
<1>6. opts' = opts /\ conn' = conn /\ h' = h /\ tConn' = tConn
  BY <1>1 DEF stepUnchanged, targetVars
<1>7. Prepared'
  BY <1>1, <1>2, <1>5, <1>6 DEF Prepared, Heard, Running, SetUp, Verified, Asked
<1>8. pc \notin Asking /\ pc \in Heard
  BY <1>1 DEF Asking, SetUp, Heard, Running
<1>. QED  BY <1>1, <1>3, <1>5, <1>7, <1>8, StepKeeps

(* The session ends.                                                           *)
LEMMA ReportKeeps == ASSUME SessionInv, HoldInv', Release \/ Report PROVE SessionInv'
<1>1. /\ pc \in {"release", "report"} /\ stepUnchanged /\ device' \in {device, FALSE} /\ elapsed' = elapsed
      /\ Leave("report", outcome) \/ Leave("exit", outcome) \/ Leave("exit", "failed")
  BY DEF Release, Report
<1>2. TypeOK
  BY DEF SessionInv
<1>3. Moved /\ pc' \in {"report", "exit"}
  BY <1>1, <1>2, LeaveMoves DEF Leave, PCs, Outcome, TypeOK
<1>4. pc \notin Asking /\ pc' \notin Running \cup Asking
  BY <1>1, <1>3 DEF Asking, SetUp, Running
<1>5. Prepared'
  BY <1>4 DEF Prepared, Heard
<1>6. elapsed' \in 0 .. MaxElapsed /\ device' \in BOOLEAN
  BY <1>1, <1>2 DEF TypeOK
<1>. QED  BY <1>1, <1>3, <1>4, <1>5, <1>6, StepKeeps

(* XpediteApp.stop gives the connection up; a restart opens the second one.    *)
LEMMA StopKeeps ==
  ASSUME SessionInv, HoldInv', StopToRestart \/ Exit
  PROVE  SessionInv'
<1>1. /\ \/ pc = "stop" /\ pc' = "restart" /\ outcome' = outcome
         \/ pc = "exit" /\ pc' = "done" /\ outcome' \in {outcome, "ended"}
      /\ closedC' = IF conn = None THEN closedC ELSE closedC \cup {conn}
      /\ conn' = None /\ rpyc' = rpyc \ linked /\ linked' = linked /\ waiting' = None /\ part' = "hdr" /\ garbled' = FALSE
      /\ opts' = opts /\ todo' = todo /\ device' = device /\ elapsed' = elapsed /\ h' = h
      /\ tConn' = tConn /\ backlog' = backlog /\ c2t' = c2t /\ t2c' = t2c /\ closedT' = closedT
  BY DEF StopToRestart, Exit, StopApp, Reset, targetVars
<1>2. TypeOK /\ ConnInv /\ WireType /\ Recorded
  BY DEF SessionInv
<1>3. pc' \in {"restart", "done"} /\ pc' \notin Running /\ pc' \notin Asking
  BY <1>1 DEF Running, Asking, SetUp
<1>4. TypeOK'
  BY <1>1, <1>2, <1>3 DEF TypeOK
<1>5. \A c \in Conns : (Queued(c))' <=> Queued(c)
  BY <1>1 DEF Queued
<1>6. closedC' \subseteq Conns /\ (pc' = "restart" => 2 \notin closedC' /\ Unused(2))
  BY <1>1, <1>2 DEF ConnInv, Unused
<1>7. pc' = "restart" => (Unused(2))'
  BY <1>1, <1>5, <1>6 DEF Unused, Conns
<1>8. ConnInv'
  BY <1>1, <1>2, <1>3, <1>5, <1>6, <1>7, NoneAssumption DEF ConnInv, Heard
<1>9. Awaits' /\ OneAtATime' /\ Answer' /\ Prepared'
  BY <1>1, <1>3 DEF Awaits, OneAtATime, Answer, Prepared, Heard
<1>10. WireType' /\ Recorded'
  BY <1>1, <1>2 DEF WireType, Recorded
<1>. QED  BY <1>4, <1>8, <1>9, <1>10 DEF SessionInv

(* The backlog after a connection that is not in it.                           *)
LEMMA Appended ==
  ASSUME ConnInv, NEW n \in Conns, ~ Queued(n), n = 1 => ~ Queued(2)
  PROVE  /\ Append(backlog, n) \in {<<1>>, <<2>>, <<1, 2>>}
         /\ \A c \in Conns : c # n => ((\E i \in DOMAIN Append(backlog, n) : Append(backlog, n)[i] = c)
                                      => Queued(c))
<1>1. backlog \in {<<>>, <<1>>, <<2>>, <<1, 2>>}
  BY DEF ConnInv
<1>2. backlog = <<1>> => Queued(1)
  BY DEF Queued
<1>3. backlog = <<2>> => Queued(2)
  BY DEF Queued
<1>4. backlog = <<1, 2>> => Queued(1) /\ Queued(2)
  <2>1. backlog = <<1, 2>> => DOMAIN backlog = 1 .. 2 /\ backlog[1] = 1 /\ backlog[2] = 2
    OBVIOUS
  <2>. QED  BY <2>1 DEF Queued
<1>5. n \in {1, 2}
  BY DEF Conns
<1>6. CASE backlog = <<>>
  <2>1. Append(backlog, n) = <<n>>
    BY <1>6
  <2>. QED  BY <1>5, <2>1
<1>7. CASE backlog = <<1>> /\ n = 2
  <2>1. Append(backlog, n) = <<1, 2>>
    <3>1. <<1>> \in Seq(Int) /\ <<1, 2>> \in Seq(Int) /\ 2 \in Int
      OBVIOUS
    <3>2. Append(<<1>>, 2) \in Seq(Int) /\ Len(Append(<<1>>, 2)) = 2
      BY <3>1, AppendProperties
    <3>3. \A i \in 1 .. 2 : Append(<<1>>, 2)[i] = <<1, 2>>[i]
      BY <3>1, AppendProperties
    <3>4. Append(<<1>>, 2) = <<1, 2>>
      BY <3>1, <3>2, <3>3, SeqEqual
    <3>. QED  BY <1>7, <3>4
  <2>. QED  BY <1>2, <1>7, <2>1 DEF Conns
<1>. QED  BY <1>1, <1>2, <1>3, <1>4, <1>5, <1>6, <1>7

(* A start uses a connection that has not been used.                           *)
LEMMA StartKeeps == ASSUME SessionInv, HoldInv', Start PROVE SessionInv'
<1>. DEFINE n == IF pc = "start" THEN 1 ELSE 2
<1>1. /\ pc \in {"start", "restart"} /\ waiting' = None /\ part' = "hdr" /\ garbled' = FALSE
      /\ LaunchFails(n) \/ LinkFails(n) \/ AttachFails(n) \/ AttachDormant(n) \/ Attach(n)
      /\ opts' = opts /\ todo' = todo /\ device' = device /\ elapsed' = elapsed /\ h' = h
      /\ tConn' = tConn /\ c2t' = c2t /\ t2c' = t2c /\ closedC' = closedC /\ closedT' = closedT
  BY DEF Start, Reset, wireVars
<1>2. TypeOK /\ ConnInv /\ WireType /\ Recorded
  BY DEF SessionInv
<1>3. n \in Conns /\ (n = 1 => pc = "start") /\ (n = 2 => pc = "restart")
  BY <1>1 DEF Conns
<1>4. conn = None /\ Unused(n) /\ (n = 1 => Unused(2) /\ closedC = {})
  BY <1>1, <1>2 DEF ConnInv
<1>. HIDE DEF n
<1>5. rpyc' \subseteq Conns /\ linked' \subseteq Conns /\ outcome' \in Outcome
  BY <1>1, <1>2, <1>3 DEF LaunchFails, LinkFails, AttachFails, AttachDormant, Attach, Launched, Linked, StartFailed,
                          TypeOK, Outcome
<1>6. WireType' /\ Recorded' /\ Awaits'
  BY <1>1, <1>2 DEF WireType, Recorded, Awaits
<1>7. CASE LaunchFails(n) \/ LinkFails(n) \/ AttachFails(n) \/ AttachDormant(n)
  <2>1. pc' \in {"done", "exit", "report"} /\ conn' = conn /\ backlog' = backlog
    BY <1>7 DEF LaunchFails, LinkFails, AttachFails, AttachDormant, StartFailed
  <2>2. pc' \notin Running /\ pc' \notin Asking /\ pc' \in PCs
    BY <2>1 DEF Running, Asking, SetUp, PCs
  <2>3. TypeOK'
    BY <1>1, <1>2, <1>5, <2>1, <2>2 DEF TypeOK, Outcome, PCs
  <2>4. \A c \in Conns : (Queued(c))' <=> Queued(c)
    BY <2>1 DEF Queued
  <2>5. ConnInv'
    BY <1>1, <1>2, <1>4, <2>1, <2>2, <2>4, NoneAssumption DEF ConnInv, Heard
  <2>6. OneAtATime' /\ Answer' /\ Prepared'
    BY <2>2 DEF OneAtATime, Answer, Prepared, Heard
  <2>. QED  BY <1>6, <2>3, <2>5, <2>6 DEF SessionInv
<1>8. CASE Attach(n)
  <2>1. pc' \in {"ping", "reping"} /\ (pc' = "ping" <=> n = 1) /\ conn' = n /\ backlog' = Append(backlog, n)
    BY <1>8 DEF Attach
  <2>2. pc' \in Running /\ pc' \in Asking /\ pc' \notin Heard
    BY <2>1 DEF Running, Asking, SetUp, Heard
  <2>3. TypeOK'
    BY <1>1, <1>2, <1>3, <1>5, <2>1, <2>2 DEF TypeOK, Outcome
  <2>4. /\ backlog' \in {<<1>>, <<2>>, <<1, 2>>}
        /\ \A c \in Conns : c # n => ((Queued(c))' => Queued(c))
    BY <1>2, <1>3, <1>4, <2>1, Appended DEF Queued, Unused
  <2>5. n = 1 => (Unused(2))'
    BY <1>1, <1>4, <2>4 DEF Unused, Conns
  <2>6. \A c \in Conns : (Queued(c))' => t2c'[c] = <<>> /\ tConn' # c
    BY <1>1, <1>2, <1>4, <2>4 DEF ConnInv, Unused
  <2>7. n = 2 => closedC' \subseteq {1}
    BY <1>1, <1>2, <1>4 DEF ConnInv, Conns, Unused
  <2>8. ConnInv'
    BY <1>1, <1>2, <1>3, <1>4, <2>1, <2>2, <2>4, <2>5, <2>6, <2>7, NoneAssumption DEF ConnInv, Conns
  <2>9. OneAtATime' /\ Answer' /\ Prepared'
    BY <1>1, <1>4, <2>1, <2>2 DEF OneAtATime, Answer, Prepared, Unused
  <2>. QED  BY <1>6, <2>3, <2>8, <2>9 DEF SessionInv
<1>. QED  BY <1>1, <1>7, <1>8

-----------------------------------------------------------------------------
(* The target keeps the invariant.                                             *)

Counted(s) == PmcCount(s) => s.recorder \in {"pmc", "perf"}
Ops == {"ping", "listProbes", "activatePerfEvents", "activatePmu", "activateProbe",
        "beginProfile", "endProfile"}

(* Ending a profile leaves no counters.                                        *)
LEMMA EndCounted ==
  ASSUME NEW s \in State
  PROVE  EndProfile(s) \in State /\ Counted(EndProfile(s))
<1>. DEFINE r == [s EXCEPT !.enabled = @ \ Matched(s.active)]
<1>1. r \in State
  BY DEF State
<1>. HIDE DEF r
<1>. DEFINE d == DisablePMU(r)
<1>p. DisablePerfEvents(r) \in State
  BY <1>1 DEF DisablePerfEvents, State, Attrs
<1>2. d \in State /\ ~ d.gp /\ ~ d.fixed
  BY <1>p DEF DisablePMU, State, Recorders
<1>. HIDE DEF d
<1>. DEFINE e == [d EXCEPT !.recorder = IF @ = "custom" THEN "expandable" ELSE @]
<1>3. e \in State /\ ~ e.gp /\ ~ e.fixed
  BY <1>2 DEF State, Recorders
<1>4. Stop(s) = e
  BY DEF Stop, e, d, r
<1>. HIDE DEF e
<1>5. EndProfile(s) = [e EXCEPT !.profile = FALSE]
  BY <1>4 DEF EndProfile
<1>6. EndProfile(s) \in State /\ ~ EndProfile(s).gp /\ ~ EndProfile(s).fixed
  BY <1>3, <1>5 DEF State
<1>. QED  BY <1>6 DEF Counted, PmcCount

(* What a command does to the target, as far as the session relies on it.      *)
LEMMA CommandOutcome ==
  ASSUME NEW cmd \in Commands, h \in State, Recorded, NEW o \in TargetOutcomes(cmd)
  PROVE  /\ o.h \in State /\ o.ok \in BOOLEAN /\ Counted(o.h) /\ cmd.op \in Ops
         /\ cmd.op \in {"ping", "listProbes"} => o.h = h
         /\ cmd.op = "activateProbe" => o.h.gp = h.gp
         /\ cmd = EnableCounters => o.h.gp
         /\ cmd = BeginSamples => o.h.gp = h.gp /\ o.h.enabled = h.enabled /\ (o.ok => o.h.profile)
<1>0. Counted(h)
  BY DEF Counted, Recorded
<1>1. CASE cmd = [op |-> "ping"]
  <2>1. o = Ok(h) /\ cmd.op = "ping"
    BY <1>1 DEF TargetOutcomes, Outcomes
  <2>2. o.h = h /\ o.ok = TRUE
    BY <2>1 DEF Ok
  <2>3. cmd.op \in Ops /\ cmd # EnableCounters /\ cmd # BeginSamples
    BY <2>1 DEF Ops, EnableCounters, BeginSamples
  <2>. QED  BY <1>0, <2>1, <2>2, <2>3
<1>2. CASE cmd = GetProbes
  <2>1. o = Ok(h) /\ cmd.op = "listProbes"
    BY <1>2 DEF TargetOutcomes, GetProbes
  <2>2. o.h = h /\ o.ok = TRUE
    BY <2>1 DEF Ok
  <2>3. cmd.op \in Ops /\ cmd # EnableCounters /\ cmd # BeginSamples
    BY <2>1 DEF Ops, EnableCounters, BeginSamples
  <2>. QED  BY <1>0, <2>1, <2>2, <2>3
<1>3. CASE cmd = EnableCounters
  <2>1. o = Ok(ActivatePmu(h, TRUE, FALSE)) /\ cmd.op = "activatePmu"
    BY <1>3 DEF TargetOutcomes, Outcomes, EnableCounters
  <2>2. o.h = ActivatePmu(h, TRUE, FALSE) /\ o.ok = TRUE
    BY <2>1 DEF Ok
  <2>3. /\ ActivatePmu(h, TRUE, FALSE) \in State /\ ActivatePmu(h, TRUE, FALSE).gp
        /\ ActivatePmu(h, TRUE, FALSE).recorder \in {"pmc", "perf"}
    BY <1>0 DEF ActivatePmu, State, Recorders, Counted, PmcCount
  <2>4. cmd.op \in Ops /\ cmd # BeginSamples
    BY <2>1 DEF Ops, BeginSamples
  <2>. QED  BY <2>1, <2>2, <2>3, <2>4 DEF Counted
<1>4. CASE cmd = EnablePerf
  <2>1. o \in EnablePerfEvents(h, TRUE, FALSE) /\ cmd.op = "activatePerfEvents"
    BY <1>4 DEF TargetOutcomes, Outcomes, EnablePerf
  <2>2. o.ok \in BOOLEAN /\ o.h \in State /\ Counted(o.h)
    <3>. DEFINE f == [h EXCEPT !.attrs = "failed"]
                e(threads) == [h EXCEPT !.perf = TRUE, !.attrs = "enabled", !.attached = threads,
                                        !.gp = TRUE, !.fixed = @ \/ FALSE, !.recorder = "perf"]
    <3>1. f \in State /\ f.gp = h.gp /\ f.fixed = h.fixed /\ f.recorder = h.recorder
      BY DEF State, Attrs
    <3>6. Counted(f)
      BY <1>0, <3>1 DEF Counted, PmcCount
    <3>2. \A threads \in BOOLEAN : e(threads) \in State /\ e(threads).recorder = "perf"
      BY DEF State, Attrs, Recorders
    <3>3. h.attached \in BOOLEAN
      BY DEF State
    <3>4. \/ o = Failed(h) \/ o = Failed(f)
          \/ \E threads \in {TRUE, h.attached} : o = Ok(e(threads))
      BY <2>1 DEF EnablePerfEvents
    <3>. HIDE DEF f, e
    <3>5. CASE o = Failed(h) \/ o = Failed(f)
      <4>1. (o.h = h \/ o.h = f) /\ o.ok = FALSE
        BY <3>5 DEF Failed
      <4>. QED  BY <1>0, <3>1, <3>6, <4>1
    <3>7. CASE \E threads \in {TRUE, h.attached} : o = Ok(e(threads))
      <4>1. PICK threads \in {TRUE, h.attached} : o = Ok(e(threads))
        BY <3>7
      <4>2. o.h = e(threads) /\ o.ok = TRUE
        BY <4>1 DEF Ok
      <4>. QED  BY <3>2, <3>3, <4>2 DEF Counted
    <3>. QED  BY <3>4, <3>5, <3>7
  <2>4. cmd.op \in Ops /\ cmd # EnableCounters /\ cmd # BeginSamples
    BY <2>1 DEF Ops, EnableCounters, BeginSamples
  <2>. QED  BY <2>1, <2>2, <2>4
<1>5. CASE cmd = BeginSamples
  <2>1. cmd.op = "beginProfile" /\ cmd.interval = 1 /\ cmd.custom = FALSE
    BY <1>5 DEF BeginSamples
  <2>2. o \in BeginProfile(h, 1)
    BY <2>1 DEF TargetOutcomes, Outcomes, Begin
  <2>. DEFINE a == [h EXCEPT !.interval = 1, !.profile = TRUE]
              b == [h EXCEPT !.interval = 1]
  <2>3. /\ a \in State /\ a.gp = h.gp /\ a.fixed = h.fixed /\ a.recorder = h.recorder
        /\ a.enabled = h.enabled /\ a.profile = TRUE
        /\ b \in State /\ b.gp = h.gp /\ b.fixed = h.fixed /\ b.recorder = h.recorder
        /\ b.enabled = h.enabled
    BY DEF State, Intervals
  <2>4. o = Failed(h) \/ o = Ok(a) \/ o = Failed(b)
    BY <2>2 DEF BeginProfile
  <2>. HIDE DEF a, b
  <2>5. \/ o.h = h /\ o.ok = FALSE
        \/ o.h = a /\ o.ok = TRUE
        \/ o.h = b /\ o.ok = FALSE
    BY <2>4 DEF Ok, Failed
  <2>6. cmd.op \in Ops /\ cmd # EnableCounters
    BY <2>1 DEF Ops, EnableCounters
  <2>. QED  BY <1>0, <2>1, <2>3, <2>5, <2>6 DEF Counted, PmcCount
<1>6. CASE cmd = [op |-> "endProfile"]
  <2>1. o = [ok |-> h.profile, h |-> EndProfile(h)] /\ cmd.op = "endProfile"
    BY <1>6 DEF TargetOutcomes, Outcomes
  <2>2. h.profile \in BOOLEAN
    BY DEF State
  <2>. QED  BY <2>1, <2>2, EndCounted DEF Ops, EnableCounters, BeginSamples
<1>7. CASE \E k \in Keys : cmd = UpdateProbe(k)
  <2>1. PICK k \in Keys : cmd = UpdateProbe(k)
    BY <1>7
  <2>2. cmd.op = "activateProbe" /\ cmd.key = k
    BY <2>1 DEF UpdateProbe
  <2>3. o = Ok(ActivateProbe(h, k))
    BY <2>2 DEF TargetOutcomes, Outcomes
  <2>4. o.h = ActivateProbe(h, k) /\ o.ok = TRUE
    BY <2>3 DEF Ok
  <2>5. /\ ActivateProbe(h, k) \in State /\ ActivateProbe(h, k).gp = h.gp
        /\ ActivateProbe(h, k).fixed = h.fixed /\ ActivateProbe(h, k).recorder = h.recorder
    BY MatchesAssumption DEF ActivateProbe, State
  <2>6. cmd.op \in Ops /\ cmd # EnableCounters /\ cmd # BeginSamples
    BY <2>2 DEF Ops, EnableCounters, BeginSamples
  <2>. QED  BY <1>0, <2>2, <2>4, <2>5, <2>6 DEF Counted, PmcCount
<1>. QED  BY <1>1, <1>2, <1>3, <1>4, <1>5, <1>6, <1>7 DEF Commands

(* The target answers the command that the profiler awaits.                    *)
LEMMA ExecuteKeeps == ASSUME SessionInv, HoldInv', Execute PROVE SessionInv'
<1>. DEFINE cmd == Head(c2t[tConn])
<1>1. /\ alive /\ tConn \in Conns /\ c2t[tConn] # <<>>
      /\ \E o \in TargetOutcomes(cmd) : h' = o.h /\ Respond(tConn, Response(o, cmd))
      /\ c2t' = [c2t EXCEPT ![tConn] = Tail(@)]
      /\ tConn' = tConn /\ backlog' = backlog /\ closedT' = closedT
      /\ pc' = pc /\ waiting' = waiting /\ part' = part /\ garbled' = garbled /\ opts' = opts
      /\ todo' = todo /\ conn' = conn /\ rpyc' = rpyc /\ linked' = linked /\ device' = device /\ elapsed' = elapsed
      /\ outcome' = outcome /\ closedC' = closedC
  BY DEF Execute, profilerUnchanged, frameVars, clientVars
<1>2. TypeOK /\ ConnInv /\ WireType /\ Awaits /\ OneAtATime /\ Prepared /\ Recorded /\ Answer
  BY DEF SessionInv
<1>3. c2t[tConn] \in Seq(Commands) /\ t2c[tConn] \in Seq(Responses)
  BY <1>1, <1>2 DEF WireType
<1>4. cmd \in Commands /\ Tail(c2t[tConn]) \in Seq(Commands)
  BY <1>1, <1>3
<1>. HIDE DEF cmd
<1>5. PICK o \in TargetOutcomes(cmd) : h' = o.h /\ Respond(tConn, Response(o, cmd))
  BY <1>1
<1>6. /\ h' \in State /\ o.ok \in BOOLEAN /\ Counted(h') /\ cmd.op \in Ops
      /\ cmd.op \in {"ping", "listProbes"} => h' = h
      /\ cmd.op = "activateProbe" => h'.gp = h.gp
      /\ cmd = EnableCounters => h'.gp
      /\ cmd = BeginSamples => h'.gp = h.gp /\ h'.enabled = h.enabled /\ (o.ok => h'.profile)
  BY <1>2, <1>4, <1>5, CommandOutcome DEF TypeOK
<1>. DEFINE rsp == Response(o, cmd)
<1>7. rsp \in Responses /\ rsp.op = cmd.op /\ rsp.ok = o.ok /\ rsp.enabled = h'.enabled
  <2>1. h'.enabled \in SUBSET Probes
    BY <1>6 DEF State
  <2>. QED  BY <1>5, <1>6, <2>1 DEF Response, Responses, Ops
<1>. HIDE DEF rsp
<1>8. Append(t2c[tConn], rsp) \in Seq(Responses)
  BY <1>3, <1>7, AppendProperties
<1>9. /\ t2c' \in [Conns -> Seq(Responses)] /\ t2c'[tConn] = Append(t2c[tConn], rsp)
      /\ \A c \in Conns : c # tConn => t2c'[c] = t2c[c] /\ c2t'[c] = c2t[c]
      /\ c2t' \in [Conns -> Seq(Commands)] /\ c2t'[tConn] = Tail(c2t[tConn])
  <2>1. t2c' = [t2c EXCEPT ![tConn] = Append(@, rsp)]
    BY <1>5 DEF Respond, rsp
  <2>. QED  BY <1>1, <1>2, <1>4, <1>8, <2>1 DEF WireType
<1>10. TypeOK'
  BY <1>1, <1>2, <1>6, <1>9 DEF TypeOK
<1>11. \A c \in Conns : (Queued(c))' <=> Queued(c)
  BY <1>1 DEF Queued
<1>12. ConnInv'
  <2>1. \A c \in Conns : (Queued(c))' => t2c'[c] = <<>> /\ tConn' # c
    BY <1>1, <1>2, <1>9, <1>11 DEF ConnInv
  <2>2. \A c \in Conns : Unused(c) => (Unused(c))'
    BY <1>1, <1>9, <1>11 DEF Unused
  <2>3. pc' \in Heard => ~ (Queued(conn))'
    BY <1>1, <1>2, <1>11 DEF ConnInv, Heard
  <2>4. 1 \in Conns /\ 2 \in Conns
    BY DEF Conns
  <2>. QED  BY <1>1, <1>2, <2>1, <2>2, <2>3, <2>4 DEF ConnInv
<1>13. WireType' /\ Recorded' /\ Awaits'
  BY <1>1, <1>2, <1>6, <1>9 DEF WireType, Recorded, Counted, Awaits
<1>14. CASE pc \in Running /\ tConn = conn
  <2>1. waiting # None /\ c2t[conn] = <<waiting>> /\ t2c[conn] = <<>>
    BY <1>1, <1>2, <1>14 DEF OneAtATime
  <2>2. cmd = waiting
    BY <1>14, <2>1 DEF cmd
  <2>3. t2c'[conn] = <<rsp>> /\ c2t'[conn] = <<>>
    BY <1>9, <1>14, <2>1
  <2>4. t2c'[conn] # <<>> /\ Len(t2c'[conn]) = 1 /\ t2c'[conn][1] = rsp
    BY <2>3
  <2>5. OneAtATime'
    BY <1>1, <1>2, <1>7, <1>14, <2>1, <2>2, <2>3, <2>4 DEF OneAtATime
  <2>6. /\ pc = "pmc" => cmd = EnableCounters
        /\ pc = "probe" => cmd.op = "activateProbe"
        /\ pc \in {"verify", "heartbeat"} => cmd.op \in {"ping", "listProbes"}
        /\ pc = "begin" => cmd = BeginSamples
    BY <1>2, <2>1, <2>2 DEF Awaits, GetProbes
  <2>7. Answer'
    BY <1>1, <1>6, <1>7, <2>4, <2>6 DEF Answer
  <2>8. pc # "profiling"
    BY <1>2, <2>1 DEF SessionInv, HoldInv, Asking, SetUp
  <2>9. Prepared'
    BY <1>1, <1>2, <1>6, <1>14, <2>6, <2>8 DEF Prepared, Verified, Asked
  <2>. QED  BY <1>10, <1>12, <1>13, <2>5, <2>7, <2>9 DEF SessionInv
<1>15. CASE pc \in Running /\ tConn # conn
  <2>1. conn \in Conns
    BY <1>2, <1>15 DEF ConnInv
  <2>2. c2t'[conn] = c2t[conn] /\ t2c'[conn] = t2c[conn]
    BY <1>9, <1>15, <2>1
  <2>3. OneAtATime'
    BY <1>1, <1>2, <2>2 DEF OneAtATime
  <2>4. Answer' /\ Prepared'
    BY <1>1, <1>15 DEF Answer, Prepared
  <2>. QED  BY <1>10, <1>12, <1>13, <2>3, <2>4 DEF SessionInv
<1>16. CASE pc \notin Running
  <2>1. OneAtATime' /\ Answer' /\ Prepared'
    BY <1>1, <1>16 DEF OneAtATime, Answer, Prepared, Heard
  <2>. QED  BY <1>10, <1>12, <1>13, <2>1 DEF SessionInv
<1>. QED  BY <1>14, <1>15, <1>16

(* The first connection of the backlog.                                        *)
LEMMA FirstOfBacklog ==
  ASSUME ConnInv, backlog # <<>>, backlog' = Tail(backlog)
  PROVE  /\ Head(backlog) \in Conns /\ Queued(Head(backlog)) /\ backlog' \in {<<>>, <<2>>}
         /\ \A c \in Conns : (Queued(c))' => Queued(c) /\ c # Head(backlog)
<1>1. backlog \in {<<1>>, <<2>>, <<1, 2>>}
  BY DEF ConnInv
<1>2. CASE backlog = <<1>>
  <2>1. Head(backlog) = 1 /\ Tail(backlog) = <<>> /\ DOMAIN backlog = 1 .. 1 /\ backlog[1] = 1
    BY <1>2
  <2>. QED  BY <2>1 DEF Queued, Conns
<1>3. CASE backlog = <<2>>
  <2>1. Head(backlog) = 2 /\ Tail(backlog) = <<>> /\ DOMAIN backlog = 1 .. 1 /\ backlog[1] = 2
    BY <1>3
  <2>. QED  BY <2>1 DEF Queued, Conns
<1>4. CASE backlog = <<1, 2>>
  <2>1. /\ Head(backlog) = 1 /\ Tail(backlog) = <<2>> /\ DOMAIN backlog = 1 .. 2
        /\ backlog[1] = 1 /\ backlog[2] = 2
    BY <1>4
  <2>2. \A i \in DOMAIN backlog' : backlog'[i] = 2
    BY <2>1
  <2>. QED  BY <2>1, <2>2 DEF Queued, Conns
<1>. QED  BY <1>1, <1>2, <1>3, <1>4

(* What the target leaves alone.                                               *)
LEMMA ProfilerSame ==
  ASSUME profilerUnchanged
  PROVE  /\ pc' = pc /\ waiting' = waiting /\ part' = part /\ garbled' = garbled /\ opts' = opts
         /\ todo' = todo /\ conn' = conn /\ rpyc' = rpyc /\ linked' = linked /\ device' = device /\ elapsed' = elapsed
         /\ outcome' = outcome /\ closedC' = closedC
BY DEF profilerUnchanged, frameVars, clientVars

(* A connection that is accepted has not been used: no command of it has been  *)
(* answered, and the profiler is not beyond its first command.                 *)
LEMMA AcceptKeeps == ASSUME SessionInv, HoldInv', Accept PROVE SessionInv'
<1>1. /\ backlog # <<>> /\ tConn' = Head(backlog) /\ backlog' = Tail(backlog)
      /\ h' = h /\ c2t' = c2t /\ t2c' = t2c /\ closedT' = closedT /\ profilerUnchanged
  BY DEF Accept
<1>2. TypeOK /\ ConnInv /\ WireType /\ Awaits /\ OneAtATime /\ Recorded
  BY DEF SessionInv
<1>3. /\ tConn' \in Conns /\ Queued(tConn') /\ backlog' \in {<<>>, <<2>>}
      /\ \A c \in Conns : (Queued(c))' => Queued(c) /\ c # tConn'
  BY <1>1, <1>2, FirstOfBacklog
<1>4. TypeOK'
  BY <1>1, <1>2, <1>3, ProfilerSame DEF TypeOK
<1>5. \A c \in Conns : Unused(c) => (Unused(c))'
  BY <1>1, <1>3, ProfilerSame DEF Unused
<1>6. ConnInv'
  <2>1. \A c \in Conns : (Queued(c))' => t2c'[c] = <<>> /\ tConn' # c
    BY <1>1, <1>2, <1>3 DEF ConnInv
  <2>2. pc' \in Heard => ~ (Queued(conn))'
    BY <1>1, <1>2, <1>3, ProfilerSame DEF ConnInv, Heard
  <2>3. 1 \in Conns /\ 2 \in Conns
    BY DEF Conns
  <2>. QED  BY <1>1, <1>2, <1>3, <1>5, <2>1, <2>2, <2>3, ProfilerSame DEF ConnInv
<1>7. OneAtATime' /\ WireType' /\ Awaits' /\ Recorded'
  BY <1>1, <1>2, ProfilerSame DEF OneAtATime, WireType, Awaits, Recorded
<1>8. Answer' /\ Prepared'
  <2>1. t2c[tConn'] = <<>> /\ (pc \in Heard => conn # tConn')
    BY <1>2, <1>3 DEF ConnInv
  <2>. QED  BY <1>1, <2>1, ProfilerSame DEF Answer, Prepared
<1>. QED  BY <1>4, <1>6, <1>7, <1>8 DEF SessionInv

(* A refusal is the only response of its connection.                           *)
LEMMA RefuseKeeps == ASSUME SessionInv, HoldInv', Refuse PROVE SessionInv'
<1>. DEFINE x == Head(backlog)
            rsp == [op |-> "refused", ok |-> FALSE, enabled |-> {}]
<1>1. /\ backlog # <<>> /\ backlog' = Tail(backlog) /\ Respond(x, rsp)
      /\ closedT' = closedT \cup {x} /\ c2t' = [c2t EXCEPT ![x] = <<>>]
      /\ h' = h /\ tConn' = tConn /\ profilerUnchanged
  BY DEF Refuse
<1>2. TypeOK /\ ConnInv /\ WireType /\ Awaits /\ OneAtATime /\ Recorded /\ Answer /\ Prepared
  BY DEF SessionInv
<1>3. /\ x \in Conns /\ Queued(x) /\ backlog' \in {<<>>, <<2>>}
      /\ \A c \in Conns : (Queued(c))' => Queued(c) /\ c # x
  BY <1>1, <1>2, FirstOfBacklog
<1>4. rsp \in Responses /\ rsp.op = "refused" /\ ~ rsp.ok
  BY DEF Responses
<1>. HIDE DEF x, rsp
<1>5. t2c[x] = <<>> /\ tConn # x
  BY <1>2, <1>3 DEF ConnInv
<1>6. /\ t2c' \in [Conns -> Seq(Responses)] /\ t2c'[x] = <<rsp>>
      /\ \A c \in Conns : c # x => t2c'[c] = t2c[c] /\ c2t'[c] = c2t[c]
      /\ c2t' \in [Conns -> Seq(Commands)] /\ c2t'[x] = <<>>
  <2>1. t2c' = [t2c EXCEPT ![x] = Append(@, rsp)]
    BY <1>1 DEF Respond
  <2>2. Append(t2c[x], rsp) = <<rsp>> /\ <<rsp>> \in Seq(Responses)
    BY <1>4, <1>5
  <2>. QED  BY <1>1, <1>2, <1>3, <2>1, <2>2 DEF WireType
<1>7. TypeOK'
  BY <1>1, <1>2, <1>6, ProfilerSame DEF TypeOK
<1>8. \A c \in Conns : Unused(c) => (Unused(c))'
  BY <1>1, <1>3, <1>6, ProfilerSame DEF Unused
<1>9. ConnInv'
  <2>1. \A c \in Conns : (Queued(c))' => t2c'[c] = <<>> /\ tConn' # c
    BY <1>1, <1>2, <1>3, <1>6 DEF ConnInv
  <2>2. pc' \in Heard => ~ (Queued(conn))'
    BY <1>1, <1>2, <1>3, ProfilerSame DEF ConnInv, Heard
  <2>3. 1 \in Conns /\ 2 \in Conns
    BY DEF Conns
  <2>. QED  BY <1>1, <1>2, <1>3, <1>8, <2>1, <2>2, <2>3, ProfilerSame DEF ConnInv
<1>10. WireType' /\ Awaits' /\ Recorded'
  BY <1>1, <1>2, <1>6, ProfilerSame DEF WireType, Awaits, Recorded
<1>11. OneAtATime'
  <2>1. CASE x = conn
    <3>1. t2c'[conn] # <<>> /\ Len(t2c'[conn]) = 1 /\ t2c'[conn][1] = rsp
      <4>1. t2c'[conn] = <<rsp>>
        BY <1>6, <2>1
      <4>. QED  BY <4>1
    <3>. QED  BY <1>1, <1>2, <1>4, <1>6, <2>1, <3>1, ProfilerSame DEF OneAtATime
  <2>2. CASE x # conn /\ pc \in Running
    <3>1. conn \in Conns
      BY <1>2, <2>2 DEF ConnInv
    <3>2. t2c'[conn] = t2c[conn] /\ c2t'[conn] = c2t[conn]
      BY <1>6, <2>2, <3>1
    <3>. QED  BY <1>1, <1>2, <3>2, ProfilerSame DEF OneAtATime
  <2>. QED  BY <1>1, <2>1, <2>2, ProfilerSame DEF OneAtATime
<1>12. Answer' /\ Prepared'
  <2>1. tConn = conn /\ pc \in Running => t2c'[conn] = t2c[conn]
    BY <1>2, <1>5, <1>6 DEF ConnInv
  <2>2. Answer'
    BY <1>1, <1>2, <2>1, ProfilerSame DEF Answer
  <2>3. Prepared'
    BY <1>1, <1>2, ProfilerSame DEF Prepared, Verified, Asked
  <2>. QED  BY <2>2, <2>3
<1>. QED  BY <1>7, <1>9, <1>10, <1>11, <1>12 DEF SessionInv

(* The target no longer has a client.                                          *)
LEMMA ClientLostKeeps ==
  ASSUME SessionInv, HoldInv', tConn' = None, t2c' = t2c, c2t' \in [Conns -> Seq(Commands)],
         \A c \in Conns : c2t'[c] \in {c2t[c], <<>>}, backlog' \in {backlog, <<>>},
         closedT \subseteq closedT', closedT' \subseteq Conns, h' \in State, Recorded', profilerUnchanged
  PROVE  SessionInv'
<1>1. TypeOK /\ ConnInv /\ WireType /\ Awaits /\ OneAtATime
  BY DEF SessionInv
<1>2. TypeOK'
  BY <1>1, ProfilerSame DEF TypeOK
<1>3. \A c \in Conns : (Queued(c))' => Queued(c)
  BY DEF Queued
<1>4. \A c \in Conns : c # None
  BY NoneAssumption DEF Conns
<1>5. \A c \in Conns : Unused(c) => (Unused(c))'
  BY <1>3, <1>4, ProfilerSame DEF Unused
<1>6. ConnInv'
  <2>1. \A c \in Conns : (Queued(c))' => t2c'[c] = <<>> /\ tConn' # c
    BY <1>1, <1>3, <1>4 DEF ConnInv
  <2>2. pc' \in Heard => ~ (Queued(conn))'
    BY <1>1, <1>3, ProfilerSame DEF ConnInv, Heard
  <2>3. 1 \in Conns /\ 2 \in Conns
    BY DEF Conns
  <2>4. backlog' \in {<<>>, <<1>>, <<2>>, <<1, 2>>}
    BY <1>1 DEF ConnInv
  <2>. QED  BY <1>1, <1>5, <2>1, <2>2, <2>3, <2>4, ProfilerSame DEF ConnInv
<1>7. WireType' /\ Awaits'
  BY <1>1, ProfilerSame DEF WireType, Awaits
<1>8. pc \in Running => conn \in Conns /\ tConn' # conn
  BY <1>1, <1>4 DEF ConnInv
<1>9. OneAtATime'
  <2>1. pc \in Running => c2t'[conn] \in {c2t[conn], <<>>}
    BY <1>8
  <2>. QED  BY <1>1, <2>1, ProfilerSame DEF OneAtATime
<1>10. Answer' /\ Prepared'
  BY <1>8, ProfilerSame DEF Answer, Prepared, Heard
<1>. QED  BY <1>2, <1>6, <1>7, <1>9, <1>10 DEF SessionInv

(* The target leaves.                                                          *)
LEMMA TargetLeavesKeeps ==
  ASSUME SessionInv, HoldInv', DropClient \/ OtherLeaves \/ TargetDies
  PROVE  SessionInv'
<1>1. h \in State /\ Recorded /\ c2t \in [Conns -> Seq(Commands)]
  BY DEF SessionInv, TypeOK, WireType
<1>0. closedT \subseteq Conns
  BY DEF SessionInv, ConnInv
<1>2. CASE DropClient
  <2>1. /\ tConn \in Conns /\ tConn' = None /\ closedT' = closedT \cup {tConn} /\ backlog' = backlog
        /\ t2c' = t2c /\ c2t' = [c2t EXCEPT ![tConn] = <<>>] /\ profilerUnchanged
        /\ h' \in {h, EndProfile(h)}
    BY <1>2 DEF DropClient
  <2>2. h' \in State /\ Recorded'
    BY <1>1, <2>1, EndCounted DEF Recorded, Counted
  <2>3. c2t' \in [Conns -> Seq(Commands)] /\ \A c \in Conns : c2t'[c] \in {c2t[c], <<>>}
    BY <1>1, <2>1
  <2>. QED  BY <1>0, <2>1, <2>2, <2>3, ClientLostKeeps
<1>3. CASE OtherLeaves
  <2>1. /\ tConn' = None /\ closedT' = closedT /\ backlog' = backlog
        /\ t2c' = t2c /\ c2t' = c2t /\ profilerUnchanged /\ h' = h
    BY <1>3 DEF OtherLeaves
  <2>2. Recorded'
    BY <1>1, <2>1 DEF Recorded
  <2>. QED  BY <1>0, <1>1, <2>1, <2>2, ClientLostKeeps
<1>4. CASE TargetDies
  <2>1. /\ tConn' = None /\ closedT' = Conns /\ backlog' = <<>>
        /\ t2c' = t2c /\ c2t' = [c \in Conns |-> <<>>] /\ profilerUnchanged /\ h' = Fresh
    BY <1>4 DEF TargetDies
  <2>2. h' \in State /\ Recorded'
    BY <2>1 DEF Recorded, Fresh, State, Intervals, Recorders, Attrs, PmcCount
  <2>3. c2t' \in [Conns -> Seq(Commands)] /\ \A c \in Conns : c2t'[c] \in {c2t[c], <<>>}
    BY <1>1, <2>1
  <2>4. closedT \subseteq closedT'
    BY <1>0, <2>1
  <2>. QED  BY <2>1, <2>2, <2>3, <2>4, ClientLostKeeps
<1>. QED  BY <1>2, <1>3, <1>4

(* The invariant holds before the session.                                     *)
LEMMA SessionInit == Init => SessionInv
<1>. SUFFICES ASSUME Init PROVE SessionInv
  OBVIOUS
<1>1. h \in State /\ Recorded
  BY LeftoversAssumption DEF Init, Recorded
<1>2. TypeOK
  <2>1. elapsed \in 0 .. MaxElapsed
    BY TimesAssumption DEF Init
  <2>2. pc \notin Asking /\ todo \in Seq(Keys) /\ tConn \in Conns \cup {None, Other}
    BY DEF Init, Asking, SetUp
  <2>3. \A c \in Conns : t2c[c] \in Seq(Responses)
    BY DEF Init
  <2>. QED  BY <1>1, <2>1, <2>2, <2>3 DEF Init, TypeOK
<1>3. \A c \in Conns : ~ Queued(c)
  BY DEF Init, Queued
<1>4. \A c \in Conns : Unused(c)
  BY <1>3, NoneAssumption DEF Init, Unused, Other, Conns
<1>5. ConnInv
  <2>1. 1 \in Conns /\ 2 \in Conns /\ None \notin Conns
    BY NoneAssumption DEF Conns
  <2>2. pc = "start" /\ pc \notin Running /\ pc \notin Heard
    BY DEF Init, Heard, Running, SetUp
  <2>3. conn = None /\ backlog = <<>> /\ closedC = {} /\ closedT = {}
    BY DEF Init
  <2>. QED  BY <1>3, <1>4, <2>1, <2>2, <2>3 DEF ConnInv
<1>6. WireType /\ Awaits /\ OneAtATime /\ Answer /\ Prepared
  BY DEF Init, WireType, Awaits, OneAtATime, Answer, Prepared, Heard, Running, SetUp
<1>. QED  BY <1>1, <1>2, <1>5, <1>6, HoldInit DEF SessionInv

(* Every step keeps the invariant.                                             *)
LEMMA SessionNext == SessionInv /\ [Next]_vars => SessionInv'
<1>. SUFFICES ASSUME SessionInv, [Next]_vars PROVE SessionInv'
  OBVIOUS
<1>1. HoldInv'
  BY HoldNext DEF SessionInv
<1>2. CASE Profiler
  BY <1>1, <1>2, StartKeeps, StopKeeps, SendKeeps, ReadHeaderKeeps, ReadBodyKeeps, ReadFailsKeeps,
     EnableKeeps, WaitKeeps, ReportKeeps DEF Profiler
<1>3. CASE Target \/ OtherLeaves \/ TargetDies
  BY <1>1, <1>3, AcceptKeeps, RefuseKeeps, ExecuteKeeps, TargetLeavesKeeps DEF Target
<1>4. CASE UNCHANGED vars
  <2>1. SessionInv' <=> SessionInv
    BY <1>4 DEF vars, frameVars, clientVars, targetVars, wireVars, SessionInv, TypeOK, HoldInv, HostInv, ConnInv,
                WireType, Awaits, OneAtATime, Answer, Prepared, Recorded, Queued, Unused, Verified, Asked
  <2>. QED  BY <2>1
<1>. QED  BY <1>2, <1>3, <1>4 DEF Next

(* The types of a session, and that every command goes over a connection       *)
(* (Environment.admin sends to env.client, which a stop of the app clears).    *)
THEOREM SessionTypes == FairSpec => []TypeOK
<1>1. SessionInv => TypeOK
  BY DEF SessionInv
<1>. QED  BY <1>1, SessionInit, SessionNext, PTL DEF FairSpec

(* For every number of time outs: no response that a command left in the       *)
(* connection is taken for the answer to a later one while the session is set  *)
(* up (pingApp restarts the app, and every other caller of admin gives up).    *)
THEOREM SetUpAnswered == FairSpec => []SetUpInStep
<1>1. SessionInv => SetUpInStep
  <2>. SUFFICES ASSUME SessionInv, pc \in SetUp, waiting # None, t2c[conn] # <<>>
                PROVE  /\ Head(t2c[conn]).op \in {waiting.op, "refused"}
                       /\ Len(t2c[conn]) = 1
    BY DEF SetUpInStep
  <2>1. /\ Len(t2c[conn]) = 1
        /\ t2c[conn][1].op = waiting.op \/ t2c[conn][1].op = "refused"
    BY DEF SessionInv, OneAtATime, Running
  <2>2. Head(t2c[conn]) = t2c[conn][1]
    BY WhileAsking
  <2>. QED  BY <2>1, <2>2
<1>. QED  BY <1>1, SessionInit, SessionNext, PTL DEF FairSpec

(* For any profiles and probes, any state an earlier profiler left, and a      *)
(* target that refuses, fails or dies at any time: while the loop of the       *)
(* profile runs, the target it is connected to does what the profile asks for. *)
THEOREM ProfiledAsAskedHolds == FairSpec => []ProfiledAsAsked
<1>1. SessionInv => ProfiledAsAsked
  <2>. SUFFICES ASSUME SessionInv, pc \in {"profiling", "heartbeat"}, tConn = conn
                PROVE  /\ h.profile /\ Verified(h.enabled)
                       /\ opts.pmu # "none" => h.gp /\ h.recorder \in {"pmc", "perf"}
    BY DEF ProfiledAsAsked
  <2>1. h.profile /\ Verified(h.enabled) /\ (opts.pmu # "none" => h.gp)
    BY DEF SessionInv, Prepared, Heard, Running
  <2>2. h.gp => h.recorder \in {"pmc", "perf"}
    BY DEF SessionInv, Recorded, PmcCount
  <2>. QED  BY <2>1, <2>2
<1>. QED  BY <1>1, SessionInit, SessionNext, PTL DEF FairSpec

=============================================================================
