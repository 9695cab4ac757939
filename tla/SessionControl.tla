--------------------------- MODULE SessionControl ---------------------------
(***************************************************************************)
(* Who may profile, and what a session leaves behind:                      *)
(* lib/xpedite/framework/{Framework,Handler,Profile}, session/, request/,  *)
(* and the parts of lib/xpedite/pmu/PMUCtl.C and probes/RecorderCtl.C that *)
(* a request reaches.                                                      *)
(*                                                                         *)
(* Application threads (Callers) profile through framework::profile, which *)
(* hands requests one at a time to the framework thread through a shared   *)
(* slot; remote profilers (Clients) connect and send frames.  The          *)
(* framework thread polls the slot, the listener and the client in turn.   *)
(* Requests change one record, h: all the state of Handler, PmuCtl and     *)
(* RecorderCtl; module Handler says how.                                   *)
(***************************************************************************)
EXTENDS Handler

CONSTANTS
  Callers,      \* application threads that call framework::profile
  Clients,      \* remote profilers
  Requests,     \* requests in use
  None

ASSUME ActorsAssumption == None \notin Callers \cup Clients

VARIABLES
  h,            \* the state requests act on
  canRun,       \* Framework::_canRun
  fpc,          \* where the framework thread is in SessionManager::poll
  sessionType,  \* SessionManager::_sessionType
  slot,         \* LocalSession::_request
  localAlive,   \* LocalSession::_isAlive
  client,       \* RemoteSession::_client
  backlog,      \* connections the listener has not accepted
  inbox,        \* the frame each connection has in flight
  closed,       \* the client has closed its end of the connection
  pc,           \* where each caller is
  stage,        \* the request of beginProfile, or of the guard, it is at
  rsp           \* the response to its last request

localVars == <<slot, pc, stage, rsp>>
remoteVars == <<client, backlog, inbox, closed>>
vars == <<h, canRun, fpc, sessionType, localAlive, localVars, remoteVars>>

ASSUME RequestsAssumption == Requests \subseteq Request
ASSUME NoneAssumption == None \notin [by : Callers, req : Request]

\* Only a caller in the process can override the recorder.
RemoteRequests == {r \in Requests : r.op = "beginProfile" => ~ r.custom}

-----------------------------------------------------------------------------
Init ==
  /\ h = Fresh
  /\ canRun = TRUE
  /\ fpc = "local"
  /\ sessionType = "DORMANT"
  /\ slot = None
  /\ localAlive = FALSE
  /\ client = None
  /\ backlog = <<>>
  /\ inbox = [c \in Clients |-> None]
  /\ closed = [c \in Clients |-> FALSE]
  /\ pc = [a \in Callers |-> "idle"]
  /\ stage = [a \in Callers |-> "none"]
  /\ rsp = [a \in Callers |-> FALSE]

-----------------------------------------------------------------------------
(* Application threads.                                                    *)

callerUnchanged == UNCHANGED <<h, canRun, fpc, sessionType, localAlive, remoteVars>>

\* framework::profile, with or without events to count.
Profile(a) ==
  /\ pc[a] = "idle"
  /\ pc' = [pc EXCEPT ![a] = "send"]
  /\ \E first \in {"perf", "probe"} : stage' = [stage EXCEPT ![a] = first]
  /\ UNCHANGED <<slot, rsp>>
  /\ callerUnchanged

\* The slot holds a's request.
InSlot(a) == slot # None /\ slot.by = a

\* The requests a caller may execute at each stage; its poll interval is fixed.
StageRequests(s) ==
  {r \in Requests :
    CASE s = "perf" -> r.op = "activatePerfEvents" /\ (r.gp \/ r.fixed)
      [] s = "probe" -> r.op = "activateProbe"
      [] s = "begin" -> r.op = "beginProfile" /\ r.interval = 1
      [] s = "end" -> r.op = "endProfile"}

\* LocalSession::execute: the compare and swap finds the slot empty.
Enqueue(a) ==
  /\ pc[a] = "send"
  /\ slot = None
  /\ \E r \in StageRequests(stage[a]) : slot' = [by |-> a, req |-> r]
  /\ pc' = [pc EXCEPT ![a] = "await"]
  /\ UNCHANGED <<stage, rsp>>
  /\ callerUnchanged

\* Mutated form: a refused request does not end the profile it has prepared.
AwaitedNoUndo(a) ==
  /\ pc[a] = "await"
  /\ ~ InSlot(a)
  /\ pc' = [pc EXCEPT ![a] = IF stage[a] = "begin" /\ rsp[a] THEN "guard"
                             ELSE IF rsp[a] /\ stage[a] # "end" THEN "send" ELSE "idle"]
  /\ stage' = [stage EXCEPT ![a] = IF ~ rsp[a] \/ @ \in {"begin", "end"} THEN "none"
                                   ELSE IF @ = "perf" THEN "probe" ELSE "begin"]
  /\ UNCHANGED <<slot, rsp>>
  /\ callerUnchanged

\* Mutated form: execute gives up waiting, as it would with a timeout.
AwaitedTimesOut(a) ==
  /\ pc[a] = "await"
  /\ stage' = [stage EXCEPT ![a] = "none"]
  /\ pc' = [pc EXCEPT ![a] = "idle"]
  /\ UNCHANGED <<slot, rsp>>
  /\ callerUnchanged

\* LocalSession::execute returns, and Framework::beginProfile goes on: to the next
\* request, to its end with a live guard, or, after a failure, to the destructor
\* of the guard it has created first.
Awaited(a) ==
  /\ pc[a] = "await"
  /\ ~ InSlot(a)
  /\ LET next == IF stage[a] = "end" THEN "none"
                 ELSE IF ~ rsp[a] THEN "end"
                 ELSE CASE stage[a] = "perf" -> "probe"
                        [] stage[a] = "probe" -> "begin"
                        [] stage[a] = "begin" -> "none"
     IN  /\ stage' = [stage EXCEPT ![a] = next]
         /\ pc' = [pc EXCEPT ![a] = IF next # "none" THEN "send"
                                    ELSE IF stage[a] = "begin" THEN "guard" ELSE "idle"]
  /\ UNCHANGED <<slot, rsp>>
  /\ callerUnchanged

\* SessionGuard::~SessionGuard.
DestroyGuard(a) ==
  /\ pc[a] = "guard"
  /\ pc' = [pc EXCEPT ![a] = "send"]
  /\ stage' = [stage EXCEPT ![a] = "end"]
  /\ UNCHANGED <<slot, rsp>>
  /\ callerUnchanged

\* A thread hits its first probe: the constructor of SamplesBuffer attaches it.
StartThread ==
  /\ h' = AttachPerfEvents(h)
  /\ UNCHANGED <<canRun, fpc, sessionType, localAlive, localVars, remoteVars>>

\* framework::halt.
Halt ==
  /\ canRun
  /\ canRun' = FALSE
  /\ UNCHANGED <<h, fpc, sessionType, localAlive, localVars, remoteVars>>

-----------------------------------------------------------------------------
(* Remote profilers.                                                       *)

clientUnchanged == UNCHANGED <<h, canRun, fpc, sessionType, localAlive, client, localVars>>

Queued(c) == \E i \in DOMAIN backlog : backlog[i] = c
Connected(c) == client = c \/ Queued(c)

Connect(c) ==
  /\ ~ Connected(c)
  /\ backlog' = Append(backlog, c)
  /\ UNCHANGED <<inbox, closed>>
  /\ clientUnchanged

\* A profiler awaits the response to a request before it sends the next one.
Send(c) ==
  /\ Connected(c)
  /\ ~ closed[c]
  /\ inbox[c] = None
  /\ \E r \in RemoteRequests : inbox' = [inbox EXCEPT ![c] = r]
  /\ UNCHANGED <<backlog, closed>>
  /\ clientUnchanged

\* A profiler closes its connection, crashes, or gives up waiting for a response.
Disconnect(c) ==
  /\ Connected(c)
  /\ ~ closed[c]
  /\ closed' = [closed EXCEPT ![c] = TRUE]
  /\ UNCHANGED <<backlog, inbox>>
  /\ clientUnchanged

-----------------------------------------------------------------------------
(* The framework thread: SessionManager::poll.                             *)

\* SessionManager::poll after LocalSession::poll has returned alive.
AfterLocal(alive) == IF alive THEN "LOCAL" ELSE IF sessionType = "LOCAL" THEN "DORMANT" ELSE sessionType

\* ... and after RemoteSession::poll.
AfterRemote(alive) == IF alive THEN "REMOTE" ELSE IF sessionType = "REMOTE" THEN "DORMANT" ELSE sessionType

CanServeLocal == sessionType \in {"DORMANT", "LOCAL"}

\* Mutated form: remote requests are served in a local session too.
CanServeRemoteAlways == sessionType \in {"DORMANT", "REMOTE", "LOCAL"}

CanServeRemote == sessionType \in {"DORMANT", "REMOTE"}

PollLocalIdle ==
  /\ fpc = "local"
  /\ canRun
  /\ slot = None
  /\ sessionType' = AfterLocal(localAlive)
  /\ fpc' = "accept"
  /\ UNCHANGED <<h, canRun, localAlive, localVars, remoteVars>>

\* LocalSession::poll executes the request and empties the slot.
ExecuteLocal ==
  /\ fpc = "local"
  /\ canRun
  /\ slot # None
  /\ CanServeLocal
  /\ \E o \in Outcomes(h, slot.req) : h' = o.h /\ rsp' = [rsp EXCEPT ![slot.by] = o.ok]
  /\ slot' = None
  /\ localAlive' = TRUE
  /\ sessionType' = AfterLocal(TRUE)
  /\ fpc' = "accept"
  /\ UNCHANGED <<canRun, pc, stage, remoteVars>>

\* Mutated form: the slot is emptied only for a request that was executed.
AbortLocalKeepsSlot ==
  /\ fpc = "local"
  /\ canRun
  /\ slot # None
  /\ ~ CanServeLocal
  /\ rsp' = [rsp EXCEPT ![slot.by] = FALSE]
  /\ sessionType' = AfterLocal(localAlive)
  /\ fpc' = "accept"
  /\ UNCHANGED <<h, canRun, localAlive, slot, pc, stage, remoteVars>>

\* LocalSession::poll aborts the request: a remote session is active.
AbortLocal ==
  /\ fpc = "local"
  /\ canRun
  /\ slot # None
  /\ ~ CanServeLocal
  /\ rsp' = [rsp EXCEPT ![slot.by] = FALSE]
  /\ slot' = None
  /\ sessionType' = AfterLocal(localAlive)
  /\ fpc' = "accept"
  /\ UNCHANGED <<h, canRun, localAlive, pc, stage, remoteVars>>

\* RemoteSession::poll: no connection to accept.
AcceptNone ==
  /\ fpc = "accept"
  /\ backlog = <<>>
  /\ fpc' = "client"
  /\ UNCHANGED <<h, canRun, sessionType, localAlive, localVars, remoteVars>>

\* Mutated form: a connection is accepted during a local session.
AcceptAlways ==
  /\ fpc = "accept"
  /\ backlog # <<>>
  /\ client = None
  /\ client' = Head(backlog)
  /\ backlog' = Tail(backlog)
  /\ fpc' = "client"
  /\ UNCHANGED <<h, canRun, sessionType, localAlive, localVars, inbox, closed>>

\* RemoteSession::poll makes the connection its client.
Accept ==
  /\ fpc = "accept"
  /\ backlog # <<>>
  /\ CanServeRemote /\ client = None
  /\ client' = Head(backlog)
  /\ backlog' = Tail(backlog)
  /\ fpc' = "client"
  /\ UNCHANGED <<h, canRun, sessionType, localAlive, localVars, inbox, closed>>

\* RemoteSession::poll writes "multiple sessions not supported" and closes it.
Refuse ==
  /\ fpc = "accept"
  /\ backlog # <<>>
  /\ ~ (CanServeRemote /\ client = None)
  /\ backlog' = Tail(backlog)
  /\ inbox' = [inbox EXCEPT ![Head(backlog)] = None]
  /\ closed' = [closed EXCEPT ![Head(backlog)] = FALSE]
  /\ fpc' = "client"
  /\ UNCHANGED <<h, canRun, sessionType, localAlive, localVars, client>>

\* Listener::accept throws: nothing catches it below Framework::run's caller, and
\* the framework thread ends without SessionManager::shutdown.
AcceptThrows ==
  /\ fpc = "accept"
  /\ fpc' = "dead"
  /\ UNCHANGED <<h, canRun, sessionType, localAlive, localVars, remoteVars>>

\* RemoteSession::resetClient, from the handler state s.
ResetClient(s) ==
  /\ h' = IF s.profile THEN EndProfile(s) ELSE s
  /\ client' = None
  /\ inbox' = [c \in Clients |-> IF c = client THEN None ELSE inbox[c]]
  /\ closed' = [c \in Clients |-> c # client /\ closed[c]]

\* pollClient: a frame is executed and its response written; the loop goes on.
ExecuteRemote ==
  /\ fpc = "client"
  /\ CanServeRemote /\ client # None
  /\ inbox[client] # None
  /\ \E o \in Outcomes(h, inbox[client]) : h' = o.h
  /\ inbox' = [inbox EXCEPT ![client] = None]
  /\ UNCHANGED <<canRun, fpc, sessionType, localAlive, localVars, client, backlog, closed>>

\* pollClient: the response to a frame cannot be written.
WriteFails ==
  /\ fpc = "client"
  /\ CanServeRemote /\ client # None
  /\ inbox[client] # None
  /\ \E o \in Outcomes(h, inbox[client]) : ResetClient(o.h)
  /\ sessionType' = AfterRemote(FALSE)
  /\ fpc' = "work"
  /\ UNCHANGED <<canRun, localAlive, localVars, backlog>>

\* Mutated form: the connection is dropped with the profile left active.
DropClientOnly ==
  /\ fpc = "client"
  /\ CanServeRemote /\ client # None
  /\ client' = None
  /\ inbox' = [inbox EXCEPT ![client] = None]
  /\ closed' = [closed EXCEPT ![client] = FALSE]
  /\ sessionType' = AfterRemote(FALSE)
  /\ fpc' = "work"
  /\ UNCHANGED <<h, canRun, localAlive, localVars, backlog>>

\* pollClient: readFrame throws, for a connection that was closed or is broken.
DropClient ==
  /\ fpc = "client"
  /\ CanServeRemote /\ client # None
  /\ ResetClient(h)
  /\ sessionType' = AfterRemote(FALSE)
  /\ fpc' = "work"
  /\ UNCHANGED <<canRun, localAlive, localVars, backlog>>

\* Mutated form: a read that returns 0 is taken for one that would block.
ClientIdleMissesClose ==
  /\ fpc = "client"
  /\ (CanServeRemote /\ client # None) => inbox[client] = None
  /\ sessionType' = AfterRemote(client # None)
  /\ fpc' = "work"
  /\ UNCHANGED <<h, canRun, localAlive, localVars, remoteVars>>

\* RemoteSession::poll returns: no client to serve, or no frame to read.
ClientIdle ==
  /\ fpc = "client"
  /\ (CanServeRemote /\ client # None) => (inbox[client] = None /\ ~ closed[client])
  /\ sessionType' = AfterRemote(client # None)
  /\ fpc' = "work"
  /\ UNCHANGED <<h, canRun, localAlive, localVars, remoteVars>>

\* Handler::poll (see SampleCollection), and the sleep of Framework::run.
Work ==
  /\ fpc = "work"
  /\ fpc' = "local"
  /\ UNCHANGED <<h, canRun, sessionType, localAlive, localVars, remoteVars>>

\* Framework::run leaves its loop: SessionManager::shutdown.
Shutdown ==
  /\ fpc = "local"
  /\ ~ canRun
  /\ ResetClient(h)
  /\ fpc' = "down"
  /\ UNCHANGED <<canRun, sessionType, localAlive, localVars, backlog>>

Framework ==
  \/ PollLocalIdle \/ ExecuteLocal \/ AbortLocal
  \/ AcceptNone \/ Accept \/ Refuse \/ AcceptThrows
  \/ ExecuteRemote \/ WriteFails \/ DropClient \/ ClientIdle
  \/ Work \/ Shutdown

Next ==
  \/ Framework
  \/ Halt \/ StartThread
  \/ \E a \in Callers : Profile(a) \/ Enqueue(a) \/ Awaited(a) \/ DestroyGuard(a)
  \/ \E c \in Clients : Connect(c) \/ Send(c) \/ Disconnect(c)

Spec == Init /\ [][Next]_vars

\* The framework thread keeps running; nothing is assumed of callers and clients.
FairSpec == Spec /\ WF_vars(Framework)

-----------------------------------------------------------------------------
(* Properties.                                                             *)

\* The types of the variables; the recorder is always one that expands buffers.
TypeOK ==
  /\ h \in State
  /\ canRun \in BOOLEAN
  /\ fpc \in {"local", "accept", "client", "work", "down", "dead"}
  /\ sessionType \in {"DORMANT", "LOCAL", "REMOTE"}
  /\ slot \in [by : Callers, req : Request] \cup {None}
  /\ localAlive \in BOOLEAN
  /\ client \in Clients \cup {None}
  /\ backlog \in Seq(Clients)
  /\ inbox \in [Clients -> Request \cup {None}]
  /\ closed \in [Clients -> BOOLEAN]
  /\ pc \in [Callers -> {"idle", "send", "await", "guard"}]
  /\ stage \in [Callers -> {"none", "perf", "probe", "begin", "end"}]
  /\ rsp \in [Callers -> BOOLEAN]

Gone == fpc \in {"down", "dead"}

\* "ensures no more than one session is active at a time", with the assertions of
\* SessionManager::poll: a local and a remote session never coexist, and the
\* session type names the one that is alive whenever handler.poll runs.
SessionsExclusive ==
  /\ ~ (localAlive /\ client # None)
  /\ localAlive => sessionType = "LOCAL"
  /\ fpc \in {"work", "local"} => (client # None <=> sessionType = "REMOTE")

\* A profile is active only as long as someone may end it, and handler.poll is not
\* skipped for it: otherwise probes would fill buffers nobody reads.
ProfileHasSession ==
  /\ h.profile => localAlive \/ client # None
  /\ (h.profile /\ fpc = "work") => sessionType # "DORMANT"

\* However a profile ends (a request of either kind, a guard, a lost connection,
\* a shutdown), the process is restored, whatever requests came before, whichever
\* keys named its probes and however the counters were enabled.
EndRestores == [][(h.profile /\ ~ h'.profile) => Restored(h')]_vars

\* Once the process has been profiled locally, a moment with no caller inside
\* profile and no live guard is one in which the process is restored, also when
\* profile failed half way: each failure destroys the guard made at its start.
\* Only the attributes of a perf events request that failed may still be published.
LocalLeavesNothing ==
  (localAlive /\ \A a \in Callers : pc[a] = "idle") => Restored(h)

\* "requests are allocated in stack": a request the framework thread may still
\* execute belongs to a caller that is waiting for it.
RequestOutlivesSlot == slot # None => pc[slot.by] = "await"

\* A live guard's profile is active until the guard is destroyed or the framework
\* goes down, whatever the remote profilers do.
GuardKeepsProfile == \A a \in Callers : (pc[a] = "guard" /\ ~ Gone) => h.profile

\* pollClient has no limit: it returns only when it finds no frame, so what the
\* framework promises to the others depends on the client's pausing now and then.
PollReturns == []<>(fpc # "client")

\* If pollClient always returns, an enqueued request is answered, executed or
\* aborted, as long as the framework runs: however often clients connect, send and
\* vanish, they do not keep a caller blocked.
RequestAnswered ==
  PollReturns => \A a \in Callers : InSlot(a) ~> (~ InSlot(a) \/ Gone)

\* If pollClient always returns, a profiler that is connected and has sent a frame
\* gets its response, and one that has gone makes room for the next.
ClientServed ==
  PollReturns =>
    \A c \in Clients :
      (Connected(c) /\ (inbox[c] # None \/ closed[c])) ~> ((inbox[c] = None /\ ~ closed[c]) \/ Gone)

-----------------------------------------------------------------------------
(* Claims of the sources that do not hold.                                 *)

\* "Disconnection of the profiler tcp connection will automatically restore state
\* by disabling probes and pmc that were activated during the session."
RestoredOnDisconnect == [][(client # None /\ client' = None) => Restored(h')]_vars

\* "the calling thread is blocked till the execution completes or times out"
CallerUnblocked == \A a \in Callers : InSlot(a) ~> ~ InSlot(a)

\* "The perf events will be disabled (file descriptors closed, memory unmapped) at
\* the end of a profiling session."
PerfEventsClosed == [][(h.profile /\ ~ h'.profile) => ~ h'.attached]_vars

\* "poll interval must be a valid number of milli seconds"
IntervalValid == h.profile => h.interval # 0

=============================================================================
