------------------------ MODULE SessionControlProofs ------------------------
(***************************************************************************)
(* Proofs about SessionControl, for any sets of callers, clients, probes,  *)
(* keys and requests and any relation of keys to probes.                   *)
(*                                                                         *)
(* The invariant has three independent parts beside the types.  StateOK    *)
(* relates the fields of h that Profile::stop relies on; SessionInv says   *)
(* what the session type means at each point of SessionManager::poll;      *)
(* CallerInv follows a caller from its first request to its last.          *)
(***************************************************************************)
EXTENDS SessionControl, TLAPS

\* Every patched probe is matched by a key in _activeProbes, a recorder that reads
\* counters is active only with a counter enabled, and perf events are attached only
\* from published attributes, those in use or those a failed enable has left.
StateOK(s) ==
  /\ s \in State
  /\ s.enabled \subseteq Matched(s.active)
  /\ s.recorder \in {"pmc", "perf"} => s.gp \/ s.fixed
  /\ s.attrs = "enabled" <=> s.perf
  /\ s.attached => s.attrs # "none"

\* Between the poll of the listener and the return of RemoteSession::poll, a client
\* just accepted is not reflected in the session type yet.
SessionInv ==
  /\ localAlive <=> sessionType = "LOCAL"
  /\ fpc \in {"local", "accept", "work", "dead"} => (client # None <=> sessionType = "REMOTE")
  /\ fpc = "client" => (sessionType = "REMOTE" => client # None)
  /\ client # None => sessionType # "LOCAL"
  /\ h.profile => localAlive \/ client # None

\* The caller has nothing left to undo: it is idle, or its last request was executed.
Done(a) == pc[a] = "idle" \/ (pc[a] = "await" /\ stage[a] = "end" /\ ~ InSlot(a))

CallerInv ==
  /\ RequestOutlivesSlot
  /\ slot # None => slot.req \in StageRequests(stage[slot.by])
  /\ \A a \in Callers : pc[a] \in {"send", "await"} => stage[a] # "none"
  /\ (localAlive /\ \A a \in Callers : Done(a)) => Restored(h)

IInv == TypeOK /\ StateOK(h) /\ SessionInv /\ CallerInv

-----------------------------------------------------------------------------
(* Facts about the operators requests are made of.                         *)

\* Profile::stop restores the process from any state requests can reach.
LEMMA EndRestored ==
  ASSUME NEW s, StateOK(s)
  PROVE  /\ StateOK(EndProfile(s))
         /\ Restored(EndProfile(s))
         /\ ~ EndProfile(s).profile
<1> DEFINE e == [s EXCEPT !.enabled = @ \ Matched(s.active)]
<1>1. e.enabled = {} /\ StateOK(e)
  BY DEF StateOK, State
<1> DEFINE p == DisablePerfEvents(e)
<1>p. /\ p \in State /\ p.enabled = {} /\ ~ p.perf /\ p.recorder = e.recorder
      /\ p.attrs # "enabled" /\ (p.attached => p.attrs = "failed")
  <2> HIDE DEF e
  <2> QED BY <1>1 DEF DisablePerfEvents, State, Attrs, StateOK
<1> DEFINE d == DisablePMU(e)
<1>2. /\ d \in State /\ d.enabled = {} /\ ~ d.gp /\ ~ d.fixed /\ ~ d.perf
      /\ d.attrs # "enabled" /\ (d.attached => d.attrs = "failed")
      /\ d.recorder \in {"expandable", "custom"}
  <2>1. d = [p EXCEPT !.gp = FALSE, !.fixed = FALSE,
                      !.recorder = IF PmcCount(e) THEN "expandable" ELSE @]
    BY DEF DisablePMU
  <2>2. e.recorder \in {"pmc", "perf"} => PmcCount(e)
    BY <1>1 DEF StateOK, PmcCount
  <2> HIDE DEF d, e, p
  <2> QED BY <1>p, <2>1, <2>2 DEF State, Recorders
<1>3. EndProfile(s) = [[d EXCEPT !.recorder = IF @ = "custom" THEN "expandable" ELSE @] EXCEPT !.profile = FALSE]
  BY DEF EndProfile, Stop
<1> HIDE DEF d, e, p
<1>4. /\ EndProfile(s) \in State /\ EndProfile(s).enabled = {}
      /\ ~ EndProfile(s).gp /\ ~ EndProfile(s).fixed /\ ~ EndProfile(s).perf
      /\ EndProfile(s).attrs # "enabled"
      /\ EndProfile(s).attached => EndProfile(s).attrs = "failed"
      /\ ~ EndProfile(s).profile /\ EndProfile(s).recorder = "expandable"
  BY <1>2, <1>3 DEF State, Recorders
<1>5. QED
  BY <1>4 DEF StateOK, Restored

\* A request keeps the state well formed, and if it ends a profile it restores
\* the process.
LEMMA OutcomeOK ==
  ASSUME NEW s, StateOK(s), NEW r \in Request, NEW o \in Outcomes(s, r)
  PROVE  /\ StateOK(o.h)
         /\ o.ok \in BOOLEAN
         /\ (s.profile /\ ~ o.h.profile) => Restored(o.h)
         /\ r.op = "endProfile" => Restored(o.h)
<1>1. CASE r \in Ping
  <2>1. r.op = "ping" /\ o = Ok(s)
    BY <1>1 DEF Ping, Outcomes
  <2>2. o.h = s /\ o.ok = TRUE
    BY <2>1 DEF Ok
  <2>3. QED BY <2>1, <2>2
<1>2. CASE r \in ProbeRequest
  <2>1. CASE r.op = "activateProbe"
    <3>1. o.h = ActivateProbe(s, r.key) /\ o.ok = TRUE /\ r.key \in Keys
      BY <1>2, <2>1 DEF ProbeRequest, Outcomes, Ok
    <3>2. ActivateProbe(s, r.key) \in State
      BY <3>1, MatchesAssumption DEF ActivateProbe, StateOK, State
    <3>3. /\ ActivateProbe(s, r.key).enabled = s.enabled \cup Matches[r.key]
          /\ ActivateProbe(s, r.key).active = s.active \cup {r.key}
          /\ ActivateProbe(s, r.key).recorder = s.recorder
          /\ ActivateProbe(s, r.key).gp = s.gp
          /\ ActivateProbe(s, r.key).fixed = s.fixed
          /\ ActivateProbe(s, r.key).profile = s.profile
          /\ ActivateProbe(s, r.key).perf = s.perf
          /\ ActivateProbe(s, r.key).attrs = s.attrs
          /\ ActivateProbe(s, r.key).attached = s.attached
      BY DEF ActivateProbe, StateOK, State
    <3>4. s.enabled \cup Matches[r.key] \subseteq Matched(s.active \cup {r.key})
      BY <3>1 DEF StateOK, Matched
    <3>5. QED BY <2>1, <3>1, <3>2, <3>3, <3>4 DEF StateOK
  <2>2. CASE r.op = "deactivateProbe"
    <3>1. o.h = DeactivateProbe(s, r.key) /\ o.ok = TRUE /\ r.key \in Keys
      BY <1>2, <2>2 DEF ProbeRequest, Outcomes, Ok
    <3>2. DeactivateProbe(s, r.key) \in State
      BY <3>1 DEF DeactivateProbe, StateOK, State
    <3>3. /\ DeactivateProbe(s, r.key).enabled = s.enabled \ Matches[r.key]
          /\ DeactivateProbe(s, r.key).active = s.active \ {r.key}
          /\ DeactivateProbe(s, r.key).recorder = s.recorder
          /\ DeactivateProbe(s, r.key).gp = s.gp
          /\ DeactivateProbe(s, r.key).fixed = s.fixed
          /\ DeactivateProbe(s, r.key).profile = s.profile
          /\ DeactivateProbe(s, r.key).perf = s.perf
          /\ DeactivateProbe(s, r.key).attrs = s.attrs
          /\ DeactivateProbe(s, r.key).attached = s.attached
      BY DEF DeactivateProbe, StateOK, State
    <3>4. s.enabled \ Matches[r.key] \subseteq Matched(s.active \ {r.key})
      BY <3>1 DEF StateOK, Matched
    <3>5. QED BY <2>2, <3>1, <3>2, <3>3, <3>4 DEF StateOK
  <2>3. QED BY <1>2, <2>1, <2>2 DEF ProbeRequest
<1>3. CASE r \in PmuRequest
  <2>1. CASE r.op = "activatePmu"
    <3>1. o.h = ActivatePmu(s, r.gp, r.fixed) /\ o.ok = TRUE /\ r.gp \in BOOLEAN /\ r.fixed \in BOOLEAN
      BY <1>3, <2>1 DEF PmuRequest, Outcomes, Ok
    <3>2. QED
      BY <2>1, <3>1 DEF ActivatePmu, PmcCount, StateOK, State, Recorders
  <2>2. CASE r.op = "activatePerfEvents"
    <3>1. r.gp \in BOOLEAN /\ r.fixed \in BOOLEAN
      BY <1>3 DEF PmuRequest
    <3>2. CASE o = Failed(s)
      <4>1. o.h = s /\ o.ok = FALSE
        BY <3>2 DEF Failed
      <4>2. QED BY <2>2, <4>1
    <3>3. CASE o = Failed([s EXCEPT !.attrs = "failed"]) /\ ~ s.perf
      <4>1. o.h = [s EXCEPT !.attrs = "failed"] /\ o.ok = FALSE
        BY <3>3 DEF Failed
      <4>2. QED BY <2>2, <3>3, <4>1 DEF StateOK, State, Attrs
    <3>4. ASSUME NEW threads \in {TRUE, s.attached}, r.gp \/ r.fixed,
                 o = Ok([s EXCEPT !.perf = TRUE, !.attrs = "enabled", !.attached = threads,
                                  !.gp = r.gp, !.fixed = @ \/ r.fixed, !.recorder = "perf"])
          PROVE  StateOK(o.h) /\ o.ok \in BOOLEAN /\ o.h.profile = s.profile
      <4> DEFINE e == [s EXCEPT !.perf = TRUE, !.attrs = "enabled", !.attached = threads,
                                !.gp = r.gp, !.fixed = @ \/ r.fixed, !.recorder = "perf"]
      <4>1. e \in State
        BY <3>1 DEF StateOK, State, Recorders, Attrs
      <4>2. /\ e.enabled = s.enabled /\ e.active = s.active /\ e.profile = s.profile
            /\ e.gp = r.gp /\ e.fixed = (s.fixed \/ r.fixed) /\ e.perf = TRUE
            /\ e.attrs = "enabled"
        BY <3>1 DEF StateOK, State, Recorders
      <4>3. o.h = e /\ o.ok = TRUE
        BY <3>4 DEF Ok
      <4>4. QED BY <3>1, <3>4, <4>1, <4>2, <4>3 DEF StateOK
    <3>6. \/ o = Failed(s)
          \/ o = Failed([s EXCEPT !.attrs = "failed"]) /\ ~ s.perf
          \/ /\ r.gp \/ r.fixed
             /\ \E threads \in {TRUE, s.attached} :
                  o = Ok([s EXCEPT !.perf = TRUE, !.attrs = "enabled", !.attached = threads,
                                   !.gp = r.gp, !.fixed = @ \/ r.fixed, !.recorder = "perf"])
      BY <2>2, <3>1 DEF Outcomes, EnablePerfEvents
    <3>5. QED BY <2>2, <3>2, <3>3, <3>4, <3>6
  <2>3. QED BY <1>3, <2>1, <2>2 DEF PmuRequest
<1>4. CASE r \in BeginRequest
  <2>1. r.op = "beginProfile" /\ r.interval \in Intervals /\ o \in Begin(s, r.interval, r.custom)
    BY <1>4 DEF BeginRequest, Outcomes
  <2> DEFINE c == [s EXCEPT !.recorder = "custom"]
  <2>2. StateOK(c) /\ c.profile = s.profile
    BY DEF StateOK, State, Recorders
  <2>3. ASSUME NEW t, StateOK(t), o \in BeginProfile(t, r.interval)
        PROVE  StateOK(o.h) /\ o.ok \in BOOLEAN /\ (t.profile => o.h.profile)
    <3>1. CASE o = Failed(t)
      BY <2>3, <3>1 DEF Failed
    <3>2. CASE o = Ok([t EXCEPT !.interval = r.interval, !.profile = TRUE])
      BY <2>1, <2>3, <3>2 DEF Ok, StateOK, State
    <3>3. CASE o = Failed([t EXCEPT !.interval = r.interval])
      BY <2>1, <2>3, <3>3 DEF Failed, StateOK, State
    <3>4. QED BY <2>3, <3>1, <3>2, <3>3 DEF BeginProfile
  <2>4. o = Failed(s) \/ o \in BeginProfile(s, r.interval) \/ o \in BeginProfile(c, r.interval)
    BY <2>1 DEF Begin
  <2>5. StateOK(o.h) /\ o.ok \in BOOLEAN /\ (s.profile => o.h.profile)
    <3>1. CASE o = Failed(s)
      <4>1. o.h = s /\ o.ok = FALSE
        BY <3>1 DEF Failed
      <4>2. QED BY <4>1
    <3>2. CASE o \in BeginProfile(s, r.interval)
      BY <2>3, <3>2
    <3>3. CASE o \in BeginProfile(c, r.interval)
      BY <2>2, <2>3, <3>3
    <3>4. QED BY <2>4, <3>1, <3>2, <3>3
  <2>6. QED BY <2>1, <2>5
<1>5. CASE r \in EndRequest
  <2>1. o.h = EndProfile(s) /\ o.ok = s.profile
    BY <1>5 DEF EndRequest, Outcomes
  <2>2. QED BY <2>1, EndRestored DEF StateOK, State
<1>6. QED
  BY <1>1, <1>2, <1>3, <1>4, <1>5 DEF Request

\* A thread that attaches perf events keeps the state well formed, and attaches none
\* once a profile has ended but those of a failed enable.
LEMMA AttachOK ==
  ASSUME NEW s, StateOK(s)
  PROVE  /\ StateOK(AttachPerfEvents(s))
         /\ AttachPerfEvents(s).profile = s.profile
         /\ Restored(s) => Restored(AttachPerfEvents(s))
<1> DEFINE e == [s EXCEPT !.attached = TRUE]
<1>1. CASE s.attrs = "none"
  BY <1>1 DEF AttachPerfEvents
<1>2. CASE s.attrs # "none"
  <2>1. AttachPerfEvents(s) = e
    BY <1>2 DEF AttachPerfEvents
  <2>2. /\ e \in State /\ e.enabled = s.enabled /\ e.active = s.active /\ e.profile = s.profile
        /\ e.recorder = s.recorder /\ e.gp = s.gp /\ e.fixed = s.fixed /\ e.perf = s.perf
        /\ e.attrs = s.attrs
    BY DEF StateOK, State
  <2>3. s.attrs \in {"none", "enabled", "failed"}
    BY DEF StateOK, State, Attrs
  <2> HIDE DEF e
  <2> QED BY <1>2, <2>1, <2>2, <2>3 DEF StateOK, Restored
<1>3. QED BY <1>1, <1>2

-----------------------------------------------------------------------------
(* The steps.                                                              *)

\* RemoteSession::resetClient ends a profile, and so restores the process.
LEMMA ResetOK ==
  ASSUME NEW s, StateOK(s), ResetClient(s)
  PROVE  /\ StateOK(h')
         /\ ~ h'.profile
         /\ s.profile => Restored(h')
<1>1. CASE s.profile
  BY <1>1, EndRestored DEF ResetClient
<1>2. CASE ~ s.profile
  BY <1>2 DEF ResetClient
<1>3. QED BY <1>1, <1>2

\* The steps that leave h alone.
HandlerIdle ==
  \/ PollLocalIdle \/ AbortLocal \/ AcceptNone \/ Accept \/ Refuse \/ AcceptThrows
  \/ ClientIdle \/ Work \/ Halt
  \/ \E a \in Callers : Profile(a) \/ Enqueue(a) \/ Awaited(a) \/ DestroyGuard(a)
  \/ \E c \in Clients : Connect(c) \/ Send(c) \/ Disconnect(c)

\* None of them changes what requests act on.
LEMMA HandlerIdleUnchanged == HandlerIdle => h' = h
  BY DEF HandlerIdle, PollLocalIdle, AbortLocal, AcceptNone, Accept, Refuse, AcceptThrows,
         ClientIdle, Work, Halt, Profile, Enqueue, Awaited, DestroyGuard, Connect, Send, Disconnect,
         callerUnchanged, clientUnchanged

\* A step leaves h alone, executes a request, drops the client or starts a thread.
LEMMA NextSplit ==
  Next => \/ HandlerIdle \/ ExecuteLocal \/ ExecuteRemote \/ WriteFails \/ DropClient \/ Shutdown
          \/ StartThread
  BY DEF Next, Framework, HandlerIdle

\* Every step keeps the state well formed and restores the process if it ends a
\* profile.
LEMMA StateStep ==
  ASSUME IInv, [Next]_vars
  PROVE  /\ StateOK(h')
         /\ (h.profile /\ ~ h'.profile) => Restored(h')
<1>1. CASE h' = h
  BY <1>1 DEF IInv
<1>2. CASE ExecuteLocal
  <2>1. slot.req \in Request
    BY <1>2 DEF ExecuteLocal, IInv, TypeOK
  <2>2. PICK o \in Outcomes(h, slot.req) : h' = o.h
    BY <1>2 DEF ExecuteLocal
  <2>3. QED BY <2>1, <2>2, OutcomeOK DEF IInv
<1>3. CASE ExecuteRemote
  <2>1. inbox[client] \in Request
    BY <1>3 DEF ExecuteRemote, IInv, TypeOK
  <2>2. PICK o \in Outcomes(h, inbox[client]) : h' = o.h
    BY <1>3 DEF ExecuteRemote
  <2>3. QED BY <2>1, <2>2, OutcomeOK DEF IInv
<1>4. CASE WriteFails
  <2>1. inbox[client] \in Request
    BY <1>4 DEF WriteFails, IInv, TypeOK
  <2>2. PICK o \in Outcomes(h, inbox[client]) : ResetClient(o.h)
    BY <1>4 DEF WriteFails
  <2>3. StateOK(o.h) /\ ((h.profile /\ ~ o.h.profile) => Restored(o.h))
    BY <2>1, <2>2, OutcomeOK DEF IInv
  <2>4. ~ o.h.profile => h' = o.h
    BY <2>2 DEF ResetClient
  <2>5. QED BY <2>2, <2>3, <2>4, ResetOK
<1>5. CASE DropClient \/ Shutdown
  BY <1>5, ResetOK DEF DropClient, Shutdown, IInv
<1>6. CASE StartThread
  BY <1>6, AttachOK DEF StartThread, IInv
<1>7. QED
  BY <1>1, <1>2, <1>3, <1>4, <1>5, <1>6, NextSplit, HandlerIdleUnchanged DEF vars

\* The parts of a sequence that is not empty.
LEMMA HeadTail ==
  ASSUME NEW S, NEW q \in Seq(S), q # <<>>
  PROVE  Head(q) \in S /\ Tail(q) \in Seq(S)
  OBVIOUS

\* A request in the slot is not the empty slot.
LEMMA SlotNotNone ==
  ASSUME NEW a \in Callers, NEW r \in Request
  PROVE  [by |-> a, req |-> r] # None
  BY NoneAssumption

\* Where a caller goes once its request is answered.  Only a caller whose last
\* request is answered becomes idle.
LEMMA AwaitedNext ==
  ASSUME IInv, NEW a \in Callers, Awaited(a)
  PROVE  \E next \in {"none", "probe", "begin", "end"} :
           /\ stage' = [stage EXCEPT ![a] = next]
           /\ pc' = [pc EXCEPT ![a] = IF next # "none" THEN "send"
                                      ELSE IF stage[a] = "begin" THEN "guard" ELSE "idle"]
           /\ next = "none" => stage[a] \in {"begin", "end"}
<1>1. stage[a] \in {"perf", "probe", "begin", "end"} /\ rsp[a] \in BOOLEAN
  BY DEF IInv, TypeOK, CallerInv, Awaited
<1>2. CASE stage[a] = "end" \/ (rsp[a] /\ stage[a] = "begin")
  BY <1>1, <1>2 DEF Awaited
<1>3. CASE stage[a] # "end" /\ ~ rsp[a]
  BY <1>1, <1>3 DEF Awaited
<1>4. CASE rsp[a] /\ stage[a] = "perf"
  BY <1>1, <1>4 DEF Awaited
<1>5. CASE rsp[a] /\ stage[a] = "probe"
  BY <1>1, <1>5 DEF Awaited
<1>6. QED BY <1>1, <1>2, <1>3, <1>4, <1>5

\* Every step keeps the types.
LEMMA TypeStep == ASSUME IInv, [Next]_vars PROVE TypeOK'
<1> USE DEF IInv, TypeOK, localVars, remoteVars
<1>h. h' \in State
  BY StateStep DEF StateOK
<1>1. CASE PollLocalIdle \/ AcceptNone \/ AcceptThrows \/ ClientIdle \/ Work \/ Halt
  BY <1>1 DEF PollLocalIdle, AcceptNone, AcceptThrows, ClientIdle, Work, Halt, AfterLocal, AfterRemote
<1>2. CASE ExecuteLocal
  <2>1. PICK o \in Outcomes(h, slot.req) : rsp' = [rsp EXCEPT ![slot.by] = o.ok]
    BY <1>2 DEF ExecuteLocal
  <2>2. o.ok \in BOOLEAN
    BY <1>2, OutcomeOK DEF ExecuteLocal
  <2>3. rsp' \in [Callers -> BOOLEAN]
    BY <2>1, <2>2
  <2>4. QED BY <1>h, <1>2, <2>3 DEF ExecuteLocal, AfterLocal
<1>3. CASE AbortLocal
  BY <1>3 DEF AbortLocal, AfterLocal
<1>4. CASE Accept \/ Refuse
  <2>0. backlog \in Seq(Clients) /\ backlog # <<>> /\ backlog' = Tail(backlog)
    BY <1>4 DEF Accept, Refuse
  <2>1. Head(backlog) \in Clients /\ backlog' \in Seq(Clients)
    BY <2>0, HeadTail
  <2>2. CASE Accept
    BY <2>1, <2>2 DEF Accept
  <2>3. CASE Refuse
    BY <2>1, <2>3 DEF Refuse
  <2>4. QED BY <1>4, <2>2, <2>3
<1>5. CASE ExecuteRemote
  BY <1>h, <1>5 DEF ExecuteRemote
<1>6. ASSUME NEW s, ResetClient(s)
      PROVE  /\ client' = None
             /\ inbox' \in [Clients -> Request \cup {None}]
             /\ closed' \in [Clients -> BOOLEAN]
  BY <1>6 DEF ResetClient
<1>7. CASE WriteFails
  <2>1. PICK o \in Outcomes(h, inbox[client]) : ResetClient(o.h)
    BY <1>7 DEF WriteFails
  <2>2. QED BY <1>h, <1>6, <1>7, <2>1 DEF WriteFails, AfterRemote
<1>8. CASE DropClient \/ Shutdown
  <2>1. ResetClient(h)
    BY <1>8 DEF DropClient, Shutdown
  <2>2. QED BY <1>h, <1>6, <1>8, <2>1 DEF DropClient, Shutdown, AfterRemote
<1>9. ASSUME NEW a \in Callers, Profile(a) \/ Enqueue(a) \/ Awaited(a) \/ DestroyGuard(a)
      PROVE  TypeOK'
  <2>1. CASE Profile(a) \/ DestroyGuard(a)
    BY <2>1 DEF Profile, DestroyGuard, callerUnchanged
  <2>2. CASE Enqueue(a)
    BY <2>2, RequestsAssumption DEF Enqueue, StageRequests, callerUnchanged
  <2>3. CASE Awaited(a)
    <3>1. PICK next \in {"none", "probe", "begin", "end"} :
             /\ stage' = [stage EXCEPT ![a] = next]
             /\ pc' = [pc EXCEPT ![a] = IF next # "none" THEN "send"
                                        ELSE IF stage[a] = "begin" THEN "guard" ELSE "idle"]
      BY <2>3, AwaitedNext
    <3>2. pc' \in [Callers -> {"idle", "send", "await", "guard"}]
      BY <3>1
    <3>3. stage' \in [Callers -> {"none", "perf", "probe", "begin", "end"}]
      BY <3>1
    <3>4. QED BY <2>3, <3>2, <3>3 DEF Awaited, callerUnchanged
  <2>4. QED BY <1>9, <2>1, <2>2, <2>3
<1>10. ASSUME NEW c \in Clients, Connect(c) \/ Send(c) \/ Disconnect(c)
       PROVE  TypeOK'
  <2>1. CASE Connect(c)
    <3>1. backlog' \in Seq(Clients)
      BY <2>1 DEF Connect
    <3>2. QED BY <2>1, <3>1 DEF Connect, clientUnchanged
  <2>3. CASE Disconnect(c)
    BY <2>3 DEF Disconnect, clientUnchanged
  <2>2. CASE Send(c)
    BY <2>2, RequestsAssumption DEF Send, RemoteRequests, clientUnchanged
  <2>4. QED BY <1>10, <2>1, <2>2, <2>3
<1>11. CASE UNCHANGED vars
  BY <1>11 DEF vars
<1>13. CASE StartThread
  BY <1>h, <1>13 DEF StartThread
<1>12. QED
  BY <1>1, <1>2, <1>3, <1>4, <1>5, <1>7, <1>8, <1>9, <1>10, <1>11, <1>13 DEF Next, Framework

\* Every step keeps the meaning of the session type.
LEMMA SessionStep == ASSUME IInv, [Next]_vars PROVE SessionInv'
<1> USE DEF IInv, TypeOK, SessionInv, localVars, remoteVars
<1>1. CASE PollLocalIdle \/ AcceptNone \/ AcceptThrows \/ ClientIdle \/ Work \/ Halt
  BY <1>1 DEF PollLocalIdle, AcceptNone, AcceptThrows, ClientIdle, Work, Halt, AfterLocal, AfterRemote
<1>2. CASE ExecuteLocal
  BY <1>2 DEF ExecuteLocal, AfterLocal, CanServeLocal
<1>3. CASE AbortLocal
  BY <1>3 DEF AbortLocal, AfterLocal
<1>4. CASE Accept \/ Refuse
  BY <1>4, ActorsAssumption DEF Accept, Refuse, CanServeRemote
<1>5. CASE ExecuteRemote
  BY <1>5 DEF ExecuteRemote
<1>6. CASE WriteFails
  <2>1. PICK o \in Outcomes(h, inbox[client]) : ResetClient(o.h)
    BY <1>6 DEF WriteFails
  <2>2. StateOK(o.h)
    BY <1>6, <2>1, OutcomeOK DEF WriteFails
  <2>3. ~ h'.profile /\ client' = None
    BY <2>1, <2>2, ResetOK DEF ResetClient
  <2>4. QED BY <1>6, <2>3 DEF WriteFails, AfterRemote, CanServeRemote
<1>7. CASE DropClient \/ Shutdown
  <2>1. ~ h'.profile /\ client' = None
    BY <1>7, ResetOK DEF DropClient, Shutdown, ResetClient
  <2>2. QED BY <1>7, <2>1 DEF DropClient, Shutdown, AfterRemote, CanServeRemote
<1>8. ASSUME NEW a \in Callers, Profile(a) \/ Enqueue(a) \/ Awaited(a) \/ DestroyGuard(a)
      PROVE  SessionInv'
  BY <1>8 DEF Profile, Enqueue, Awaited, DestroyGuard, callerUnchanged
<1>9. ASSUME NEW c \in Clients, Connect(c) \/ Send(c) \/ Disconnect(c)
      PROVE  SessionInv'
  BY <1>9 DEF Connect, Send, Disconnect, clientUnchanged
<1>10. CASE UNCHANGED vars
  BY <1>10 DEF vars
<1>12. CASE StartThread
  BY <1>12, AttachOK DEF StartThread
<1>11. QED
  BY <1>1, <1>2, <1>3, <1>4, <1>5, <1>6, <1>7, <1>8, <1>9, <1>10, <1>12 DEF Next, Framework

\* Every step keeps what is known of the callers.
LEMMA CallerStep == ASSUME IInv, [Next]_vars PROVE CallerInv'
<1> USE DEF IInv, TypeOK, CallerInv, RequestOutlivesSlot, InSlot, Done, localVars
<1>1. CASE UNCHANGED <<h, localAlive, localVars>>
  <2>1. UNCHANGED <<h, localAlive, slot, pc, stage, rsp>>
    BY <1>1
  <2>2. QED BY <2>1 DEF Restored
<1>2. CASE ExecuteLocal
  <2>0. PICK b \in Callers : b = slot.by
    BY <1>2 DEF ExecuteLocal
  <2>1. slot.req \in Request /\ pc[b] = "await"
        /\ slot.req \in StageRequests(stage[b]) /\ slot' = None /\ UNCHANGED <<pc, stage>>
    BY <1>2, <2>0 DEF ExecuteLocal
  <2>2. PICK o \in Outcomes(h, slot.req) : h' = o.h
    BY <1>2 DEF ExecuteLocal
  <2>3. stage[b] = "end" => Restored(h')
    <3>1. stage[b] = "end" => slot.req.op = "endProfile"
      BY <2>1 DEF StageRequests
    <3>2. QED BY <2>1, <2>2, <3>1, OutcomeOK
  <2>4. Done(b)' => Restored(h')
    BY <2>1, <2>3
  <2>5. QED BY <2>1, <2>4
<1>3. CASE AbortLocal
  <2>1. ~ localAlive
    BY <1>3 DEF AbortLocal, CanServeLocal, SessionInv
  <2>2. QED BY <1>3, <2>1 DEF AbortLocal
<1>4. CASE ExecuteRemote \/ WriteFails \/ DropClient
  <2>1. ~ localAlive
    BY <1>4 DEF ExecuteRemote, WriteFails, DropClient, SessionInv
  <2>2. UNCHANGED <<localAlive, slot, pc, stage>>
    BY <1>4 DEF ExecuteRemote, WriteFails, DropClient
  <2>3. QED BY <2>1, <2>2
<1>5. CASE Shutdown
  <2>1. UNCHANGED <<localAlive, slot, pc, stage>> /\ ResetClient(h)
    BY <1>5 DEF Shutdown
  <2>2. Restored(h) => Restored(h')
    BY <2>1, EndRestored DEF ResetClient
  <2>3. QED BY <2>1, <2>2
<1>6. ASSUME NEW a \in Callers, Profile(a) \/ Enqueue(a) \/ Awaited(a) \/ DestroyGuard(a)
      PROVE  CallerInv'
  <2>1. UNCHANGED <<h, localAlive>>
    BY <1>6 DEF Profile, Enqueue, Awaited, DestroyGuard, callerUnchanged
  <2>2. CASE Profile(a) \/ DestroyGuard(a)
    <3>1. /\ slot' = slot /\ pc[a] # "await" /\ pc' = [pc EXCEPT ![a] = "send"]
          /\ \E x \in {"perf", "probe", "end"} : stage' = [stage EXCEPT ![a] = x]
      BY <2>2 DEF Profile, DestroyGuard
    <3>2. ~ Done(a)'
      BY <3>1
    <3>3. QED BY <3>1, <3>2
  <2>3. CASE Enqueue(a)
    <3>1. PICK r \in StageRequests(stage[a]) : slot' = [by |-> a, req |-> r]
      BY <2>3 DEF Enqueue
    <3>2. slot'.by = a /\ slot'.req = r /\ slot' # None
      BY <3>1, RequestsAssumption, SlotNotNone DEF StageRequests
    <3>3. stage' = stage /\ pc' = [pc EXCEPT ![a] = "await"] /\ pc[a] = "send"
      BY <2>3 DEF Enqueue
    <3>4. ~ Done(a)'
      BY <3>2, <3>3
    <3>5. QED BY <3>2, <3>3, <3>4
  <2>4. CASE Awaited(a)
    <3>1. PICK next \in {"none", "probe", "begin", "end"} :
            /\ stage' = [stage EXCEPT ![a] = next]
            /\ pc' = [pc EXCEPT ![a] = IF next # "none" THEN "send"
                                       ELSE IF stage[a] = "begin" THEN "guard" ELSE "idle"]
            /\ next = "none" => stage[a] \in {"begin", "end"}
      BY <2>4, AwaitedNext
    <3>2. slot' = slot /\ pc[a] = "await" /\ ~ InSlot(a)
      BY <2>4 DEF Awaited
    <3>3. Done(a)' => Done(a)
      BY <3>1, <3>2
    <3>4. \A x \in Callers : Done(x)' => Done(x)
      BY <3>1, <3>2, <3>3
    <3>5. \A x \in Callers : pc'[x] \in {"send", "await"} => stage'[x] # "none"
      BY <3>1
    <3>6. slot' # None => slot'.req \in StageRequests(stage'[slot'.by]) /\ pc'[slot'.by] = "await"
      BY <3>1, <3>2
    <3>7. QED BY <2>1, <3>4, <3>5, <3>6 DEF Restored
  <2>5. QED BY <1>6, <2>2, <2>3, <2>4
<1>7. CASE Halt \/ PollLocalIdle \/ AcceptNone \/ Accept \/ Refuse \/ AcceptThrows \/ ClientIdle \/ Work
  BY <1>1, <1>7 DEF Halt, PollLocalIdle, AcceptNone, Accept, Refuse, AcceptThrows, ClientIdle, Work
<1>8. ASSUME NEW c \in Clients, Connect(c) \/ Send(c) \/ Disconnect(c)
      PROVE  CallerInv'
  BY <1>1, <1>8 DEF Connect, Send, Disconnect, clientUnchanged
<1>9. CASE UNCHANGED vars
  BY <1>1, <1>9 DEF vars
<1>11. CASE StartThread
  <2>1. UNCHANGED <<localAlive, slot, pc, stage>> /\ h' = AttachPerfEvents(h)
    BY <1>11 DEF StartThread
  <2>2. Restored(h) => Restored(h')
    BY <2>1, AttachOK
  <2>3. QED BY <2>1, <2>2
<1>10. QED
  BY <1>2, <1>3, <1>4, <1>5, <1>6, <1>7, <1>8, <1>9, <1>11 DEF Next, Framework

\* The initial states satisfy the invariant.
LEMMA IInvInit == Init => IInv
<1> SUFFICES ASSUME Init PROVE IInv
  OBVIOUS
<1>1. TypeOK
  <2>1. h \in State
    BY DEF Init, State, Fresh, Recorders, Intervals, Attrs
  <2>2. backlog \in Seq(Clients)
    BY DEF Init
  <2>3. inbox \in [Clients -> Request \cup {None}] /\ closed \in [Clients -> BOOLEAN]
    BY DEF Init
  <2>4. QED BY <2>1, <2>2, <2>3 DEF Init, TypeOK
<1>2. StateOK(h)
  BY <1>1 DEF Init, TypeOK, Fresh, StateOK, Matched, Attrs
<1>3. SessionInv /\ CallerInv
  BY DEF Init, Fresh, SessionInv, CallerInv, RequestOutlivesSlot
<1>4. QED BY <1>1, <1>2, <1>3 DEF IInv

\* The invariant holds in every reachable state.
LEMMA IInvAlways == Spec => []IInv
<1>1. ASSUME IInv, [Next]_vars PROVE IInv'
  BY <1>1, TypeStep, StateStep, SessionStep, CallerStep DEF IInv
<1>2. QED BY <1>1, IInvInit, PTL DEF Spec

-----------------------------------------------------------------------------
(* The theorems.                                                           *)

\* Type correctness.
THEOREM TypeCorrect == Spec => []TypeOK
<1>1. IInv => TypeOK
  BY DEF IInv
<1>2. QED BY <1>1, IInvAlways, PTL

\* A local and a remote session never coexist, and the assertions of
\* SessionManager::poll cannot fail.
THEOREM SessionsExclusiveHolds == Spec => []SessionsExclusive
<1>1. IInv => SessionsExclusive
  BY DEF IInv, SessionInv, SessionsExclusive
<1>2. QED BY <1>1, IInvAlways, PTL

\* A profile is active only within a session, so that handler.poll runs for it.
THEOREM ProfileHasSessionHolds == Spec => []ProfileHasSession
<1>1. IInv => ProfileHasSession
  BY DEF IInv, SessionInv, ProfileHasSession, TypeOK
<1>2. QED BY <1>1, IInvAlways, PTL

\* No request on the stack of a caller outlives the call that owns it.
THEOREM RequestOutlivesSlotHolds == Spec => []RequestOutlivesSlot
<1>1. IInv => RequestOutlivesSlot
  BY DEF IInv, CallerInv
<1>2. QED BY <1>1, IInvAlways, PTL

\* A framework::profile that has failed, and a guard that is gone, leave the process
\* restored.
THEOREM LocalLeavesNothingHolds == Spec => []LocalLeavesNothing
<1>1. IInv => LocalLeavesNothing
  BY DEF IInv, CallerInv, LocalLeavesNothing, Done
<1>2. QED BY <1>1, IInvAlways, PTL

\* However a profile ends, the step that ends it restores the process.
THEOREM EndRestoresHolds == Spec => EndRestores
<1>1. ASSUME IInv, [Next]_vars PROVE [(h.profile /\ ~ h'.profile) => Restored(h')]_vars
  BY <1>1, StateStep
<1>2. QED BY <1>1, IInvAlways, PTL DEF Spec, EndRestores

-----------------------------------------------------------------------------
(* The guard of the only caller.  With two callers a guard does not keep its *)
(* profile: MCSessionControl_guard.cfg shows the end request of one caller   *)
(* stop the profile of the other.                                            *)

OneCaller == \A a, b \in Callers : a = b

\* A begin request that was executed with success, and the guard made from it.
Begun(a) ==
  \/ pc[a] = "guard"
  \/ pc[a] = "await" /\ ~ InSlot(a) /\ stage[a] = "begin" /\ rsp[a]

GuardInv == \A a \in Callers : (Begun(a) /\ ~ Gone) => h.profile /\ localAlive

\* Handler::beginProfile reports success only with the profile active.
LEMMA BeginOK ==
  ASSUME NEW s, StateOK(s), NEW r \in Request, r.op = "beginProfile",
         NEW o \in Outcomes(s, r), o.ok
  PROVE  o.h.profile
<1>1. r.interval \in Intervals /\ r.custom \in BOOLEAN /\ s \in State
  BY DEF Request, Ping, ProbeRequest, PmuRequest, BeginRequest, EndRequest, StateOK
<1>2. o \in Begin(s, r.interval, r.custom)
  BY DEF Outcomes
<1>3. ASSUME NEW x \in State, o \in BeginProfile(x, r.interval) PROVE o.h.profile
  <2>. DEFINE y == [x EXCEPT !.interval = r.interval, !.profile = TRUE]
              z == [x EXCEPT !.interval = r.interval]
  <2>1. o = Failed(x) \/ o = Ok(y) \/ o = Failed(z)
    BY <1>3 DEF BeginProfile
  <2>2. y.profile = TRUE
    BY DEF State
  <2>. HIDE DEF y, z
  <2>3. o.h = y
    BY <2>1 DEF Failed, Ok
  <2>. QED  BY <2>2, <2>3
<1>4. CASE r.custom
  <2>1. o = Failed(s) \/ o \in BeginProfile([s EXCEPT !.recorder = "custom"], r.interval)
    BY <1>2, <1>4 DEF Begin
  <2>2. o # Failed(s)
    BY DEF Failed
  <2>3. [s EXCEPT !.recorder = "custom"] \in State
    BY <1>1 DEF State, Recorders
  <2>. QED  BY <1>3, <2>1, <2>2, <2>3
<1>5. CASE ~ r.custom
  BY <1>1, <1>2, <1>3, <1>5 DEF Begin
<1>. QED  BY <1>4, <1>5

\* Every step keeps the profile of a guard, if nobody else is a caller: a request
\* in the slot is the caller's own, and a local session keeps clients out.
LEMMA GuardStep == ASSUME OneCaller, IInv, GuardInv, [Next]_vars PROVE GuardInv'
<1>. SUFFICES ASSUME NEW a \in Callers, (Begun(a))', ~ Gone'
              PROVE  h'.profile /\ localAlive'
  BY DEF GuardInv
<1>. USE DEF IInv, TypeOK, Begun, InSlot, Gone, localVars
<1>1. CASE UNCHANGED <<h, localAlive, localVars>> /\ (Gone => Gone')
  BY <1>1 DEF GuardInv
<1>2. CASE ExecuteLocal
  <2>1. slot # None /\ slot.by = a /\ pc[a] = "await" /\ UNCHANGED <<pc, stage>> /\ localAlive'
    BY <1>2 DEF ExecuteLocal, OneCaller, CallerInv, RequestOutlivesSlot
  <2>2. PICK o \in Outcomes(h, slot.req) : h' = o.h /\ rsp' = [rsp EXCEPT ![slot.by] = o.ok]
    BY <1>2 DEF ExecuteLocal
  <2>3. stage[a] = "begin" /\ o.ok
    BY <2>1, <2>2
  <2>4. slot.req \in Request /\ slot.req.op = "beginProfile"
    BY <2>1, <2>3 DEF CallerInv, StageRequests
  <2>. QED  BY <2>1, <2>2, <2>3, <2>4, BeginOK
<1>3. CASE AbortLocal
  <2>1. /\ slot # None /\ slot.by = a /\ pc[a] = "await" /\ pc' = pc
        /\ rsp' = [rsp EXCEPT ![slot.by] = FALSE]
    BY <1>3 DEF AbortLocal, OneCaller, CallerInv, RequestOutlivesSlot
  <2>. QED  BY <2>1
<1>4. CASE ExecuteRemote \/ WriteFails \/ DropClient
  <2>1. client # None /\ ~ Gone /\ UNCHANGED <<pc, stage, rsp, slot>>
    BY <1>4 DEF ExecuteRemote, WriteFails, DropClient
  <2>2. ~ localAlive
    BY <2>1 DEF SessionInv
  <2>. QED  BY <2>1, <2>2 DEF GuardInv
<1>5. CASE Shutdown
  BY <1>5 DEF Shutdown
<1>11. CASE StartThread
  BY <1>11, AttachOK DEF StartThread, GuardInv
<1>6. CASE \E b \in Callers : Profile(b) \/ Enqueue(b) \/ DestroyGuard(b)
  <2>1. PICK b \in Callers : Profile(b) \/ Enqueue(b) \/ DestroyGuard(b)
    BY <1>6
  <2>2. a = b
    BY DEF OneCaller
  <2>3. CASE Profile(a) \/ DestroyGuard(a)
    BY <2>3 DEF Profile, DestroyGuard
  <2>4. CASE Enqueue(a)
    <3>1. PICK r \in StageRequests(stage[a]) : slot' = [by |-> a, req |-> r]
      BY <2>4 DEF Enqueue
    <3>2. slot'.by = a /\ slot' # None
      BY <3>1, RequestsAssumption, SlotNotNone DEF StageRequests
    <3>. QED  BY <2>4, <3>2 DEF Enqueue
  <2>. QED  BY <2>1, <2>2, <2>3, <2>4
<1>7. CASE \E b \in Callers : Awaited(b)
  <2>1. PICK b \in Callers : Awaited(b)
    BY <1>7
  <2>2. a = b
    BY DEF OneCaller
  <2>3. /\ pc[a] = "await" /\ ~ InSlot(a) /\ UNCHANGED <<h, localAlive, fpc>>
    BY <2>1, <2>2 DEF Awaited, callerUnchanged
  <2>4. pc'[a] = "guard"
    BY <2>1, <2>2 DEF Awaited
  <2>5. stage[a] = "begin" /\ rsp[a]
    BY <2>1, <2>2, <2>4 DEF Awaited
  <2>. QED  BY <2>3, <2>5 DEF GuardInv
<1>8. CASE Halt \/ PollLocalIdle \/ AcceptNone \/ Accept \/ Refuse \/ AcceptThrows \/ ClientIdle \/ Work
  BY <1>1, <1>8 DEF Halt, PollLocalIdle, AcceptNone, Accept, Refuse, AcceptThrows, ClientIdle, Work
<1>9. CASE \E c \in Clients : Connect(c) \/ Send(c) \/ Disconnect(c)
  BY <1>1, <1>9 DEF Connect, Send, Disconnect, clientUnchanged
<1>10. CASE UNCHANGED vars
  BY <1>1, <1>10 DEF vars
<1>. QED
  BY <1>2, <1>3, <1>4, <1>5, <1>6, <1>7, <1>8, <1>9, <1>10, <1>11 DEF Next, Framework

\* As long as one application thread profiles, the profile of its guard is active
\* until the guard is destroyed or the framework goes down, whatever any number of
\* remote profilers do (SessionGuard, LocalSession, RemoteSession).
THEOREM GuardKeepsProfileOfOne == ASSUME OneCaller PROVE Spec => []GuardKeepsProfile
<1>1. Init => GuardInv
  BY DEF Init, GuardInv, Begun
<1>2. GuardInv => GuardKeepsProfile
  BY DEF GuardInv, GuardKeepsProfile, Begun
<1>3. IInv /\ GuardInv /\ [Next]_vars => GuardInv'
  BY GuardStep
<1>. QED  BY <1>1, <1>2, <1>3, IInvAlways, PTL DEF Spec

=============================================================================
