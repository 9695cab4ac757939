---------------------------------- MODULE Pmu ----------------------------------
(* How the profiler turns the counters and topdown nodes a user asks for into  *)
(* the registers it asks the kernel module, or the target, to program          *)
(* (pmu/*.py, profiler/runtime.py).                                            *)
(*                                                                             *)
(* The name of an event is <<base, qualifier>>; a qualifier is None, the       *)
(* sequence of the digits of a counter mask, or Other. Two events are equal    *)
(* when their names are.                                                       *)
(* A counter asked for is [kind, name]: kind "event", or "node" for a node or  *)
(* a metric of the topdown hierarchy.                                          *)
EXTENDS Integers, Sequences, SequencesExt, FiniteSetsExt, StableSort

CONSTANTS
  Databases,   \* record lists of the events database files
  Nodes,       \* topdown ratios: name -> [parent, level, reads], where reads is what
               \* the ratio asks for when the value of every event is 99
  Requested,   \* the lists of counters a profile may ask for
  Cpus,        \* cpuSet
  MaxEvents, MaxGeneric, MaxFixed, MaxOffcore,   \* 11, 8, 3, 2
  Root, None,
  Other        \* a qualifier that is not a counter mask

Finite(S) == S \subseteq Nat /\ IsFiniteSet(S)
IsPair(n) == n = <<n[1], n[2]>>

ASSUME LimitsAssumption == {MaxEvents, MaxGeneric, MaxFixed, MaxOffcore} \subseteq Nat
ASSUME NoneAssumption == None \notin Nat

(* decodePmcList makes sets of register numbers; an event without any is not   *)
(* initialized.                                                                *)
ASSUME DatabasesAssumption ==
  \A records \in Databases :
    /\ Len(records) \in Nat /\ DOMAIN records = 1 .. Len(records)
    /\ \A i \in DOMAIN records :
         /\ Finite(records[i].counter) /\ Finite(records[i].counterHTOff)
         /\ records[i].initialized => records[i].counter \cup records[i].counterHTOff # {}

(* A hierarchy has nodes of the first level; ratios read events.               *)
ASSUME NodesAssumption ==
  /\ IsFiniteSet(DOMAIN Nodes)
  /\ \E node \in DOMAIN Nodes : Nodes[node].level = 1
  /\ \A node \in DOMAIN Nodes : IsFiniteSet(Nodes[node].reads) /\ \A n \in Nodes[node].reads : IsPair(n)

ASSUME RequestedAssumption ==
  \A pmc \in Requested :
    /\ Len(pmc) \in Nat /\ DOMAIN pmc = 1 .. Len(pmc)
    /\ \A i \in DOMAIN pmc : \/ pmc[i].kind = "event" /\ IsPair(pmc[i].name)
                             \/ pmc[i].kind = "node"

VARIABLES
  phase,       \* "loading", "asked", "resolving", "resolved", "allocating",
               \* "ready", "enabled" or "failed"
  error,       \* why it failed, or None
  db,          \* EventsDb.eventsMap
  events,      \* the unique events to program
  todo,        \* those not resolved yet
  offCoreEventCount,
  generic, offcore, fixed,                \* the lists of EventSet
  allocatables, slots, allocation,        \* Allocator
  cpus         \* the cores whose request group was written

setVars   == <<offCoreEventCount, generic, offcore, fixed>>
allocVars == <<allocatables, slots, allocation>>
vars == <<phase, error, db, events, todo, setVars, allocVars, cpus>>

-----------------------------------------------------------------------------
(* EventsLoader.jsonFactory: the attributes of a record become those of an     *)
(* event. GenericCoreEvent.validPmc: the registers that the event may use.     *)
EventType(record) ==
  IF record.offcore THEN "OffCore" ELSE IF record.fixed THEN "FixedCore" ELSE "GenericCore"
ValidPmc(record) == IF record.counterHTOff # {} THEN record.counterHTOff ELSE record.counter
UarchEvent(record) ==
  [name |-> <<record.name, None>>, eventType |-> EventType(record),
   counterMask |-> 0, validPmc |-> ValidPmc(record)]

(* loadJson and loadEventsDb: one bad record makes the load fail.              *)
Loads(records) ==
  records # <<>> /\ \A i \in DOMAIN records : records[i].compatible /\ records[i].initialized
EventsMap(records) ==
  [n \in {records[i].name : i \in DOMAIN records} |->
     UarchEvent(records[Max({i \in DOMAIN records : records[i].name = n})])]

(* CmaskQualifier.match reads the digits in base 16, with or without a prefix. *)
IsCmask(q) == q \notin {None, Other}
CmaskValue(q) == FoldLeft(LAMBDA value, digit : (16 * value) + digit, 0, q)

(* EventsDb.__contains__ and __getitem__.                                      *)
InDb(n) == n[1] \in DOMAIN db /\ (n[2] # None => IsCmask(n[2]))
GetItem(n) == IF n[2] = None THEN db[n[1]]
              ELSE [db[n[1]] EXCEPT !.name = n, !.counterMask = CmaskValue(n[2])]

-----------------------------------------------------------------------------
(* Hierarchy.buildHierarchy: a node is added to its parent's children, one of  *)
(* the first level to the root's.                                              *)
Children(node) ==
  {m \in DOMAIN Nodes : Nodes[m].parent = node \/ (node = Root /\ Nodes[m].level = 1)}

(* Hierarchy.events: what the children ask for, or what a leaf asks for, when  *)
(* they are computed once with 99 for the value of every event.                *)
ReadsOf(node) ==
  IF Children(node) = {} THEN Nodes[node].reads ELSE UNION {Nodes[m].reads : m \in Children(node)}

(* resolveTopdownMetrics and aggregatePmc: the events of the counters and of   *)
(* the nodes asked for, each once, in order.                                   *)
EventsOf(counter) == IF counter.kind = "event" THEN {counter.name} ELSE ReadsOf(counter.name)
HasNode(node) == node \in DOMAIN Nodes \cup {Root}
NodesAsked(pmc) == {pmc[i].name : i \in {j \in DOMAIN pmc : pmc[j].kind = "node"}}
AppendAll(seq, names) == seq \o SetToSeq(names)
AppendNew(seq, names) == seq \o SetToSeq(names \ ToSet(seq))
AggregatePmc(pmc) ==
  LET unique[n \in 0 .. Len(pmc)] == IF n = 0 THEN <<>> ELSE AppendNew(unique[n - 1], EventsOf(pmc[n]))
  IN  unique[Len(pmc)]

-----------------------------------------------------------------------------
Init ==
  /\ phase = "loading" /\ error = None
  /\ db = <<>> /\ events = <<>> /\ todo = <<>>
  /\ offCoreEventCount = 0 /\ generic = <<>> /\ offcore = <<>> /\ fixed = <<>>
  /\ allocatables = <<>> /\ slots = <<>> /\ allocation = <<>>
  /\ cpus = {}

Raise(why) == phase' = "failed" /\ error' = why

LoadEventsDb ==
  /\ phase = "loading"
  /\ \E records \in Databases :
       IF Loads(records)
       THEN db' = EventsMap(records) /\ phase' = "asked" /\ UNCHANGED error
       ELSE Raise("database") /\ UNCHANGED db
  /\ UNCHANGED <<events, todo, setVars, allocVars, cpus>>

(* Runtime: resolves the counters of the profile; resolveEvents then refuses a *)
(* list that is too long.                                                      *)
ResolveCounters(pmc) ==
  /\ phase = "asked"
  /\ IF \A node \in NodesAsked(pmc) : HasNode(node)
     THEN /\ events' = AggregatePmc(pmc)
          /\ todo' = events'
          /\ IF Len(events') > MaxEvents THEN Raise("count")
             ELSE phase' = "resolving" /\ UNCHANGED error
     ELSE Raise("node") /\ UNCHANGED <<events, todo>>
  /\ UNCHANGED <<db, setVars, allocVars, cpus>>

(* PMUCtrl.__enter__: there is no device to open, or no cpu to enable.         *)
OpenFails ==
  /\ phase = "resolving"
  /\ todo = events
  /\ Raise("device")
  /\ UNCHANGED <<db, events, todo, setVars, allocVars, cpus>>

(* EventSet.add*PmuRequest: each list has a limit; the fixed requests are kept *)
(* in the order of their registers.                                            *)
Request(event, select) == [event |-> event, select |-> select]
Register(request) == Min(request.event.validPmc)
AddGeneric(event) ==
  IF Len(generic) >= MaxGeneric THEN Raise("generic") /\ UNCHANGED setVars
  ELSE /\ generic' = Append(generic, Request(event, 0))
       /\ UNCHANGED <<phase, error, offCoreEventCount, offcore, fixed>>
AddFixed(event) ==
  IF Len(fixed) >= MaxFixed THEN Raise("fixed") /\ UNCHANGED setVars
  ELSE /\ fixed' = LET all == Append(fixed, Request(event, 0))
                   IN  StableSort(all, [i \in DOMAIN all |-> Register(all[i])])
       /\ UNCHANGED <<phase, error, offCoreEventCount, generic, offcore>>

(* buildOffCoreRequests: an event select of its own, a generic request and the *)
(* value for the matching msr register.                                        *)
AddOffCoreRequests(event, select) ==
  CASE offCoreEventCount >= MaxOffcore -> Raise("offcore") /\ UNCHANGED setVars
    [] offCoreEventCount < MaxOffcore /\ Len(generic) >= MaxGeneric ->
         Raise("generic") /\ UNCHANGED setVars
    [] OTHER ->
         /\ generic' = Append(generic, Request(event, select))
         /\ offcore' = Append(offcore, event)
         /\ offCoreEventCount' = offCoreEventCount + 1
         /\ UNCHANGED <<phase, error, fixed>>
AddOffCoreSameSelect(event) == AddOffCoreRequests(event, 1)
AddOffCore(event) == AddOffCoreRequests(event, offCoreEventCount + 1)

(* PmuRequestFactory.buildRequests for the next event.                         *)
ResolveEvent ==
  /\ phase = "resolving"
  /\ todo # <<>>
  /\ todo' = Tail(todo)
  /\ IF ~ InDb(Head(todo)) THEN Raise("unknown") /\ UNCHANGED setVars
     ELSE LET event == GetItem(Head(todo))
          IN  CASE event.eventType = "GenericCore" -> AddGeneric(event)
                [] event.eventType = "FixedCore" -> AddFixed(event)
                [] event.eventType = "OffCore" -> AddOffCore(event)
  /\ UNCHANGED <<db, events, allocVars, cpus>>

-----------------------------------------------------------------------------
(* RequestSorter.isSorted: register i is the request's place in the list.      *)
CanUse(request, register) == register \in request.event.validPmc
FirstInOrder(requests) == requests # <<>> => CanUse(requests[1], 0)
InOrder(requests) == \A i \in DOMAIN requests : CanUse(requests[i], i - 1)

(* Allocator.__init__.                                                         *)
SlotCount(requests) == Max(UNION {requests[i].event.validPmc : i \in DOMAIN requests}) + 1

(* allocateEvents and RequestSorter.sort: a list that is in order is left      *)
(* alone; the allocator is tried when it would fill as many registers as there *)
(* are requests.                                                               *)
BeginAllocation ==
  /\ phase = "resolving"
  /\ todo = <<>>
  /\ CASE generic = <<>> \/ InOrder(generic) ->
            phase' = "ready" /\ UNCHANGED <<error, allocVars>>
       [] ~ InOrder(generic) /\ generic # <<>> /\ SlotCount(generic) # Len(generic) ->
            Raise("constraints") /\ UNCHANGED allocVars
       [] OTHER ->
            /\ allocatables' = [i \in DOMAIN generic |->
                                  [index |-> i, constraint |-> generic[i].event.validPmc]]
            /\ slots' = [register \in 0 .. Len(generic) - 1 |-> None]
            /\ allocation' = [i \in DOMAIN generic |-> None]
            /\ phase' = "allocating"
            /\ UNCHANGED error
  /\ UNCHANGED <<db, events, todo, setVars, cpus>>

(* allocatables.sort(key=len, reverse=True): stable, the least constrained     *)
(* request first.                                                              *)
Sorted(seq) == StableSort(seq, [i \in DOMAIN seq |-> 0 - Cardinality(seq[i].constraint)])
FreeSlots(allocatable) == {cn \in allocatable.constraint : slots[cn] = None}

(* The loop over the other requests returns in its first round: only the first *)
(* of them loses the register.                                                 *)
DiscardFirst(seq, cn) ==
  IF seq = <<>> THEN seq ELSE [seq EXCEPT ![1].constraint = @ \ {cn}]

(* Allocator.allocate, one call: the most constrained request takes its lowest *)
(* free register. There is no way back.                                        *)
Allocate ==
  LET sorted == Sorted(allocatables)
      allocatable == Last(sorted)
      cn == Min(FreeSlots(allocatable))
  IN  /\ phase = "allocating"
      /\ allocatables # <<>>
      /\ IF FreeSlots(allocatable) = {}
         THEN Raise("constraints") /\ UNCHANGED allocVars
         ELSE /\ slots' = [slots EXCEPT ![cn] = allocatable.index]
              /\ allocation' = [allocation EXCEPT ![allocatable.index] = cn]
              /\ allocatables' = DiscardFirst(Front(sorted), cn)
              /\ UNCHANGED <<phase, error>>
      /\ UNCHANGED <<db, events, todo, setVars, cpus>>

(* sort: the requests in the order of their registers.                         *)
EndAllocation ==
  /\ phase = "allocating"
  /\ allocatables = <<>>
  /\ generic' = [k \in DOMAIN generic |-> generic[slots[k - 1]]]
  /\ phase' = "ready"
  /\ UNCHANGED <<error, db, events, todo, offCoreEventCount, offcore, fixed, allocVars, cpus>>

(* buildRequestGroup: a counter mask has one byte.                             *)
Packs == \A i \in DOMAIN generic : generic[i].event.counterMask < 256

(* PMUCtrl.enable: one request group for each core; the request may be         *)
(* impossible to pack, and the write to the device may fail.                   *)
EnableCpu ==
  /\ phase = "ready"
  /\ \E cpu \in Cpus \ cpus :
       \/ /\ Packs
          /\ cpus' = cpus \cup {cpu}
          /\ phase' = IF cpus' = Cpus THEN "enabled" ELSE "ready"
          /\ UNCHANGED error
       \/ Raise("device") /\ UNCHANGED cpus
  /\ UNCHANGED <<db, events, todo, setVars, allocVars>>

(* XpediteApp.enablePMU without the driver: buildPerfEventsRequest makes no    *)
(* request with offcore events, and PMUCtrl then fails; the target may refuse  *)
(* a request.                                                                  *)
BuildPerfEventsRequest ==
  /\ phase = "ready"
  /\ cpus = {}
  /\ \/ offcore = <<>> /\ Packs /\ phase' = "enabled" /\ UNCHANGED error
     \/ Raise("device")
  /\ UNCHANGED <<db, events, todo, setVars, allocVars, cpus>>

Next ==
  \/ LoadEventsDb
  \/ \E pmc \in Requested : ResolveCounters(pmc)
  \/ OpenFails
  \/ ResolveEvent
  \/ BeginAllocation
  \/ Allocate
  \/ EndAllocation
  \/ EnableCpu
  \/ BuildPerfEventsRequest

Spec == Init /\ [][Next]_vars

-----------------------------------------------------------------------------
Programmed == phase \in {"ready", "enabled"}

(* A list of generic requests that is sent puts every request in a register    *)
(* its event may use, and all three lists fit the request group.               *)
AllocationSound ==
  Programmed =>
    /\ \A i \in DOMAIN generic : CanUse(generic[i], i - 1)
    /\ Len(generic) <= MaxGeneric /\ Len(fixed) <= MaxFixed /\ Len(offcore) <= MaxOffcore

(* What is sent asks for every event once, however often and by however many   *)
(* nodes the profile asked for it; the fixed requests are in the order in      *)
(* which a sample holds the values of their registers; and the msr value of an *)
(* offcore event is in the register that the event's own event select reads.   *)
Names == [i \in DOMAIN generic |-> generic[i].event.name] \o [i \in DOMAIN fixed |-> fixed[i].event.name]
RequestsComplete ==
  Programmed =>
    /\ IsInjective(Names)
    /\ ToSet(Names) = ToSet(events)
    /\ \A i, j \in DOMAIN fixed : i < j => Register(fixed[i]) <= Register(fixed[j])
    /\ \A i \in DOMAIN generic : generic[i].select # 0 => offcore[generic[i].select] = generic[i].event
    /\ \A k \in DOMAIN offcore : \E i \in DOMAIN generic : generic[i].select = k

(* The values of a sample: PmuCtl::pmcCount, with one bit of FixedPmcSet for   *)
(* each fixed register.                                                        *)
PmcCount == Len(generic) + Cardinality({Register(fixed[i]) : i \in DOMAIN fixed})

(* "missing pmc samples" is a violated invariant in buildTimelineStats: a      *)
(* sample holds a value for each event that was asked for.                     *)
EveryEventMeasured == Programmed => PmcCount >= Len(Names)

(* "The following constraints prevent all selected counter from being used     *)
(* simultaneously": when the allocation fails, no order of the requests puts   *)
(* each of them in a register that its event may use.                          *)
RefusedOnlyIfImpossible ==
  error = "constraints" =>
    ~ \E at \in [DOMAIN generic -> 0 .. Len(generic) - 1] :
        /\ IsInjective(at)
        /\ \A i \in DOMAIN generic : CanUse(generic[i], at[i])
=============================================================================
