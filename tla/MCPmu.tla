--------------------------------- MODULE MCPmu ---------------------------------
(* A small machine: four generic registers, one fixed one and one for offcore  *)
(* events; events that may use some or all of the registers, and a counter     *)
(* mask that is too wide.                                                      *)
EXTENDS Pmu

MCRecord(name, counter, kind) ==
  [name |-> name, counter |-> counter, counterHTOff |-> IF kind = "ht" THEN 0 .. 3 ELSE {},
   offcore |-> kind = "offcore", fixed |-> kind = "fixed",
   compatible |-> kind # "incompatible", initialized |-> kind # "uninitialized"]
MCRecords ==
  <<MCRecord("any", 0 .. 1, "ht"), MCRecord("low", {0, 1}, "generic"), MCRecord("one", {1}, "generic"),
    MCRecord("two", {2}, "generic"), MCRecord("mid", {1, 2}, "generic"),
    MCRecord("cycles", {0}, "fixed"), MCRecord("instr", {1}, "fixed"),
    MCRecord("read", 0 .. 3, "offcore"), MCRecord("write", 0 .. 1, "offcore")>>
MCDatabases ==
  {MCRecords, <<>>, Append(MCRecords, MCRecord("bad", {0}, "incompatible")),
   Append(MCRecords, MCRecord("low", {0}, "uninitialized"))}
MCNodes ==
  [slots |-> [parent |-> None, level |-> 1, reads |-> {<<"any", None>>, <<"cycles", None>>}],
   memory |-> [parent |-> "slots", level |-> 2, reads |-> {<<"low", None>>, <<"cycles", None>>}],
   core |-> [parent |-> "slots", level |-> 2, reads |-> {<<"any", <<1>>>>, <<"cycles", None>>}],
   ipc |-> [parent |-> None, level |-> 0, reads |-> {<<"lost", None>>}]]
MCEvents ==
  {[kind |-> "event", name |-> n] :
     n \in {<<b, None>> : b \in {"any", "low", "one", "two", "mid", "cycles", "instr", "read", "write"}}
           \cup {<<"any", <<1>>>>, <<"any", Other>>, <<"cycles", <<1>>>>}}
MCTopdown == {[kind |-> "node", name |-> n] : n \in {"slots", "core", "ipc", "gone", Root}}
MCWide == {[kind |-> "event", name |-> <<"any", <<1, 0, 0>>>>]}
MCRequested ==
  BoundedSeq(MCEvents, 4) \cup BoundedSeq(MCEvents \cup MCWide, 2)
    \cup {<<n>> \o s : n \in MCTopdown, s \in BoundedSeq(MCEvents, 2)}
=============================================================================
