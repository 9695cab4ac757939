-------------------------------- MODULE Probes --------------------------------
(* The probes of the profiler (types/probe.py, types/containers.py): how a     *)
(* probe the user names in a profile is matched with the probes that the       *)
(* target reports, by system name or by place in the source.                   *)
(*                                                                             *)
(* A probe is a record                                                         *)
(*   sysName  the name given in the instrumented source, or NoName             *)
(*   anchor   NoAnchor, or its place [path, file, line]; a path is a sequence  *)
(*   attrs    the flags that are set: a subset of Attributes                   *)
EXTENDS Naturals, Sequences, SequencesExt

CONSTANTS NoName, NoAnchor

Attributes == {"canBeginTxn", "canSuspendTxn", "canResumeTxn", "canEndTxn"}

(* Probe and its subclasses: a name is mandatory and one flag is set.          *)
Probe(sysName, attrs) ==
  [sysName |-> sysName, anchor |-> NoAnchor, attrs |-> attrs]

(* AnchoredProbe: the flags are the attributes of the probe's record.          *)
AnchoredProbe(anchor, attrs, sysName) ==
  [sysName |-> sysName, anchor |-> anchor, attrs |-> attrs]

IsAnchored(p) == p.anchor # NoAnchor

(* AnchoredProbe.__eq__: file and line agree, and the shorter path ends the    *)
(* longer one. The relation is not transitive: a probe without a path equals   *)
(* every probe at the same file and line.                                      *)
SameAnchor(a, b) ==
  /\ a.line = b.line
  /\ a.file = b.file
  /\ \/ a.path = <<>>
     \/ b.path = <<>>
     \/ IsSuffix(a.path, b.path)
     \/ IsSuffix(b.path, a.path)

(* __eq__ of both classes, for two probes of one class.                        *)
SameProbe(p, q) == IF IsAnchored(p) THEN SameAnchor(p.anchor, q.anchor)
                                    ELSE p.sysName = q.sysName

(* ProbeMap(probes): every probe with a name is indexed by it, an anchored one *)
(* by its place too. A later entry replaces the value of an earlier equal key. *)
NamedIndex(probes, name) ==
  {i \in DOMAIN probes : probes[i].sysName = name}
AnchorKeys(probes) ==
  {i \in DOMAIN probes :
     /\ IsAnchored(probes[i])
     /\ \A j \in 1 .. i - 1 : ~ (/\ IsAnchored(probes[j])
                                 /\ SameProbe(probes[j], probes[i]))}
AnchoredIndex(probes, p) ==
  LET key == CHOOSE i \in AnchorKeys(probes) :
               /\ SameProbe(probes[i], p)
               /\ \A j \in AnchorKeys(probes) : j < i => ~ SameProbe(probes[j], p)
  IN  IF \E i \in AnchorKeys(probes) : SameProbe(probes[i], p)
      THEN {i \in DOMAIN probes : IsAnchored(probes[i]) /\ SameProbe(probes[key], probes[i])}
      ELSE {}

(* The entries of ProbeMap(probes) that a lookup of p may answer: by name if p *)
(* has one, else by place.                                                     *)
ProbeMapEntries(probes, p) ==
  IF p.sysName # NoName THEN NamedIndex(probes, p.sysName) ELSE AnchoredIndex(probes, p)

(* ProbeMap.__contains__.                                                      *)
ProbeMapContains(probes, p) == ProbeMapEntries(probes, p) # {}

(* ProbeMap.get with the probes themselves as values.                          *)
ProbeMapGet(probes, p, default) ==
  IF ProbeMapContains(probes, p)
  THEN probes[Max(ProbeMapEntries(probes, p))]
  ELSE default

=============================================================================
