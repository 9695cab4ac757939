----------------------------- MODULE MCTxnLoading -----------------------------
(* Model-checking instance of TxnLoading. The binary has a probe of each kind; *)
(* E is an inner probe of the binary that the profile declares as an end probe *)
(* and X is in no app info file.                                               *)
EXTENDS TxnLoading

MCSites == {"B", "S", "R", "E", "P", "X"}

AtLine(n) == [path |-> <<"src">>, file |-> "task", line |-> n]

MCAppProbe ==
  [B |-> AnchoredProbe(AtLine(1), {"canBeginTxn"}, "TaskBegin"),
   S |-> AnchoredProbe(AtLine(2), {"canSuspendTxn"}, "TaskSuspend"),
   R |-> AnchoredProbe(AtLine(3), {"canResumeTxn"}, "TaskResume"),
   E |-> AnchoredProbe(AtLine(4), {}, "TaskEnd"),
   P |-> AnchoredProbe(AtLine(5), {}, "TaskStep")]

MCUserProbes == <<Probe("TaskEnd", {"canEndTxn"})>>

ThreadSymmetry == Permutations(Threads)

=============================================================================
