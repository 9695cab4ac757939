-------------------------- MODULE MCSampleCollection --------------------------
(* Model-checking instances of SampleCollection with several threads: the     *)
(* threads are interchangeable.                                                *)
EXTENDS SampleCollection

ThreadSymmetry == Permutations(Threads)

=============================================================================
