-------------------------- MODULE MCScanLifecycle --------------------------
(***************************************************************************)
(* Instances of ScanLifecycle for TLC.                                     *)
(***************************************************************************)
EXTENDS ScanLifecycle, TLC

\* Requests, processes and names are interchangeable in every safety property.
Symmetric == Permutations(Requests) \cup Permutations(Procs) \cup Permutations(Names)

============================================================================
