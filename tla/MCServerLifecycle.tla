---------------------------- MODULE MCServerLifecycle ---------------------------
(* Instances of ServerLifecycle for TLC.                                   *)
EXTENDS ServerLifecycle, TLC

\* The process objects are interchangeable: nothing orders or names them.
Symmetry == Permutations(Procs) \cup Permutations(Specs)
================================================================================
