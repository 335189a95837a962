--------------------------------- MODULE MCUpdate ------------------------------
(* Instances of Update for TLC: an installed release and the next one.     *)
EXTENDS Update
================================================================================
