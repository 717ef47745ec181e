------------------------------ MODULE MCKeyFile ------------------------------
(* Instances of KeyFile: processes and keys are interchangeable. *)
EXTENDS KeyFile, TLC

MCSymmetry == Permutations(Processes) \cup Permutations(Keys)
=============================================================================
