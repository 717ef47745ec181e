---------------------------- MODULE MCKeyRotation ----------------------------
(***************************************************************************)
(* Instances of KeyRotation: two replicas, and one verifier whose clock is *)
(* ahead and one whose clock is behind by the whole leeway.                *)
(***************************************************************************)
EXTENDS KeyRotation, TLC

CONSTANTS v1, v2
MCSkew == [v \in Verifiers |-> IF v = v1 THEN Leeway ELSE -Leeway]

\* Replicas are interchangeable; verifiers are not, for their clocks.
MCSymmetry == Permutations(Replicas)
=============================================================================
