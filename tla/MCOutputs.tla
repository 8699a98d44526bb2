----------------------------- MODULE MCOutputs -----------------------------
(* Small instances of Outputs for TLC. *)
EXTENDS Outputs, TLC

\* Outputs are interchangeable, and so are surfaces; no property is liveness.
MCSymmetry == Permutations(Outputs) \cup Permutations(Surfs)

=============================================================================
