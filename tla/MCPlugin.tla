------------------------------ MODULE MCPlugin ------------------------------
(* Small instances of Plugin for TLC. *)
EXTENDS Plugin, TLC

\* Outputs are interchangeable, and no property of the run is about liveness.
MCSymmetry == Permutations(Outputs)

=============================================================================
