----------------------------- MODULE MCRunLifecycle -----------------------------
(* The instance of RunLifecycle that TLC checks: readers are interchangeable *)
(* for the safety properties.                                                *)
EXTENDS RunLifecycle, TLC

Symmetry == Permutations(Readers)

=============================================================================
