---------------------------- MODULE MCSharedReports ----------------------------
(* The instance of SharedReports that TLC checks: runs are interchangeable.  *)
EXTENDS SharedReports, TLC

Symmetry == Permutations(Runs)

=============================================================================
