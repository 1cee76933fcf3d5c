------------------------ MODULE MCScaleSetController ------------------------
(* ScaleSetController on small instances. *)
EXTENDS CustodyRefinement, TLC

\* Names are only ever compared: they may be permuted.
RunnerSymmetry == Permutations(Runners)

=============================================================================
