---------------------------- MODULE MCTestLease ----------------------------
(***************************************************************************)
(* TestLease for TLC: test processes are interchangeable.                  *)
(***************************************************************************)
EXTENDS TestLease, TLC

Symmetry == Permutations(Tests)
=============================================================================
