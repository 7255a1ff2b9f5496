--------------------------- MODULE MCVersionMatrix ---------------------------
(* VersionMatrix for TLC: two cycles, one of them past its tenth patch, so *)
(* that the name of one tag is the beginning of another.                   *)
EXTENDS VersionMatrix, TLC

SomeLatest == (34 :> 10) @@ (35 :> 1)
SomeBound  == (34 :> 10) @@ (35 :> 2)
SomeImages == {Ver(34, 1), Ver(34, 9), Ver(34, 10), Ver(35, 0)}

\* The keys of ci-matrix.json, and an entry with both.
MatrixJobs == [functional_test    |-> {"minikube"},
               functional_test_v2 |-> {"kind"},
               kubeconform_tests  |-> {},
               both               |-> {"kind", "minikube"}]
=============================================================================
