----------------------------- MODULE TestMutex -----------------------------
(***************************************************************************)
(* What AcquireLeaseForTest promises to the functional tests: at any time  *)
(* at most one test is using the shared cluster.  A test that dies leaves  *)
(* the cluster like a test that ends.                                      *)
(***************************************************************************)
CONSTANT Tests

VARIABLE using      \* the tests that are using the cluster

Init == using = {}

Enter(t) == using = {} /\ using' = {t}

Leave(t) == using = {t} /\ using' = {}

Next == \E t \in Tests : Enter(t) \/ Leave(t)

Spec == Init /\ [][Next]_using
=============================================================================
