-------------------------- MODULE MCMetricSelection --------------------------
(* MetricSelection for TLC: payloads that differ in one respect each.      *)
EXTENDS MetricSelection

Payload(target, resources, metrics, good) ==
  [target |-> target, resources |-> resources, metrics |-> metrics, good |-> good]

SomePayloads ==
  { Payload(TRUE,  1, 2, TRUE),    \* the one the test waits for
    Payload(TRUE,  1, 2, FALSE),   \* the right counts, other values
    Payload(TRUE,  2, 2, FALSE),   \* one resource too many
    Payload(TRUE,  1, 1, FALSE),   \* a metric short
    Payload(TRUE,  1, 3, FALSE),   \* a metric too many
    Payload(FALSE, 1, 3, FALSE) }  \* another batch, and a richer one

Expected == [resources |-> 1, metrics |-> 2]
=============================================================================
