-------------------------- MODULE MCChartLifecycle --------------------------
(* ChartLifecycle for TLC: the one release of most tests, installed as it  *)
(* is or upgraded from a chart with older CRDs, and the two releases of    *)
(* the AKS test, upgraded from a chart with older CRDs or the same.        *)
EXTENDS ChartLifecycle

TestSetups ==
  { [releases |-> {"sock"}, operator |-> "sock", base |-> "v1", faults |-> 2],
    [releases |-> {"aksWin", "aksLinux"}, operator |-> "aksWin", base |-> "v2", faults |-> 2],
    [releases |-> {"aksWin", "aksLinux"}, operator |-> "aksWin", base |-> "v1", faults |-> 1] }
=============================================================================
