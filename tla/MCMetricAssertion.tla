------------------------- MODULE MCMetricAssertion -------------------------
(* MetricAssertion for TLC: batches of two resources that share a metric,  *)
(* with the options of the functional and the histogram tests.             *)
EXTENDS MetricAssertion

Point(id, pod, zone, bounds) ==
  [attrs |-> [id |-> id, pod |-> pod, uid |-> pod, zone |-> zone], bounds |-> bounds]

\* In the order of the names zone, pod, uid, id.
TheHash(a) == 64 * a.zone + 16 * a.pod + 4 * a.uid + a.id

\* pod: name and uid of the pod; other: the identity of the second datapoint;
\* bounds: of the histogram; version: of the scopes; back: the series come in
\* the other order.
Batch(pod, other, zone, bounds, version, back) ==
  LET two(x, y) == IF back THEN <<y, x>> ELSE <<x, y>>
      points == two(Point(1, pod, 1, 0), Point(other, 1, zone, 0))
      metric(name, type, dps) == [name |-> name, type |-> type, dps |-> dps]
  IN  two([attrs |-> [uid |-> pod], version |-> version,
           metrics |-> <<metric("m", "gauge", points),
                         metric("h", "histogram", <<Point(1, pod, 1, bounds)>>)>>],
          [attrs |-> [uid |-> 1], version |-> version,
           metrics |-> <<metric("m", "sum", points), metric("e", "exponential", points)>>])

SomeBatches ==
  {Batch(pod, other, zone, 1, 1, back) : pod \in 1..3, other \in 2..3, zone \in 1..2, back \in BOOLEAN}
  \cup {Batch(1, 2, 1, 2, 1, FALSE), Batch(1, 2, 1, 1, 2, FALSE), Batch(1, 2, 1, 1, 3, FALSE)}

None == [name |-> "", attrs |-> <<>>]

Plain == [volatile |-> {}, regex |-> <<>>, version |-> {}, first |-> {}, max |-> 0,
          selected |-> None, existsExcept |-> FALSE, exact |-> {}, bounds |-> FALSE]

\* testK8sClusterReceiverMetrics; runMetricsTest and its variants.
ClusterReceiver ==
  [Plain EXCEPT !.volatile = {"uid"}, !.regex = [pod |-> 1..2], !.first = {"m", "e"}]
ControlPlane ==
  [Plain EXCEPT !.volatile = {"uid"}, !.regex = [pod |-> 1..2], !.max = 1,
                !.existsExcept = TRUE, !.exact = {"id"}]
Histograms == [ControlPlane EXCEPT !.bounds = TRUE, !.version = 1..2]
\* Selects, as this test does, by an attribute that has a pattern.
ApiServer  == [ControlPlane EXCEPT !.selected = [name |-> "m", attrs |-> [pod |-> 2]]]

TestOptions == {Plain, ClusterReceiver, ControlPlane, Histograms, ApiServer}

\* The instance is one that the theorem about SameSeriesPass is about.
ASSUME InstanceIdentified == SeriesIdentified
=============================================================================
