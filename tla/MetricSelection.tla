--------------------------- MODULE MetricSelection ---------------------------
(***************************************************************************)
(* How a functional test picks the metrics payload that it compares with   *)
(* its expected results, while the receiver of the sink keeps appending    *)
(* payloads: SelectMetricSetWithTimeout (functional_tests/internal/        *)
(* common.go), selectMetricSetByCountsWithTimeout and                      *)
(* selectMetricSetByAssertionWithTimeout (metricassert.go).                *)
(*                                                                         *)
(* A payload is abstracted to what the selection looks at: whether it      *)
(* contains the target metric, how many resources and metrics it has, and  *)
(* whether it satisfies the assertion file.                                *)
(***************************************************************************)
EXTENDS Integers, Sequences, FiniteSets

CONSTANTS
  Payloads,   \* the payloads that may arrive
  Want,       \* the expected number of resources and metrics
  Timeout, Interval,
  MaxPayloads \* bound on the payloads that arrive

ASSUME SelectionAssumption ==
  /\ Payloads \subseteq [target : BOOLEAN, resources : Nat, metrics : Nat, good : BOOLEAN]
  /\ Want \in [resources : Nat, metrics : Nat]
  /\ Timeout \in Nat
  /\ Interval \in Nat \ {0}
  /\ MaxPayloads \in Nat

VARIABLES
  mode,     \* which of the three selections the test uses
  at,       \* where the test is in it
  now,      \* the time since it started; it stays at Timeout once there
  rest,     \* the time that time.Sleep still takes
  sink,     \* the payloads received so far, oldest first
  looked,   \* history: the number of them at the last look before the deadline
  from,     \* SelectMetricSet: the newest payload when its loop started
  h,        \* SelectMetricSet: the payload to look at next
  fallback, \* SelectMetricSet: the best payload so far (0: nil)
  picked,   \* the payload returned (0: nil)
  exact     \* ... and whether it was returned as a match

vars == <<mode, at, now, rest, sink, looked, from, h, fallback, picked, exact>>

\* containsMetric.
ContainsMetric(m) == m.target

\* Mutant: only the number of metrics is compared.
MatchesMetricCount(m) == ContainsMetric(m) /\ m.metrics = Want.metrics

\* The payload contains the target metric and has the expected counts.
Matches(m) ==
  /\ ContainsMetric(m)
  /\ m.resources = Want.resources
  /\ m.metrics = Want.metrics

\* The newest of a set of payloads, 0 if there is none.
Newest(S) == IF S = {} THEN 0 ELSE CHOOSE i \in S : \A j \in S : j <= i

\* Mutant: only the newest payload is looked at.
ByCountsOfNewest == IF sink # <<>> /\ Matches(sink[Len(sink)]) THEN Len(sink) ELSE 0

\* selectMetricSetByCounts: one look at all payloads received so far.
ByCounts == Newest({i \in DOMAIN sink : Matches(sink[i])})

\* richestMetricSet, over the payloads S: the newest of those with most metrics.
Richest(S) ==
  LET candidates == {i \in S : ContainsMetric(sink[i])}
  IN  Newest({i \in candidates : \A j \in candidates : sink[j].metrics <= sink[i].metrics})

-----------------------------------------------------------------------------

Init ==
  /\ mode \in {"exact", "counts", "assertion"}
  /\ at = "check"
  /\ now = 0 /\ rest = 0
  /\ sink = <<>> /\ looked = 0
  /\ from = 0 /\ h = 0 /\ fallback = 0
  /\ picked = 0 /\ exact = FALSE

\* The receiver appends a payload, at any moment.
Consume(m) ==
  /\ Len(sink) < MaxPayloads
  /\ at # "done"
  /\ sink' = Append(sink, m)
  /\ UNCHANGED <<mode, at, now, rest, looked, from, h, fallback, picked, exact>>

\* Time passes while the test sleeps and while it looks at payloads.
Tick ==
  /\ at \in {"sleep", "scan", "finalScan"}
  /\ now < Timeout \/ rest > 0
  /\ now' = IF now < Timeout THEN now + 1 ELSE now
  /\ rest' = IF rest > 0 THEN rest - 1 ELSE 0
  /\ UNCHANGED <<mode, at, sink, looked, from, h, fallback, picked, exact>>

Return(i, isExact) ==
  /\ at' = "done"
  /\ picked' = i
  /\ exact' = isExact

Sleep ==
  /\ at' = "sleep"
  /\ rest' = Interval

Awake ==
  /\ at = "sleep"
  /\ rest = 0
  /\ at' = "check"
  /\ UNCHANGED <<mode, now, rest, sink, looked, from, h, fallback, picked, exact>>

-----------------------------------------------------------------------------
(* SelectMetricSetWithTimeout. Every turn of SelectMetricSet's loop reads  *)
(* the sink again, which may have grown since the loop chose its start.    *)

\* Mutant: the loop starts one past the newest payload.
StartScanPastEnd(where) ==
  /\ at' = where
  /\ from' = Len(sink)
  /\ h' = Len(sink) + 1
  /\ fallback' = 0

\* len(metricSink.AllMetrics()) - 1, counting from one.
StartScan(where) ==
  /\ at' = where
  /\ from' = Len(sink)
  /\ h' = Len(sink)
  /\ fallback' = 0

\* Mutant: the deadline moves with every attempt.
DeadlineMoves ==
  /\ mode = "exact" /\ at = "check"
  /\ StartScan("scan")
  /\ UNCHANGED <<mode, now, rest, sink, looked, picked, exact>>

\* One attempt after another, and a last one after the deadline.
CheckDeadline ==
  /\ mode = "exact" /\ at = "check"
  /\ StartScan(IF now < Timeout THEN "scan" ELSE "finalScan")
  /\ UNCHANGED <<mode, now, rest, sink, looked, picked, exact>>

\* Mutant: the oldest of the payloads with most metrics.
BetterOldest(i) == fallback = 0 \/ sink[i].metrics >= sink[fallback].metrics

\* m.MetricCount() > fallbackCount
Better(i) == fallback = 0 \/ sink[i].metrics > sink[fallback].metrics

\* One turn of the loop over the payloads, newest first.
ScanStep ==
  /\ at \in {"scan", "finalScan"}
  /\ h > 0
  /\ IF Matches(sink[h])
       THEN Return(h, TRUE) /\ UNCHANGED <<h, fallback>>
       ELSE /\ h' = h - 1
            /\ fallback' = IF ContainsMetric(sink[h]) /\ Better(h) THEN h ELSE fallback
            /\ UNCHANGED <<at, picked, exact>>
  /\ UNCHANGED <<mode, now, rest, sink, looked, from>>

ScanEnds ==
  /\ at = "scan" /\ h = 0
  /\ Sleep
  /\ UNCHANGED <<mode, now, sink, looked, from, h, fallback, picked, exact>>

\* Without a payload require.NotNilf fails the test.
FinalScanEnds ==
  /\ at = "finalScan" /\ h = 0
  /\ Return(fallback, FALSE)
  /\ UNCHANGED <<mode, now, rest, sink, looked, from, h, fallback>>

-----------------------------------------------------------------------------
(* selectMetricSetByCountsWithTimeout and                                  *)
(* selectMetricSetByAssertionWithTimeout: each look takes one snapshot of  *)
(* the sink, and nothing looks for a match after the deadline.             *)

\* What an attempt accepts: the assertion is tried on one payload only.
Accepts(i) == i # 0 /\ (mode = "assertion" => sink[i].good)

Poll ==
  /\ mode # "exact" /\ at = "check"
  /\ now < Timeout
  /\ IF Accepts(ByCounts)
       THEN Return(ByCounts, TRUE) /\ UNCHANGED rest
       ELSE Sleep /\ UNCHANGED <<picked, exact>>
  /\ looked' = Len(sink)
  /\ UNCHANGED <<mode, now, sink, from, h, fallback>>

\* By assertion, the fallback may still satisfy the assertion.
FallBack ==
  /\ mode # "exact" /\ at = "check"
  /\ now >= Timeout
  /\ LET best == Richest(DOMAIN sink)
     IN  Return(best, mode = "assertion" /\ best # 0 /\ sink[best].good)
  /\ UNCHANGED <<mode, now, rest, sink, looked, from, h, fallback>>

-----------------------------------------------------------------------------

SelectStep ==
  \/ CheckDeadline \/ ScanStep \/ ScanEnds \/ FinalScanEnds
  \/ Poll \/ FallBack \/ Awake

\* The selection has returned, and the test goes on with the payload.
Done == at = "done" /\ UNCHANGED vars

Next == SelectStep \/ Tick \/ (\E m \in Payloads : Consume(m)) \/ Done

\* The test's goroutine runs and time passes.
Spec == Init /\ [][Next]_vars /\ WF_vars(SelectStep) /\ WF_vars(Tick)

-----------------------------------------------------------------------------
(* Properties.                                                             *)

\* The loops of the selections stay inside the sink they index: h and fallback
\* name payloads that were there when the loop over AllMetrics() began.
TypeOK ==
  /\ mode \in {"exact", "counts", "assertion"}
  /\ at \in {"check", "scan", "finalScan", "sleep", "done"}
  /\ now \in 0..Timeout
  /\ rest \in 0..Interval
  /\ sink \in Seq(Payloads)
  /\ looked \in 0..Len(sink)
  /\ from \in 0..Len(sink)
  /\ h \in 0..from
  /\ fallback \in 0..from
  /\ picked \in 0..Len(sink)
  /\ exact \in BOOLEAN

\* The expected counts, and the target metric.
Fits(m) == m.target /\ m.resources = Want.resources /\ m.metrics = Want.metrics

\* SelectMetricSet reads the sink again for every payload, and yet returns
\* what one look at the payloads present when it started would have found
\* (the newest that fits, otherwise what richestMetricSet returns).
OneLook ==
  mode = "exact" /\ at = "done" =>
    LET fitting == {i \in 1..from : Fits(sink[i])}
    IN  /\ exact <=> fitting # {}
        /\ picked = IF exact THEN Newest(fitting) ELSE Richest(1..from)

\* Whichever selection runs, and whatever arrives meanwhile: a payload is
\* returned as a match only if it is one, every payload returned has the
\* target metric, and nil is returned only if none had it when the selection
\* began its last look.
ReturnedAsClaimed ==
  at = "done" =>
    /\ picked # 0 => sink[picked].target
    /\ exact => IF mode = "assertion" THEN sink[picked].good ELSE Fits(sink[picked])
    /\ picked = 0 =>
         \A i \in 1..(IF mode = "exact" THEN from ELSE Len(sink)) : ~sink[i].target

\* Whatever arrives while it looks, the selection comes to its end.
SelectionEnds == <>(at = "done")

\* AssertMetricsSnapshot takes a batch of another shape only if it has to:
\* selectMetricSetByCounts had found none of the expected shape when it last
\* looked before the deadline, or the newest of them failed the assertion.
\* (What comes after that look, and an older batch that satisfies the
\* assertion, are missed.)
FallsBackOnlyThen ==
  at = "done" /\ mode # "exact" /\ (picked # 0 => ~Fits(sink[picked])) =>
    LET shaped == {i \in 1..looked : Fits(sink[i])}
    IN  shaped # {} => mode = "assertion" /\ ~sink[Newest(shaped)].good
=============================================================================
