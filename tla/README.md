# Verification of the Splunk OpenTelemetry Collector chart

TLA+ specifications, TLC configurations and TLAPS proofs for
`splunk-otel-collector-chart`. The repository has two bodies of logic:

* the **Helm chart** (`helm-charts/splunk-otel-collector`): templates that turn
  some forty interacting options into the configurations of three kinds of
  OpenTelemetry Collectors. A wrong condition gives a collector that does not
  start, or telemetry that is lost, sent twice or sent to the wrong backend;
* the **functional test framework** (`functional_tests/internal`, Go): the
  concurrent part. Test processes share one cluster through a leased lock,
  install and tear down the chart against the API server, Helm and the chart's
  operator, change namespaces and pods that others change too, watch pods that
  come and go, pick payloads out of sinks that receivers keep filling, and
  compare them with assertion files that an update writes in two steps.

A third, smaller program, the updater of the Kubernetes versions in the CI
matrix (`tools/k8s_versions`, Go), talks to three services that change while it
runs.

## 1. Inventory

| Component | State | Operations | Talks to | What is hard | What makes it correct |
|---|---|---|---|---|---|
| Test lease (`concurrency.go`) | Lease object; per test: channels `becameLeader`, `lostLeaderCh`, context; elector's observed record, timers | `AcquireLeaseForTest`, its Cleanup, client-go's acquire/renew loop | API server | lost or late answers, clock counting, crash without Cleanup, order of Cleanups | one leader, one test at a time; waits and releases end |
| Chart lifecycle (`chart.go`) | releases, operator, webhook secrets, CRDs, CRs | `ChartInstallOrUpgrade`, `ChartUninstall` and their loops | Helm, API server, operator, hook job | failing requests that are only logged, finalizers, CRs created meanwhile, upgrade without CRD update | a passed teardown leaves nothing; operator goes last; CRDs fit the chart; teardown ends |
| Metric selection (`common.go`, `metricassert.go`) | sink, loop index, deadline, fallback | `SelectMetricSetWithTimeout`, `selectMetricSetByCountsWithTimeout`, `selectMetricSetByAssertionWithTimeout` | receiver that appends to the sink | sink read several times per pass, deadline against late payload | returns what it claims; ends |
| Chart values (`values.yaml`, `values.schema.json`, `_helpers.tpl`) | the options | the helpers | all templates | combinations | accepted values render usable configurations |
| Agent, gateway, cluster receiver configuration (`templates/config/*.tpl`) | sections, started extensions, pipelines | rendering | one another (OTLP, forwarders), backends | a sender and its receiver are rendered under different conditions; processors overwrite one another in order; routing connectors | every collector starts; every item reaches exactly the backends asked for, once, with the right cluster name |
| Secret, validation hook, workloads (`secret-splunk*.yaml`, `daemonset.yaml`, ...) | Helm release, secret, pods | install, upgrade, hook | API server | secret and pods change separately; restart only on a changed config map | pods run with the current configuration and token |
| Operator, Instrumentation hook job (`templates/operator`) | webhook, certificate, CR | hook job with retries | API server, operator | job races the webhook | the CR comes to exist |
| OpAMP bridge | none here | configuration only | Observability Cloud | | |
| Node discoverer of the Fargate cluster receiver (script) | node label, written configuration | init container | API server | the script writes its output from a file it reads twice | |
| Sinks and fake API server (`sinks.go`, `api_server.go`), `WaitFor*`, `CheckNo*`, `Reset*`, `checkMetrics` | ports, receivers, stack of Cleanups, `errCh` | `Setup*`, waits, resets, cleanups | collectors of present and past releases | ports shared by sinks, a bind in a goroutine, payloads of an earlier release, a failure between two set-ups | ports come back, bind failures fail the test, a window holds its own telemetry, every test ends |
| Pods and health (`common.go`, `component_health.go`) | pods, their logs, ready time | `CheckPodsReady`, `WaitForTerminatingPods`, `GetPodLogs`, `CheckComponentHealth`, `CheckReceiverStarted` | API server, kubelet | pods restart or go between a list and a read; streams break | a verdict rests on what was true, on whole logs, and comes |
| Cluster access (`common.go`) | namespace with version, ServiceAccount, pod, helper container, file | `CreateNamespace` ... `DeleteObject`, `LabelNamespace`, `CopyFileToPod`, `CopyFileFromPod` | API server, controllers, other clients | read-modify-write, objects that appear later, retried streams | no lost update, deleted means gone, copies are whole |
| Assertion files (`metricassert.go`, `data_processing.go`) | the file | `AssertMetricsSnapshot`: prepare, write, mark, compare | file system | order of arrival, an update cut short, attributes that may change | a run passes if and only if the batch is the same up to what the options allow |
| Version matrix updater (`update_k8s_versions.go`) | lists, `ci-matrix.json` | one run | endoflife.date, Docker Hub, minikube | versions published meanwhile, one request of several failing, names that begin alike | the file is current, all or nothing |
| Release and update scripts, debug script | files, git | sequential | GitHub | partial failure | |

The hazards, each at its line, are listed in `PROJECT.json`.

## 2. Modules and how they correspond to the code

### TestLease, TestMutex, MCTestLease, TestLeaseProofs (`functional_tests/internal/concurrency.go`)

`TestLease` has one process per test and one per elector. The test's goroutine
is `Acquire`, `Acquired`, `CanceledBeforeAcquiring`, `BodyEnds`, `Release`,
`Released`: the body of `AcquireLeaseForTest`, its `select`, and the Cleanup
that cancels and waits for `lostLeaderCh`. `BodyEnds` leads to `cleanup`, the
Cleanups registered later than the lease's (they run before it). A Cleanup
registered *before* the lease (the sinks' in most tests) runs after it and is
not part of `Using`. `Crash` is a process that is killed and runs no Cleanup.
client-go's elector is external and modelled as `concurrency.go` configures it:
`Attempt` (read, observe, decide), `Applied`/`Conflict` (the API server's
optimistic write), `Renewed`, `RequestFails` (a request *or its answer* is
lost), `Dropped`, `StopLeading`. `Tick` advances all ages unless something is
due. Ages replace clocks and saturate, so that the state space is finite and no
bound on time is needed. `TestMutex` is the abstract lock; `MutexSpec` is its
refinement, mapping `using` to the tests in their body or Cleanup.

### ChartLifecycle, MCChartLifecycle, ChartLifecycleProofs (`functional_tests/internal/chart.go`)

One action per request to Helm or the API server, in the order of the code, with
the loops' remaining elements in `todo`. The operator removes finalizers while
it runs; CRs may be created at any time; the API server keeps a terminating CRD
until its last CR is gone. Which releases a test installs, from which base
version and with how many failing requests is a *setup*, chosen at the start
(`Setups`); `BaseVersion` (the chart that `UPGRADE_FROM_CHART_DIR` names), the
release that brings the operator and the bound on failures are read from it.
Where the code only logs a failure, `hidden` remembers it, and `leftover` the
certificate secrets that a teardown could not delete. `began` is history: the
operator's release was installed where there was no CRD (`Began`), and nothing
has taken the CRDs away since.

### MetricSelection, MCMetricSelection, MetricProofs (`common.go`, `metricassert.go`)

The receiver (`Consume`) interleaves with every read of the sink by one of the
three selections. A payload is abstracted to what they look at: target metric,
number of resources and metrics, and whether the assertion accepts it. `looked`
is how much of the sink there was when the test last looked.

### MetricAssertion, MCMetricAssertion, MetricProofs (`metricassert.go`, `data_processing.go`)

What happens to the batch that was selected. `Prepare` composes
`RetainSelectedNumberDatapoint`, `KeepFirstDatapoint` and `ReduceDatapoints` in
the code's order; `Write` and `Mark` are the two steps of an update
(`UPDATE_EXPECTED_RESULTS`), between and after which it may be `Interrupted`;
`Compare` reads the file and matches it. A batch is a sequence of resources of
metrics of datapoints, because order is what the preparation depends on, and the
datapoints that the preparation leaves keep their positions; an attribute value is a number, a regular expression the set it matches, and an
entry of the file `exact`, `exists` or `regex`. `MapHash` is a parameter: any
function of the attributes. The reference definition, `Content`, is independent
of the preparation's order: bags of series in which what may change is blurred.

### TestSinks, MCTestSinks, TestSinksProofs (`sinks.go`, `api_server.go`, `common.go`, `functional/helpers.go`)

One test with its subtests: set-ups in the test's order, each with its ports and
its Cleanup on `stack`, the installation, a wait, a check or a reset, and the
Cleanups in reverse order however the level ended. The API server's goroutine
(`ListenAndServe`, `ServeEnds`) runs beside it and meets the Cleanup
(`CloseAPIServer`, `ReceiveErr`) on `errCh`. Collectors of every release that is
not gone send (`Send`), also after `ChartUninstall` has returned. The seven
suites of `MCTestSinks` are the set-ups of seven tests of the repository.

### PodWatch, PodWatchProofs (`common.go`, `component_health.go`)

Pods change phase and readiness, log, are deleted and replaced, while one of the
five checks polls them or reads their logs line by line over a stream that may
break. Time is counted in polls.

### ClusterAccess, MCClusterAccess, ClusterAccessProofs (`common.go`)

A test is a script of calls. Waits (`Poll`) are bounded; every request may fail;
the service account controller, the namespace controller, the kubelet and other
clients act in between. `LabelNamespace` is its two requests (`GetNamespace`,
`UpdateNamespace` with the version that was read); every write of the namespace,
whoever makes it, gives it a new version (`Written`). A copy runs chunk by chunk
through a helper container, whose mount `FindVolumeMountForPath` chooses, and is
started anew when it broke or is empty; on Windows it is not always.

### VersionMatrix, MCVersionMatrix, VersionMatrixProofs (`tools/k8s_versions/update_k8s_versions.go`)

One action per request of a run: the supported cycles, one tag of Docker Hub
after the other from the latest patch down (`CheckTag`, `Decrement`), minikube's
list, and the rewrite of the file. Publications happen in between. Names are
compared as the code compares them, as strings: `DigitsBegin` is the prefix
test, `DigitsGreater` the order of decimal strings. `SortVersions` is the set of
lists that `sort.Slice`, which is not stable, may leave.

### ChartValues, CollectorConfig, TelemetryFlow, MCTelemetryFlow, TelemetryFlowProofs (the chart)

`ChartValues` models values as the set `v` of options that are on, with the
predicates of `_helpers.tpl` under their names, and the rules of
`values.schema.json` that relate options. `CollectorConfig` renders the three
configurations: for each section the set of names it defines, the extensions
started, and the pipelines with receivers, *ordered* processors and exporters;
the processors of a pipeline have a name of their own (`agentLogsSteps`, ...).
`Loads` is what the collector checks on start (external). `TelemetryFlow` puts
it in motion: the collectors whose configuration is `accepted` start in any order, and one item of one kind is
emitted and copied from pipeline to pipeline, through routing connectors and to
the gateway, whose service must expose the port and whose receiver or forwarder
must listen on it. `Promised` says which backends the options ask for, kind by
kind, independently of the pipelines. The agents' OpAMP sessions with the gateway
(`OpensOpamp`, `OpampTarget`, port 4320) are part of it.

Settings inside a component appear only where they refer to another component
(authenticator, storage, observer), exclude data (`log_data_enabled`,
`profiling_data_enabled`, `exclude_metrics`) or set `k8s.cluster.name`. The
field name convention is the default one. `otlp/platform_logs` also stands for
`otlp_http/platform_logs`, and nop in logs/entities for the receivers discovery
adds. User overrides under `agent.config` etc. are out of scope.

## 3. Runs

| Run | Checks | Bounds and why they are enough |
|---|---|---|
| `lease_outage` | `TypeOK`, `LeaseInv`, `LeadersExclusive`, `NoTakeover` | 2 tests, 4 failing requests, a crash; lease 5, deadline 2, retry 1, answers within 1: enough failures to lose a lease twice. The theorems remove the bounds |
| `lease_mutex` | refinement `MutexSpec`, `WaitingEnds`, `ReleaseEnds` | 2 tests, 1 failing request, 1 crash, and times in which one failure does not cost the lease |
| `lease_lost` | `HeldForDurationOfTest`, violated | the values of `concurrency.go` in units of 5 s (12, 8, 1, 4) |
| `chart` | `PassedMeansClean`, `CRDsMatchChart`, `OperatorOutlivesFinalizers`, `TeardownEnds` | three setups: the default release alone and the two releases of the AKS test, with 2 failing requests each, and these two upgraded from older CRDs, with 1; two CRD kinds (with and without finalizer), 2 CRs, installs, upgrades and teardowns repeated for ever |
| `select` | `TypeOK`, `OneLook`, `FallsBackOnlyThen`, `ReturnedAsClaimed`, `SelectionEnds` | 4 payloads of all relevant shapes, two sleeps |
| `assertion` | `UpdatePasses`, `SameSeriesPass`, `PassedMeansSame`, `CountsOfWholeBatch` | 27 batches of two resources that share a metric (other pod, other series, other zone, other bounds or version, other order), the options of the cluster receiver and control plane tests and three more, two runs on a file from an earlier update or none |
| `flow` | `CollectorsStart`, `ClusterNamed`, `NeverTwice`, `NothingElseArrives`, `OpampReachesGateway`, `PromiseKept` | seven families: 17 options that decide which components are rendered, 15 that decide processors, extensions and queues, the distributions (OpenShift, GKE, EKS, none) with and without a name, and one per signal (logs, traces, metrics, cluster) with the 9 to 12 options its pipelines depend on |
| `sinks` | `PortsReleased`, `BindFailureFails`, `OwnTelemetry`, `TestEnds` | seven tests of up to two subtests, a port held by another process, every set-up and shutdown failing, four networks; 2 payloads in the watched sink, enough for one of either release |
| `pods` | `ReadyThroughout`, `VerdictFromWholeLogs`, `CheckEnds` | two agents, one on a control-plane node; time-out of 3 polls, 2 changes or lines at any moment: a pod replaced, or stopped being ready and back |
| `terminating_pods` | `NoneTerminating`, violated | the same |
| `access` | `PodAccepted`, `CopiedWhole`, `NoLostUpdate`, `GoneWhenDeleted` | the calls of the functional and k8sevents tests and both copies; 2 failing requests, 2 polls, a file of 2 chunks, two labels of other clients, mounts above, on and beside the path with and without subPath |
| `versions` | `MatrixCurrent`, `OldOrNew`, `RunEnds` | two cycles, one past its tenth patch so that 1.34.1 begins 1.34.10; 2 publications, 2 runs, every request failing |

A *family* (module `MCTelemetryFlow`) is a set of options that are on, a set
that may be on or off, and the kinds of telemetry to follow; every combination
the schema accepts is an initial state.

`CollectorsStart` is exact: a collector fails to start in the installations of
`Unusable` and in no other (module TelemetryFlow). These are: host logs (`extraFileLogs`, `journald`)
with profiling but without logs; a gateway with SecureApp but neither logs nor
profiling; a cluster receiver deployed for events or objects that nothing wants.
Likewise `Leaks` and `ScrapeLost` name the places where the chart does
something the options did not ask for; everything outside them is checked.
`FallsBackOnlyThen` is exact in the same way about when the selections fall back.
`PassedMeansSame` and `SameSeriesPass` are the two halves of one statement: a
run passes only if the batch has the content the file was written from, and does
pass if it has it (in the same order, where the code keeps what comes first).
SecureApp or infrastructure monitoring events without a realm are accepted by
the schema but have no endpoint to go to; `RealmGiven` leaves them out of
`TelemetryFlow`, of its runs as of its theorems. Deadlock checking is off in `TelemetryFlow` because an item comes to
rest.

### Fairness

* Lease: goroutines, API server and clock go on (`WF` on `Tick`, on the steps of
  tests and electors); test bodies end, because `go test` has a timeout.
  Nothing is promised of failures, crashes, cancelling or of starting tests.
* Chart lifecycle: the test's own next step is taken; waits have timeouts in the
  code, so they end as a step of their own. Nothing is promised of the operator.
* Selection: the test's goroutine and time go on; payloads need not come.
* Sinks: the test's goroutine, the API server's goroutine and the timeouts of
  waits go on. Nothing is promised of collectors.
* Pods: the check goes on (its polls are driven by a ticker). Nothing is promised
  of the pods.
* Version matrix: a run goes on; every request of the updater is answered or
  fails.
* The assertion files and the cluster access have safety properties only.
* Flow: Kubernetes starts pods, sources produce, exporters with a queue send.
  Retries against a gateway that starts later are taken to last long enough
  (the code's `max_elapsed_time` is minutes); a port nobody listens on is lost.

## 4. Disagreements between the code and what is said of it

Shown by a run (the quoted lines are in `findings` of `PROJECT.json`):

* `lease_lost`: after a long outage the lease goes to another test while the
  first goes on; `OnStoppedLeading` only logs.
* `terminating_pods`: `WaitForTerminatingPods` passes over pods in phase Running
  or Pending before it looks at their deletion timestamp, and returns while such
  a pod terminates.

Met while modelling and visible in the exceptions of the properties (`Unusable`,
`Leaks`, `ScrapeLost`, `leftover`, the exemptions of `ClusterNamed`,
`FallsBackOnlyThen`, `OpampReachesGateway`, `Shape`), without a run of their own:

* the SecureApp gateway example renders a `logs` pipeline with `exporters: null`
  (`_otel-collector.tpl:339`);
* with Splunk Platform metrics only and default feature gates, autodetected
  Prometheus metrics are scraped by a receiver that is in no pipeline
  (`_otel-agent.tpl:1291`);
* `remoteManagement` switches off the forwarder on port 9943
  (`_otel-collector.tpl:234`);
* when only profiling or SecureApp is enabled the gateway's service does not
  expose 4320, to which the agents' OpAMP extension sends (`values.yaml:1111`);
* traces only: the cluster receiver is deployed because events are on by
  default, but has no pipelines (`_helpers.tpl:498`; rendered in
  `examples/only-traces`), although `values.yaml:587` says of objects that
  without logs the option "will not have any effect";
* profiles reach Splunk Platform when its logs go over OTLP
  (`_otel-agent.tpl:1206`), although `_helpers.tpl:229` calls them "applicable
  to Splunk Observability only";
* traces only with a gateway: the agent's own metrics go to a gateway without a
  metrics pipeline (`_otel-agent.tpl:1352`, `_otel-collector.tpl:272`);
* logs sent directly to a gateway get no cluster name (`_otel-collector.tpl:346`),
  although `values.yaml:14` promises it for "all traces, metrics, and logs";
* `deleteOperatorCRs` returns with CRs left when the list of CRDs cannot be had
  (`hidden`); a certificate secret of a release with a name of its own is not
  looked for again once the release is off the record (`chart.go:241`);
* the Lease object still names a test whose Cleanup has returned, so the next one
  waits for it to run out;
* the selection by counts does not look again after its last sleep
  (`metricassert.go:237`), and each attempt of the selection by assertion tries
  only the newest batch (`metricassert.go:205`);
* an update of an assertion file needs a readable old file for the counts
  (`metricassert.go:175`), so that one cut short has to be restored by hand;
  `ReduceDatapoints` keeps what comes first (`metricassert.go:514`);
  `retainSelectedNumberDatapoint` selects by attributes that the file does not
  compare (`metricassert.go:525`), and so may leave no datapoint of a batch that
  looks the same to it;
  `keepFirstDatapoint` does not mask the attributes that are only marked
  afterwards (`metricassert.go:542`), and so may keep another series;
* a wait for a namespace to be gone takes any error for success
  (`common.go:552`, `blind` in ClusterAccess); an interrupted copy on Windows is
  taken for a whole one when it is not empty (`common.go:247`);
* a collector that is still sending can make the shutdown of an OTLP sink, with
  the context of a test that has ended, fail a test that passed (`sinks.go:118`);
* `update_k8s_versions.go:148` takes a tag for present when another one begins
  with its name; `MatrixCurrent` shows it to be harmless, because the longer
  name is asked for first (no image is taken to be ahead of endoflife.date).

With the numbers of `concurrency.go`, `LeadersExclusive` itself can fail if
answers take the full client timeout of 20 s: the writer counts its 45 s from
the answer, others count 60 s from the write, and 20 + 5 + 40 is not below 60.
It holds for answers within 10 s, which is what the theorem's hypothesis asks.

## 5. Proofs

The theorems hold for every value of the constants that the named assumption of
the module allows: any number of tests, pods, payloads, requests and failures,
any durations, any combination of options. Every module of proofs has an
inductive invariant, a conjunction of named parts; a lemma that every step
preserves it, action by action; and the theorems that follow from it. They are
listed in `PROJECT.json`.

### The lease (`TestLeaseProofs`)

`TypeCorrect` needs only `LeaseAssumption` (the ordering that NewLeaderElector
enforces). The others take hypotheses on the durations:

* `LeaseInvariant`, `LeadersAreExclusive`, `LeaseIsNotTakenOver` need
  `GivesUpInTime`: `RequestTimeout + RetryPeriod + RenewDeadline < LeaseDuration`.
* `UseInvariant` and `TestsExclude`, that `TestLease` implements `TestMutex`,
  also need `RidesOutFaults`: as many attempts as may fail, and one more, fit into
  `RenewDeadline`. With the code's 60/40/5 s and answers within 10 s both hold
  for one failing request; with more a test can lose its lease and go on
  (`lease_lost`).

`LeadersExclusive` is not inductive: a takeover is a decision by one elector,
based on an age it counted, that takes effect later. `LeaseInv` therefore says
that a leader, or an elector whose write was taken but not answered, is named
by the object (`LeaderHolds`); that nobody else has known the object for longer
than since that write (`ObservedSinceWritten`, `AnswerIsTimely`), which with
`GivesUpInTime` keeps their ages below `LeaseDuration`; and that a write that
can still succeed was justified by the present object (`WriteIsJustified`).
`IdleHasNoElector` covers tests not started. For the refinement `UseInv` adds
that who uses the cluster leads (`UsersLead`), for which the age of a leader's
last write must be accounted for by the failures so far and the attempt under
way (`RenewsInTime`): so it never reaches the deadline.

### Installation and teardown (`ChartLifecycleProofs`)

`TeardownLeavesNothing`, `InstallBringsCRDs` and the action property
`OperatorStaysForFinalizers`. The invariant relates what the loops still have to
do to what is left in the cluster: releases (`ReleasesToDo`), secrets
(`SecretsToDo`), CRDs (`CRDsToDo`) and finalizers (`FinalizersToDo`), each but for
failures that were only logged, while CRs are created by others at any time.
Assumption: a test with several releases gives them names of their own.

### Selection of metrics (`MetricProofs`, first part)

`TypeCorrect` (the loops stay inside the sink), `ScanIsOneLook`, `AsClaimed`,
`FallsBackLast`. `Scanned` is the loop invariant of SelectMetricSet: none of the
payloads passed over fits, and the fallback is the richest of them, of those that
were in the sink when the loop began. `LastLook` keeps why the other selections
went on.

### Assertion files (`MetricProofs`, second part)

`PassedRunsAreTheSame`, `FileCountsTheBatch`, and the action properties `UpdatesPass`
and `SameSeriesRunsPass`, for every set of well-formed batches and every
combination of options. `AssertionInv` says that the file is missing, broken, or
one of the two that an update writes from the batch on record, `Exactly` or
`Flexibly`, and which of them in which stage: an interruption leaves one of the
four. The rest is about the operators.

* What a file accepts has the content of its batch: pairs of attributes that the
  file accepts differ in what may change only (`AcceptedAttrs`), and what is
  paired one to one has the same bag of values (`PairedBags`), for datapoints,
  metrics and resources in turn (`AcceptedBatch`).
* What has its content is accepted: equal bags can be paired (`BagsPaired`, from
  bijections between the places of each value), again at three levels
  (`SameContentAccepted`). An update passes because preparing twice is preparing
  once (`PreparedTwice`) and no mark is set twice.
* Batches of one `Shape` have, once prepared, one content
  (`SameShapeSameContent`): each of `ChosenAlike`, `ReducedAlike`, `FirstAlike` shows
  that one step of the preparation leaves matching datapoints of matching metrics.

`SameSeriesRunsPass` has the hypothesis `SeriesIdentified`, each part of which is
needed: `MapHash` (128 bits in the code) tells masked attributes apart; a test
that keeps the first datapoint does not compare bounds, of which the hash knows
nothing (no test of the repository asks for both); where a datapoint is selected,
its resource has one metric of that name. The run `assertion` evaluates the
hypothesis on its instance; the other theorems hold for any hash. A first form
also asked that a datapoint be selected by attributes that may not change. The
test of the API server selects by `verb`, which has a pattern, and by others that
are marked `/exists` (`histogram_test.go:160`), so `Shape` compares instead which
datapoints the selection would choose. `MarkAttrs` shows why such proofs are worth while: in
an earlier form two of its cases overlapped, and only TLC's order of evaluation
made a pattern win over `/exists` as it does in the code.

### Sinks (`TestSinksProofs`)

`PortsComeBack`, `BindFailuresAreReported`, `PassesOnOwnTelemetry`. Whoever holds a
port has a Cleanup to come (`Owners`, `ServerAwaited`); the stack of Cleanups is
ordered and comes from what was set up (`StackOrder`, `StackIsMade`); a bind
failure is recorded or under way (`BindFailure`); a window that began without
collectors sees only new ones (`Fresh`). Assumption: sinks set up together share
no port, and a subtest with sinks of its own watches one of them.

### Pods (`PodWatchProofs`)

`ReadyMeansThroughout`, `VerdictsFromWholeLogs`. `ReadyPolls` orders the last poll
that saw a pod not ready before `readySince`; `Delivered` says that what was read
and what is still to come are what the pod was asked for; `HealthSoFar` and
`StartedSoFar` are the loop invariants of the two checks.

### Cluster access (`ClusterAccessProofs`)

`CreatedPodAccepted`, `CopiesAreWhole` and the action properties `UpdatesKeepLabels`
and `DeletedIsGone`. What was read of the namespace is of an older version or the
same (`CopyIsOld`); an attempt has copied a beginning of the file
(`CopyInProgress`); findVolumeMountForPath chooses the mount that backs the path,
for any set of mounts (`FindIsBacking`); what the rest of the script needs will be
there (`PodToCome`). Assumption: the file is not empty, and a test creates its
pod once, after WaitForDefaultServiceAccount and before it deletes the namespace.

### The chart (`TelemetryFlowProofs`)

The runs enumerate families of options; the theorems are about every set of
options that the schema accepts (and `RealmGiven`), at once:

* `ConfigurationsFit` (`CollectorsStart`): per collector, every pipeline is `Sound`
  in the configuration it is rendered in, the extensions are defined and started,
  and a pipeline lacks an exporter only in the installations of `Unusable`.
* `OpampSessions` (`OpampReachesGateway`).
* `NothingElse` (`NothingElseArrives`). `FlowInv`: every copy is on the `Course` of
  its kind, that is, where and through which receiver it may be; each exporter of
  each pipeline `Leads` from there to the gateway's course or to a backend that may
  have it.
* `RightlyNamed` (`ClusterNamed`). `NameInv`: a copy has the right name after its
  first pipeline. Every list of processors `Settles` the name or `Keeps` it,
  composed piece by piece from what the last processor that sets it does
  (`NameConcat`).
* `OnceEach` (`NeverTwice`). `OnceInv`: there is one copy under way until it is split
  up for several backends. A receiver feeds one pipeline of a signal
  (`AgentPicksOne`, ...), and a pipeline with several exporters ends at as many
  backends (`AgentExportersApart`, ...).

### The version matrix (`VersionMatrixProofs`)

`MatrixIsCurrent`, `KindListsAreCurrent`, `FileIsOldOrNew`. `MatrixInv`: what is
published keeps its order and its bounds (`WorldOK`); and while nothing is
published, no image of the cycle in hand is newer than the patch asked for and the
versions found are the newest images of the cycles before it (`WalkCurrent`). So
the first tag that the hub reports is the tag itself, although the hub counts
tags by part of their name (`TagIsExact`): a longer one would be newer. Any result
of the sort is the one order, newest first (`SortedIsCurrent`), because numbers of
two digits compare like their digits. The minikube lists need a hypothesis,
`PatchesBelowCycles`: `strings.Contains("v1.31.34", "1.34")` holds, so a cycle whose
number was also a patch of a cycle ending in 1 could get that version. No cycle
has had so many patches; the kind lists are current without it.

### Finite sets in place of induction

The proofs about positions in sequences (the newest payload, the longest mount,
the last processor, the first match, the first datapoint) argue with a smallest or
largest element of a set of numbers, which the well-foundedness of the natural
numbers provides, instead of an induction over data.

### Only model-checked

Liveness, which is beyond the prover: `WaitingEnds`, `ReleaseEnds`, `TeardownEnds`,
`SelectionEnds`, `PromiseKept`, `TestEnds`, `CheckEnds`, `RunEnds`. Every other
property of a passing run is also a theorem.

## 6. Plan

1. Done: TestLease, ChartLifecycle, MetricSelection, MetricAssertion, TestSinks,
   PodWatch, ClusterAccess, VersionMatrix, ChartValues, CollectorConfig,
   TelemetryFlow with OpAMP sessions; proofs of every invariant, action property
   and refinement that the passing runs check.
2. Left to model: a composition of TestLease with ChartLifecycle (two tests, one
   cluster); `HelmRelease` (secret, validation hook, checksum annotations,
   rollout; the token change that restarts nothing); `InstrumentationHook` (hook
   job, webhook, certificate).

## 7. Not modelled

* The secret, its validation hook and the rollout of the workloads: pods keep the
  token they started with until something restarts them, and only the config map
  has a checksum annotation (`daemonset.yaml:47`). This needs the state of a Helm
  release and of its pods, which no module keeps yet.
* The operator's hook job, webhook and certificate, beyond the CRs and finalizers
  of ChartLifecycle. The OpAMP bridge program; only its port and sessions are
  modelled. The script of the Fargate node discoverer.
* Pure helpers on golden files that no assertion path uses
  (`RemoveFlakyMetrics`, `RetainNumberMetricDatapointsForPod`, `GetMetricNames`,
  the older histogram comparison), the match functions of
  `functional/helpers.go`, and how `chart.go` parses image overrides: data
  without state.
* Scripts, examples, generated schemas and rendered manifests (data or sequential
  I/O); the collector's own processing beyond routing and naming; image, label,
  RBAC and security context templates; Windows specifics beyond the one processor
  they add and the copy of files; user configuration overrides.

The reasons per component are in `PROJECT.json`.
