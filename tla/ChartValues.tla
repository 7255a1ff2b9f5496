----------------------------- MODULE ChartValues -----------------------------
(***************************************************************************)
(* The values of the Helm chart and the questions its templates ask about  *)
(* them (templates/_helpers.tpl).                                          *)
(*                                                                         *)
(* The values are modelled as the set v of the options that are switched   *)
(* on; an option that holds a string or a list counts as on when it is not *)
(* empty.  Strings that no template decision depends on (indexes, URLs,    *)
(* resource limits, images) are left out.                                  *)
(***************************************************************************)

Distributions == {"eks", "eks/fargate", "gke", "openshift"}

Options ==
  {"platform",          \* splunkPlatform.endpoint
   "platform.logs", "platform.metrics", "platform.traces",
   "otlpIngest",        \* splunkPlatform.otlpIngest.enabled
   "persistentQueue",   \* splunkPlatform.sendingQueue.persistentQueue.enabled
   "renameFieldsSck", "sourcetype",
   "o11y",              \* splunkObservability.realm
   "o11y.metrics", "o11y.traces", "profiling", "secureApp",
   "infraEvents",       \* infrastructureMonitoringEventsEnabled
   "agent", "gateway", "clusterReceiver", "targetallocator", "remoteManagement",
   "containers",        \* logsCollection.containers.enabled
   "extraFileLogs", "journald",
   "events", "k8sObjects",   \* clusterReceiver.eventsEnabled, .k8sObjects
   "sendK8sEventsToSplunkO11y", "enableK8sEntities",
   "useEntityEventsForK8sProperties", "useControlPlaneMetricsHistogramData",
   "enableEKSApiServerMetrics", "noDropLogsPipeline",
   "autodetect.prometheus", "autodetect.istio",
   "clusterName", "environment", "extraAttributes", "isWindows"}
  \cup Distributions

-----------------------------------------------------------------------------
(* Destinations.                                                           *)

splunkPlatformEnabled(v) == "platform" \in v
splunkO11yEnabled(v) == "o11y" \in v

platformLogsViaOtlpEnabled(v) == "otlpIngest" \in v /\ "platform.logs" \in v
platformLogsEnabled(v) == splunkPlatformEnabled(v) /\ "platform.logs" \in v
platformMetricsEnabled(v) == splunkPlatformEnabled(v) /\ "platform.metrics" \in v
platformTracesEnabled(v) == splunkPlatformEnabled(v) /\ "platform.traces" \in v

o11yMetricsEnabled(v) == splunkO11yEnabled(v) /\ "o11y.metrics" \in v
o11yTracesEnabled(v) == splunkO11yEnabled(v) /\ "o11y.traces" \in v
profilingEnabled(v) == splunkO11yEnabled(v) /\ "profiling" \in v

metricsEnabled(v) == o11yMetricsEnabled(v) \/ platformMetricsEnabled(v)
tracesEnabled(v) == o11yTracesEnabled(v) \/ platformTracesEnabled(v)
logsEnabled(v) == platformLogsEnabled(v) \/ platformLogsViaOtlpEnabled(v)

\* Collectors open OpAMP sessions of their own.
directO11yOpampEnabled(v) == splunkO11yEnabled(v) /\ "remoteManagement" \notin v

-----------------------------------------------------------------------------
(* The cluster receiver.                                                   *)

splunkO11yEventsEndpointEnabled(v) ==
  splunkO11yEnabled(v) /\ "sendK8sEventsToSplunkO11y" \in v

eventsPipelineEnabled(v) ==
  "events" \in v /\ (logsEnabled(v) \/ splunkO11yEventsEndpointEnabled(v))

objectsPipelineEnabled(v) ==
  "k8sObjects" \in v /\ (logsEnabled(v) \/ splunkO11yEventsEndpointEnabled(v))

objectsOrEventsEnabled(v) == "events" \in v \/ "k8sObjects" \in v

k8sEntitiesEnabled(v) == splunkO11yEnabled(v) /\ "enableK8sEntities" \in v

entityEventsForProperties(v) ==
  o11yMetricsEnabled(v) /\ "useEntityEventsForK8sProperties" \in v

clusterReceiverEnabled(v) ==
  /\ "clusterReceiver" \in v
  /\ metricsEnabled(v) \/ objectsOrEventsEnabled(v) \/ k8sEntitiesEnabled(v)

-----------------------------------------------------------------------------
(* Distribution and cluster name.                                          *)

isFargate(v) == "eks/fargate" \in v
isEKS(v) == "eks" \in v \/ "eks/fargate" \in v

clusterNameOptional(v) == v \cap {"gke", "eks", "openshift"} # {}
autoDetectClusterName(v) == clusterNameOptional(v) /\ "clusterName" \notin v

\* The collectors the chart deploys.  Fargate has no daemonsets.
Deployed(v) ==
  (IF "agent" \in v /\ ~isFargate(v) THEN {"agent"} ELSE {})
  \cup (IF "gateway" \in v THEN {"gateway"} ELSE {})
  \cup (IF clusterReceiverEnabled(v) THEN {"clusterReceiver"} ELSE {})

\* What values.schema.json accepts; there is one distribution at most.
destinationGiven(v) ==
  splunkPlatformEnabled(v) \/ splunkO11yEnabled(v) \/ platformLogsViaOtlpEnabled(v)

platformSignalGiven(v) == v \cap {"platform.logs", "platform.metrics"} # {}
o11ySignalGiven(v) == v \cap {"o11y.metrics", "o11y.traces", "profiling", "secureApp"} # {}

clusterNameGiven(v) == clusterNameOptional(v) \/ "clusterName" \in v

platformEndpointGiven(v) ==
  v \cap {"platform.metrics", "platform.traces"} # {} => splunkPlatformEnabled(v)

otlpIngestForLogs(v) == "otlpIngest" \in v => "platform.logs" \in v
fargateOnLinux(v) == isFargate(v) => "isWindows" \notin v

SchemaAccepts(v) ==
  /\ \A d, e \in v \cap Distributions : d = e
  /\ destinationGiven(v) /\ platformSignalGiven(v) /\ o11ySignalGiven(v)
  /\ clusterNameGiven(v) /\ fargateOnLinux(v)
  /\ platformEndpointGiven(v) /\ otlpIngestForLogs(v)

\* The templates of the OpAMP bridge end with fail otherwise (the bridge's own
\* endpoint and extraAgents are not set here).
RemoteManagementRenders(v) ==
  "remoteManagement" \in v => splunkO11yEnabled(v) /\ Deployed(v) # {}

\* The values with which helm install gets as far as the cluster.
Installable(v) == SchemaAccepts(v) /\ RemoteManagementRenders(v)
=============================================================================
