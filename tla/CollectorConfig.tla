--------------------------- MODULE CollectorConfig ---------------------------
(***************************************************************************)
(* The configuration the chart renders for each of its collectors:         *)
(* templates/config/_otel-agent.tpl (agent), _otel-collector.tpl (gateway) *)
(* and _otel-k8s-cluster-receiver-config.tpl (cluster receiver).           *)
(*                                                                         *)
(* A configuration is the names it defines in each section, the extensions *)
(* it starts and the pipelines it runs; the settings inside a component    *)
(* are kept where they refer to another component.  Processors are         *)
(* sequences, because they run in the order they are listed.               *)
(***************************************************************************)
EXTENDS ChartValues, Sequences

When(c, S) == IF c THEN S ELSE {}

Step(c, processor) == IF c THEN <<processor>> ELSE <<>>

\* The pipeline of a signal, as a singleton, so that pipelines add up.
Pipeline(name, signal, receivers, processors, exporters) ==
  {[name |-> name, signal |-> signal, receivers |-> receivers,
    processors |-> processors, exporters |-> exporters]}

\* The names of extraFileLogs and of journald's units stand for themselves.
hostLogReceivers(v) ==
  When("extraFileLogs" \in v, {"extraFileLogs"}) \cup When("journald" \in v, {"journald"})

otlpOrHecPlatformLogs(v) ==
  IF platformLogsViaOtlpEnabled(v) THEN {"otlp/platform_logs"}
  ELSE When(platformLogsEnabled(v), {"splunk_hec/platform_logs"})

platformExporters(v) ==
  otlpOrHecPlatformLogs(v)
  \cup When(platformMetricsEnabled(v), {"splunk_hec/platform_metrics"})
  \cup When(platformTracesEnabled(v), {"splunk_hec/platform_traces"})

opampExtension(v) == When(directO11yOpampEnabled(v), {"opamp/splunk_o11y"})
opampForwarder(v) ==
  When(directO11yOpampEnabled(v), {"http_forwarder/opamp_splunk_o11y"})

traceReceivers(v) == When(tracesEnabled(v), {"jaeger", "zipkin"})

autodetectsPrometheus(v) == v \cap {"autodetect.prometheus", "autodetect.istio"} # {}

\* Processors for metrics that go to Splunk Platform.
platformMetricsProcessors(v) ==
  When(platformMetricsEnabled(v), {"k8s_attributes/metrics"}
                                  \cup When("sourcetype" \in v, {"resource/metrics"}))
platformMetricsSteps(v) ==
  Step(platformMetricsEnabled(v), "k8s_attributes/metrics")
  \o Step(platformMetricsEnabled(v) /\ "sourcetype" \in v, "resource/metrics")

\* Mutant: the condition is inverted.
detectGivenClusterName(v) == Step("clusterName" \in v, "resource_detection/k8s_cluster_name")

detectClusterName(v) == Step(autoDetectClusterName(v), "resource_detection/k8s_cluster_name")

-----------------------------------------------------------------------------
(* The agent.                                                              *)

agentExtensions(v) ==
  {"health_check", "k8s_observer", "zpages"}
  \cup opampExtension(v) \cup opampForwarder(v)
  \cup When(logsEnabled(v), {"file_storage"})
  \cup When("persistentQueue" \in v, {"file_storage/persistent_queue"})
  \cup When(splunkO11yEnabled(v), {"headers_setter"})

\* Mutant: headers_setter is defined but not started.
agentStartedWithoutHeaders(v) ==
  {"health_check", "k8s_observer", "zpages"}
  \cup When(logsEnabled(v), {"file_storage"})
  \cup When("persistentQueue" \in v, {"file_storage/persistent_queue"})
  \cup opampExtension(v) \cup opampForwarder(v)

agentStarted(v) ==
  {"health_check", "k8s_observer", "zpages"}
  \cup When(logsEnabled(v), {"file_storage"})
  \cup When("persistentQueue" \in v, {"file_storage/persistent_queue"})
  \cup When(splunkO11yEnabled(v), {"headers_setter"})
  \cup When(directO11yOpampEnabled(v),
            {"http_forwarder/opamp_splunk_o11y", "opamp/splunk_o11y"})

agentReceivers(v) ==
  {"otlp", "prometheus/agent"} \cup traceReceivers(v)
  \cup When(splunkO11yEnabled(v), {"nop"})
  \cup When(metricsEnabled(v), {"host_metrics", "receiver_creator", "kubelet_stats"})
  \cup When("targetallocator" \in v, {"prometheus/ta"})
  \cup When(logsEnabled(v), When("containers" \in v, {"file_log"}) \cup hostLogReceivers(v))

agentProcessors(v) ==
  {"k8s_attributes", "memory_limiter", "batch", "resource_detection", "resource",
   "resource/add_agent_k8s"}
  \cup platformMetricsProcessors(v)
  \cup When("gateway" \notin v,
            {"resource/logs", "filter/logs"}
            \cup When("autodetect.istio" \in v, {"transform/istio_service_name"})
            \cup When("renameFieldsSck" \in v, {"transform/logs"}))
  \cup When(autoDetectClusterName(v), {"resource_detection/k8s_cluster_name"})
  \cup When(platformLogsViaOtlpEnabled(v), {"resource/otlp_platform_logs"})
  \cup When("environment" \in v, {"resource/add_environment"})
  \cup When("isWindows" \in v, {"metricstransform"})
  \cup When(autodetectsPrometheus(v), {"attributes/istio", "transform/drop_server_attrs"})

agentExporters(v) ==
  (IF "gateway" \in v THEN {"otlp_grpc"}
   ELSE When(o11yTracesEnabled(v), {"otlp_http"})
        \cup When(profilingEnabled(v), {"splunk_hec/o11y"})
        \cup When("secureApp" \in v, {"otlp_http/secureapp"})
        \cup platformExporters(v))
  \cup When(splunkO11yEnabled(v),
            {"signalfx", "otlp_http/entities"}
            \cup When("gateway" \in v /\ o11yMetricsEnabled(v), {"signalfx/host_metadata"})
            \cup When("useControlPlaneMetricsHistogramData" \in v, {"signalfx/histograms"}))

agentConnectors(v) == When("secureApp" \in v, {"routing/logs"})

\* Mutant: SecureApp events are not taken out of the other logs.
agentRoutesUnsplit(v, kind) ==
  {"logs/secureapp"} \cup When(logsEnabled(v) \/ profilingEnabled(v), {"logs"})

\* Where the agent's routing/logs connector sends a log record.
agentRoutes(v, kind) ==
  IF kind = "secureapp" THEN {"logs/secureapp"}
  ELSE When(logsEnabled(v) \/ profilingEnabled(v), {"logs"})

toGatewayOr(v, exporters) == IF "gateway" \in v THEN {"otlp_grpc"} ELSE exporters

agentSecureAppSteps(v) ==
  <<"memory_limiter", "k8s_attributes">> \o detectClusterName(v) \o <<"resource", "batch">>

agentSecureAppPipelines(v) ==
  Pipeline("logs/secureapp", "logs", {"routing/logs"}, agentSecureAppSteps(v),
    toGatewayOr(v, {"otlp_http/secureapp"}))
  \cup Pipeline("logs/split", "logs", {"otlp"}, <<>>, {"routing/logs"})

\* Mutant: the otlp receiver stays in the pipeline that the connector feeds.
agentLogsReceiversUnsplit(v) ==
  When(logsEnabled(v) /\ "containers" \in v, {"file_log"})
  \cup {"otlp"} \cup When("secureApp" \in v, {"routing/logs"})

agentLogsReceivers(v) ==
  When(logsEnabled(v) /\ "containers" \in v, {"file_log"})
  \cup (IF "secureApp" \in v THEN {"routing/logs"} ELSE {"otlp"})

agentLogsSteps(v) ==
  <<"memory_limiter", "k8s_attributes">>
  \o Step("gateway" \notin v, "filter/logs")
  \o Step("noDropLogsPipeline" \notin v, "batch")
  \o <<"resource_detection", "resource">>
  \o Step("gateway" \notin v /\ "renameFieldsSck" \in v, "transform/logs")
  \o Step("gateway" \notin v /\ "autodetect.istio" \in v, "transform/istio_service_name")
  \o Step("gateway" \notin v, "resource/logs")
  \o Step("gateway" \notin v /\ platformLogsViaOtlpEnabled(v), "resource/otlp_platform_logs")
  \o Step("environment" \in v, "resource/add_environment")

agentLogsPipeline(v) ==
  Pipeline("logs", "logs", agentLogsReceivers(v), agentLogsSteps(v),
    toGatewayOr(v, When(profilingEnabled(v), {"splunk_hec/o11y"}) \cup otlpOrHecPlatformLogs(v)))

agentHostLogsSteps(v) ==
  <<"memory_limiter">>
  \o Step("noDropLogsPipeline" \notin v, "batch")
  \o <<"resource_detection">> \o detectClusterName(v) \o <<"resource">>
  \o Step("gateway" \notin v /\ platformLogsViaOtlpEnabled(v), "resource/otlp_platform_logs")
  \o Step("environment" \in v, "resource/add_environment")

agentHostLogsPipeline(v) ==
  Pipeline("logs/host", "logs", hostLogReceivers(v), agentHostLogsSteps(v),
    toGatewayOr(v, otlpOrHecPlatformLogs(v)))

agentTracesSteps(v) ==
  <<"memory_limiter", "k8s_attributes", "batch", "resource_detection", "resource">>
  \o Step("environment" \in v, "resource/add_environment")

agentTracesPipeline(v) ==
  Pipeline("traces", "traces", {"otlp", "jaeger", "zipkin"}, agentTracesSteps(v),
    toGatewayOr(v, When(o11yTracesEnabled(v), {"otlp_http"})
                   \cup When(platformTracesEnabled(v), {"splunk_hec/platform_traces"})))

prometheusSteps(v) ==
  Step(autodetectsPrometheus(v), "attributes/istio")
  \o Step(autodetectsPrometheus(v), "transform/drop_server_attrs")

agentMetricsSteps(v) ==
  <<"memory_limiter", "batch">> \o prometheusSteps(v) \o <<"resource_detection", "resource">>
  \o Step("platform.metrics" \in v /\ "environment" \in v, "resource/add_environment")
  \o Step("isWindows" \in v, "metricstransform") \o platformMetricsSteps(v)

agentMetricsPipeline(v) ==
  Pipeline("metrics", "metrics",
    {"host_metrics", "kubelet_stats", "otlp"}
      \cup When("useControlPlaneMetricsHistogramData" \notin v, {"receiver_creator"})
      \cup When("targetallocator" \in v, {"prometheus/ta"}),
    agentMetricsSteps(v),
    (IF "gateway" \in v
     THEN {"otlp_grpc"} \cup When(o11yMetricsEnabled(v), {"signalfx/host_metadata"})
     ELSE When(o11yMetricsEnabled(v), {"signalfx"})
          \cup When(platformMetricsEnabled(v), {"splunk_hec/platform_metrics"})))

\* The pipelines of the collectors' own metrics.
ownMetricsSteps(v) ==
  <<"memory_limiter", "batch", "resource_detection">>
  \o Step(platformMetricsEnabled(v), "k8s_attributes/metrics")

agentOwnMetricsPipeline(v) ==
  Pipeline("metrics/agent", "metrics", {"prometheus/agent"}, ownMetricsSteps(v),
    toGatewayOr(v, When(splunkO11yEnabled(v), {"signalfx"})
                   \cup When(platformMetricsEnabled(v), {"splunk_hec/platform_metrics"})))

agentHistogramsSteps(v) ==
  <<"memory_limiter", "batch", "resource/add_agent_k8s", "resource_detection", "resource">>
  \o prometheusSteps(v)

\* Discovery mode adds receivers to logs/entities; nop stands for them.
agentO11yPipelines(v) ==
  Pipeline("logs/entities", "logs", {"nop"},
    <<"memory_limiter", "batch", "resource_detection", "resource">>, {"otlp_http/entities"})
  \cup When("useControlPlaneMetricsHistogramData" \in v /\ metricsEnabled(v),
         Pipeline("metrics/histograms", "metrics", {"receiver_creator"}, agentHistogramsSteps(v),
           {"signalfx/histograms"}))

agentPipelines(v) ==
  When("secureApp" \in v, agentSecureAppPipelines(v))
  \cup When(logsEnabled(v) \/ profilingEnabled(v),
         agentLogsPipeline(v)
         \cup When(hostLogReceivers(v) # {}, agentHostLogsPipeline(v)))
  \cup When(tracesEnabled(v), agentTracesPipeline(v))
  \cup When(metricsEnabled(v), agentMetricsPipeline(v))
  \cup When(splunkO11yEnabled(v) \/ platformMetricsEnabled(v), agentOwnMetricsPipeline(v))
  \cup When(splunkO11yEnabled(v), agentO11yPipelines(v))

agentConfig(v) ==
  [extensions |-> agentExtensions(v), started |-> agentStarted(v),
   receivers |-> agentReceivers(v), processors |-> agentProcessors(v),
   exporters |-> agentExporters(v), connectors |-> agentConnectors(v),
   pipelines |-> agentPipelines(v)]

-----------------------------------------------------------------------------
(* The gateway.                                                            *)

gatewayExtensions(v) ==
  {"health_check", "zpages"} \cup opampExtension(v) \cup opampForwarder(v)
  \cup When(splunkO11yEnabled(v),
            {"http_forwarder", "http_forwarder/o11y_ingest", "headers_setter"})

\* Mutant: the forwarder of OpAMP sessions is not started.
gatewayStartedNoOpamp(v) ==
  {"health_check", "zpages"}
  \cup When(splunkO11yEnabled(v), {"headers_setter", "http_forwarder"})
  \cup When(directO11yOpampEnabled(v), {"http_forwarder/o11y_ingest", "opamp/splunk_o11y"})

gatewayStarted(v) ==
  {"health_check", "zpages"}
  \cup When(splunkO11yEnabled(v), {"headers_setter", "http_forwarder"})
  \cup When(directO11yOpampEnabled(v),
            {"http_forwarder/opamp_splunk_o11y", "http_forwarder/o11y_ingest",
             "opamp/splunk_o11y"})

gatewayReceivers(v) == {"otlp", "prometheus/collector"} \cup traceReceivers(v)

gatewayProcessors(v) ==
  {"k8s_attributes", "resource/logs", "filter/logs", "memory_limiter", "batch",
   "resource_detection", "resource/add_cluster_name"}
  \cup platformMetricsProcessors(v)
  \cup When(platformLogsViaOtlpEnabled(v), {"resource/otlp_platform_logs"})
  \cup When("autodetect.istio" \in v, {"transform/istio_service_name"})
  \cup When(autoDetectClusterName(v), {"resource_detection/k8s_cluster_name"})
  \cup When("extraAttributes" \in v, {"resource/add_custom_attrs"})
  \cup When("environment" \in v, {"resource/add_environment"})

gatewayExporters(v) ==
  When(splunkO11yEnabled(v),
       {"signalfx", "otlp_http/entities"} \cup When("secureApp" \in v, {"otlp_http/secureapp"}))
  \cup When(o11yTracesEnabled(v), {"otlp_http"})
  \cup When(profilingEnabled(v), {"splunk_hec/o11y"})
  \cup platformExporters(v)

sharedLogsPipeline(v) == logsEnabled(v) \/ profilingEnabled(v) \/ "secureApp" \in v

gatewayConnectors(v) ==
  When(sharedLogsPipeline(v) /\ splunkO11yEnabled(v), {"routing/logs"})

\* Where the gateway's routing/logs connector sends a log record.
gatewayRoutes(v, kind) ==
  IF kind = "entity" THEN {"logs/entities"}
  ELSE IF kind = "secureapp" /\ "secureApp" \in v THEN {"logs/secureapp"}
  ELSE {"logs"}

nameCluster(v) == detectClusterName(v) \o Step("clusterName" \in v, "resource/add_cluster_name")

gatewayTracesSteps(v) ==
  <<"memory_limiter", "k8s_attributes", "batch">> \o nameCluster(v)
  \o Step("extraAttributes" \in v, "resource/add_custom_attrs")
  \o Step("environment" \in v, "resource/add_environment")

gatewayTracesPipeline(v) ==
  Pipeline("traces", "traces", {"otlp", "jaeger", "zipkin"}, gatewayTracesSteps(v),
    When(o11yTracesEnabled(v), {"otlp_http"})
      \cup When(platformTracesEnabled(v), {"splunk_hec/platform_traces"}))

gatewayMetricsSteps(v) ==
  <<"memory_limiter", "batch">> \o nameCluster(v)
  \o Step("extraAttributes" \in v, "resource/add_custom_attrs")
  \o Step("platform.metrics" \in v /\ "environment" \in v, "resource/add_environment")
  \o platformMetricsSteps(v)

gatewayMetricsPipeline(v) ==
  Pipeline("metrics", "metrics", {"otlp"}, gatewayMetricsSteps(v),
    When(o11yMetricsEnabled(v), {"signalfx"})
      \cup When(platformMetricsEnabled(v), {"splunk_hec/platform_metrics"}))

gatewaySecureAppSteps(v) ==
  <<"memory_limiter", "k8s_attributes">> \o nameCluster(v) \o <<"batch">>

gatewayO11yPipelines(v) ==
  Pipeline("logs/entities", "logs",
    (IF sharedLogsPipeline(v) THEN {"routing/logs"} ELSE {"otlp"}),
    <<"memory_limiter", "batch">>, {"otlp_http/entities"})
  \cup When("secureApp" \in v,
         Pipeline("logs/secureapp", "logs", {"routing/logs"}, gatewaySecureAppSteps(v),
           {"otlp_http/secureapp"}))

gatewayLogsSteps(v) ==
  <<"memory_limiter", "k8s_attributes", "filter/logs", "batch">>
  \o Step("autodetect.istio" \in v, "transform/istio_service_name")
  \o <<"resource/logs">>
  \o Step(platformLogsViaOtlpEnabled(v), "resource/otlp_platform_logs")

gatewayLogsPipelines(v) ==
  When(splunkO11yEnabled(v),
    Pipeline("logs/split", "logs", {"otlp"}, <<>>, {"routing/logs"}))
  \cup Pipeline("logs", "logs",
    (IF splunkO11yEnabled(v) THEN {"routing/logs"} ELSE {"otlp"}), gatewayLogsSteps(v),
    When(profilingEnabled(v), {"splunk_hec/o11y"}) \cup otlpOrHecPlatformLogs(v))

gatewayOwnMetricsPipeline(v) ==
  Pipeline("metrics/collector", "metrics", {"prometheus/collector"}, ownMetricsSteps(v),
    When(splunkO11yEnabled(v), {"signalfx"})
      \cup When(platformMetricsEnabled(v), {"splunk_hec/platform_metrics"}))

gatewayPipelines(v) ==
  When(tracesEnabled(v), gatewayTracesPipeline(v))
  \cup When(metricsEnabled(v), gatewayMetricsPipeline(v))
  \cup When(splunkO11yEnabled(v), gatewayO11yPipelines(v))
  \cup When(sharedLogsPipeline(v), gatewayLogsPipelines(v))
  \cup When(splunkO11yEnabled(v) \/ platformMetricsEnabled(v), gatewayOwnMetricsPipeline(v))

gatewayConfig(v) ==
  [extensions |-> gatewayExtensions(v), started |-> gatewayStarted(v),
   receivers |-> gatewayReceivers(v), processors |-> gatewayProcessors(v),
   exporters |-> gatewayExporters(v), connectors |-> gatewayConnectors(v),
   pipelines |-> gatewayPipelines(v)]

\* Mutant: OTLP over HTTP is not exposed.
gatewayServicePortsGrpc(v) ==
  When(metricsEnabled(v) \/ tracesEnabled(v) \/ logsEnabled(v) \/ profilingEnabled(v), {4317})
  \cup When(metricsEnabled(v) \/ tracesEnabled(v) \/ logsEnabled(v), {9943, 6060, 4320})

\* The ports of the gateway's service (gateway.ports as values.yaml has them).
gatewayServicePorts(v) ==
  When(metricsEnabled(v) \/ tracesEnabled(v) \/ logsEnabled(v) \/ profilingEnabled(v),
       {4317, 4318})
  \cup When(metricsEnabled(v) \/ tracesEnabled(v) \/ logsEnabled(v), {9943, 6060, 4320})

-----------------------------------------------------------------------------
(* The cluster receiver.                                                   *)

apiServerMetricsEnabled(v) == isEKS(v) /\ "enableEKSApiServerMetrics" \in v

clusterReceiverExtensions(v) ==
  {"health_check"} \cup opampExtension(v) \cup When(isFargate(v), {"k8s_observer"})

clusterReceiverStarted(v) ==
  {"health_check"}
  \cup When(directO11yOpampEnabled(v), {"opamp/splunk_o11y"})
  \cup When(isFargate(v), {"k8s_observer"})

clusterReceiverReceivers(v) ==
  {"prometheus/k8s_cluster_receiver", "k8s_cluster"}
  \cup When(objectsPipelineEnabled(v), {"k8s_objects"})
  \cup When(eventsPipelineEnabled(v), {"k8s_events"})
  \cup When("infraEvents" \in v, {"smartagent/kubernetes-events"})
  \cup When(isFargate(v), {"receiver_creator"})
  \cup When(apiServerMetricsEnabled(v), {"prometheus/kubernetes-apiserver"})

clusterReceiverProcessors(v) ==
  {"memory_limiter", "batch", "resource_detection", "transform/k8shpascaletargetref",
   "resource", "resource/add_cluster_host", "resource/k8s_cluster"}
  \cup platformMetricsProcessors(v)
  \cup When(autoDetectClusterName(v), {"resource_detection/k8s_cluster_name"})
  \cup When("infraEvents" \in v, {"resource/add_event_k8s"})
  \cup When(platformLogsViaOtlpEnabled(v), {"resource/otlp_platform_logs"})
  \cup When(eventsPipelineEnabled(v),
            {"transform/k8sevents", "attributes/drop_event_attrs"}
            \cup When(platformLogsViaOtlpEnabled(v), {"transform/add_events_sourcetype"}))
  \cup When(objectsPipelineEnabled(v), {"transform/add_sourcetype"})
  \cup When(objectsOrEventsEnabled(v) /\ "environment" \in v, {"resource/add_environment"})

clusterReceiverExporters(v) ==
  When(o11yMetricsEnabled(v) \/ "infraEvents" \in v, {"signalfx"})
  \cup When(splunkO11yEventsEndpointEnabled(v), {"otlp_http/o11y_events"})
  \cup When(k8sEntitiesEnabled(v), {"otlp_http/o11y_entities"})
  \cup When(platformMetricsEnabled(v), {"splunk_hec/platform_metrics"})
  \cup When(objectsOrEventsEnabled(v), otlpOrHecPlatformLogs(v))
  \cup When(apiServerMetricsEnabled(v) /\ o11yMetricsEnabled(v), {"signalfx/histograms"})

clusterMetricsExporters(v) ==
  When(o11yMetricsEnabled(v), {"signalfx"})
  \cup When(platformMetricsEnabled(v), {"splunk_hec/platform_metrics"})

clusterMetricsSteps(v) ==
  <<"memory_limiter", "batch", "transform/k8shpascaletargetref">>
  \o detectClusterName(v) \o <<"resource">> \o platformMetricsSteps(v)
  \o <<"resource/k8s_cluster">>

\* How most pipelines of the cluster receiver begin.
clusterSteps(v) == <<"memory_limiter", "batch">> \o detectClusterName(v) \o <<"resource">>

clusterMetricsPipelines(v) ==
  Pipeline("metrics", "metrics", {"k8s_cluster"}, clusterMetricsSteps(v),
    clusterMetricsExporters(v))
  \cup When(isFargate(v),
    Pipeline("metrics/eks", "metrics", {"receiver_creator"},
      clusterSteps(v) \o platformMetricsSteps(v), clusterMetricsExporters(v)))
  \cup Pipeline("metrics/collector", "metrics", {"prometheus/k8s_cluster_receiver"},
    ownMetricsSteps(v), clusterMetricsExporters(v))

clusterLogsExporters(v) ==
  otlpOrHecPlatformLogs(v)
  \cup When(splunkO11yEventsEndpointEnabled(v), {"otlp_http/o11y_events"})

clusterEventsSteps(v) ==
  <<"memory_limiter", "batch", "attributes/drop_event_attrs">> \o detectClusterName(v)
  \o <<"resource", "resource/add_cluster_host">>
  \o Step("environment" \in v, "resource/add_environment")
  \o Step(platformLogsViaOtlpEnabled(v), "resource/otlp_platform_logs")
  \o Step(platformLogsViaOtlpEnabled(v), "transform/add_events_sourcetype")
  \o <<"transform/k8sevents">>

clusterEventsPipeline(v) ==
  Pipeline("logs", "logs", {"k8s_events"}, clusterEventsSteps(v), clusterLogsExporters(v))

clusterObjectsSteps(v) ==
  clusterSteps(v) \o <<"resource/add_cluster_host", "transform/add_sourcetype">>
  \o Step(platformLogsViaOtlpEnabled(v), "resource/otlp_platform_logs")
  \o Step("environment" \in v, "resource/add_environment")

clusterObjectsPipeline(v) ==
  Pipeline("logs/objects", "logs", {"k8s_objects"}, clusterObjectsSteps(v), clusterLogsExporters(v))

clusterInfraEventsSteps(v) ==
  clusterSteps(v) \o <<"resource/add_cluster_host">>
  \o Step("clusterName" \in v, "resource/add_event_k8s")

clusterInfraEventsPipeline(v) ==
  Pipeline("logs/events", "logs", {"smartagent/kubernetes-events"}, clusterInfraEventsSteps(v),
    {"signalfx"})

clusterHistogramsPipeline(v) ==
  Pipeline("metrics/histograms", "metrics", {"prometheus/kubernetes-apiserver"}, clusterSteps(v),
    {"signalfx/histograms"})

clusterEntitiesPipeline(v) ==
  Pipeline("logs/k8s_entities", "logs", {"k8s_cluster"}, clusterSteps(v),
    When("enableK8sEntities" \in v, {"otlp_http/o11y_entities"})
      \cup When(entityEventsForProperties(v), {"signalfx"}))

clusterReceiverPipelines(v) ==
  When(metricsEnabled(v), clusterMetricsPipelines(v))
  \cup When(eventsPipelineEnabled(v), clusterEventsPipeline(v))
  \cup When(objectsPipelineEnabled(v), clusterObjectsPipeline(v))
  \cup When("infraEvents" \in v, clusterInfraEventsPipeline(v))
  \cup When(apiServerMetricsEnabled(v) /\ o11yMetricsEnabled(v), clusterHistogramsPipeline(v))
  \cup When(k8sEntitiesEnabled(v) \/ entityEventsForProperties(v), clusterEntitiesPipeline(v))

clusterReceiverConfig(v) ==
  [extensions |-> clusterReceiverExtensions(v), started |-> clusterReceiverStarted(v),
   receivers |-> clusterReceiverReceivers(v), processors |-> clusterReceiverProcessors(v),
   exporters |-> clusterReceiverExporters(v), connectors |-> {},
   pipelines |-> clusterReceiverPipelines(v)]

Config(w, v) ==
  CASE w = "agent" -> agentConfig(v)
    [] w = "gateway" -> gatewayConfig(v)
    [] w = "clusterReceiver" -> clusterReceiverConfig(v)

-----------------------------------------------------------------------------
(* What the collector checks before it runs a configuration (external).    *)

ProcessorsOf(p) == {p.processors[i] : i \in DOMAIN p.processors}

\* A component used in a pipeline is defined in the section of its kind.
ReferencesDefined(c) ==
  \A p \in c.pipelines :
    /\ p.receivers \subseteq c.receivers \cup c.connectors
    /\ ProcessorsOf(p) \subseteq c.processors
    /\ p.exporters \subseteq c.exporters \cup c.connectors

\* There are pipelines, each with a receiver and an exporter.
PipelinesComplete(c) ==
  /\ c.pipelines # {}
  /\ \A p \in c.pipelines : p.receivers # {} /\ p.exporters # {}

\* A connector ends one pipeline and begins another.
ConnectorsUsed(c) ==
  \A n \in c.connectors :
    \E p, q \in c.pipelines : n \in p.exporters /\ n \in q.receivers

\* Extensions that components of the configuration refer to, by component.
ExtensionUsed(w, v) ==
  {<<"file_log", "file_storage">>, <<"extraFileLogs", "file_storage">>,
   <<"journald", "file_storage">>, <<"receiver_creator", "k8s_observer">>,
   <<"otlp_http", "headers_setter">>, <<"otlp_http/entities", "headers_setter">>}
  \cup When(splunkO11yEnabled(v), {<<"otlp_grpc", "headers_setter">>})
  \cup When(w = "agent" /\ "persistentQueue" \in v,
         {<<e, "file_storage/persistent_queue">> : e \in platformExporters(v)})

\* What a pipeline's component refers to is started, and so is defined.
ExtensionsStarted(w, v, c) ==
  /\ c.started \subseteq c.extensions
  /\ \A p \in c.pipelines : \A u \in ExtensionUsed(w, v) :
       u[1] \in p.receivers \cup p.exporters => u[2] \in c.started

Loads(w, v) ==
  LET c == Config(w, v)
  IN ReferencesDefined(c) /\ PipelinesComplete(c) /\ ConnectorsUsed(c)
     /\ ExtensionsStarted(w, v, c)
=============================================================================
