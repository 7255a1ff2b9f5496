------------------------- MODULE TelemetryFlowProofs -------------------------
(***************************************************************************)
(* TelemetryFlow proved for every combination of options.                  *)
(***************************************************************************)
EXTENDS TelemetryFlow, WellFoundedInduction, TLAPS

\* What the collector asks of a pipeline, in terms of the configuration that
\* the pipeline is in.
Sound(p, c) ==
  /\ p.receivers \subseteq c.receivers \cup c.connectors
  /\ ProcessorsOf(p) \subseteq c.processors
  /\ p.exporters \subseteq c.exporters \cup c.connectors
  /\ p.receivers # {} /\ p.exporters # {}

-----------------------------------------------------------------------------
(* Pipelines.                                                              *)

\* A processor that a pipeline has under a condition.
LEMMA StepIn ==
  ASSUME NEW S, NEW c, NEW x, c => x \in S
  PROVE  Step(c, x) \in Seq(S)
<1>1. CASE c
  BY <1>1 DEF Step
<1>2. CASE ~c
  BY <1>2 DEF Step
<1> QED BY <1>1, <1>2

\* Processors listed one after the other.
LEMMA ConcatIn ==
  ASSUME NEW S, NEW s \in Seq(S), NEW t \in Seq(S)
  PROVE  s \o t \in Seq(S)
  OBVIOUS

\* A pipeline is sound if the lists it is made of are.
LEMMA SoundPipeline ==
  ASSUME NEW c, NEW name, NEW signal, NEW R, NEW P \in Seq(c.processors), NEW E,
         R \subseteq c.receivers \cup c.connectors, R # {},
         E \subseteq c.exporters \cup c.connectors, E # {}
  PROVE  \A p \in Pipeline(name, signal, R, P, E) : Sound(p, c)
<1> SUFFICES ASSUME NEW p \in Pipeline(name, signal, R, P, E) PROVE Sound(p, c)
  OBVIOUS
<1>1. p.receivers = R /\ p.processors = P /\ p.exporters = E
  BY DEF Pipeline
<1>2. ProcessorsOf(p) \subseteq c.processors
  BY <1>1 DEF ProcessorsOf
<1> QED BY <1>1, <1>2 DEF Sound

\* A pipeline that is rendered under a condition.
LEMMA SoundWhen ==
  ASSUME NEW c, NEW cond, NEW Ps, cond => \A p \in Ps : Sound(p, c)
  PROVE  \A p \in When(cond, Ps) : Sound(p, c)
  BY DEF When

-----------------------------------------------------------------------------
(* The agent.                                                              *)

\* The sections of the agent's configuration.
LEMMA AgentFields ==
  ASSUME NEW v
  PROVE  /\ agentConfig(v).receivers = agentReceivers(v)
         /\ agentConfig(v).processors = agentProcessors(v)
         /\ agentConfig(v).exporters = agentExporters(v)
         /\ agentConfig(v).connectors = agentConnectors(v)
         /\ agentConfig(v).started = agentStarted(v)
         /\ agentConfig(v).extensions = agentExtensions(v)
         /\ agentConfig(v).pipelines = agentPipelines(v)
  BY DEF agentConfig

\* Every processor that the agent's pipelines list is defined under the
\* conditions under which it is listed.
LEMMA AgentSteps ==
  ASSUME NEW v
  PROVE  /\ agentSecureAppSteps(v) \in Seq(agentProcessors(v))
         /\ agentLogsSteps(v) \in Seq(agentProcessors(v))
         /\ agentHostLogsSteps(v) \in Seq(agentProcessors(v))
         /\ agentTracesSteps(v) \in Seq(agentProcessors(v))
         /\ agentMetricsSteps(v) \in Seq(agentProcessors(v))
         /\ ownMetricsSteps(v) \in Seq(agentProcessors(v))
         /\ agentHistogramsSteps(v) \in Seq(agentProcessors(v))
         /\ <<"memory_limiter", "batch", "resource_detection", "resource">>
              \in Seq(agentProcessors(v))
<1> DEFINE S == agentProcessors(v)
<1>1. {"k8s_attributes", "memory_limiter", "batch", "resource_detection", "resource",
       "resource/add_agent_k8s"} \subseteq S
  BY DEF agentProcessors
<1>2. /\ platformMetricsEnabled(v) => "k8s_attributes/metrics" \in S
      /\ platformMetricsEnabled(v) /\ "sourcetype" \in v => "resource/metrics" \in S
  BY DEF agentProcessors, platformMetricsProcessors, When
<1>3. "gateway" \notin v =>
        /\ "resource/logs" \in S /\ "filter/logs" \in S
        /\ "autodetect.istio" \in v => "transform/istio_service_name" \in S
        /\ "renameFieldsSck" \in v => "transform/logs" \in S
  BY DEF agentProcessors, When
<1>4. /\ autoDetectClusterName(v) => "resource_detection/k8s_cluster_name" \in S
      /\ platformLogsViaOtlpEnabled(v) => "resource/otlp_platform_logs" \in S
      /\ "environment" \in v => "resource/add_environment" \in S
      /\ "isWindows" \in v => "metricstransform" \in S
  BY DEF agentProcessors, When
<1>5. autodetectsPrometheus(v) => "attributes/istio" \in S /\ "transform/drop_server_attrs" \in S
  BY DEF agentProcessors, When
<1> HIDE DEF S
<1>6. detectClusterName(v) \in Seq(S)
  BY <1>4, StepIn DEF detectClusterName
<1>7. platformMetricsSteps(v) \in Seq(S)
  BY <1>2, StepIn, ConcatIn DEF platformMetricsSteps
<1>8. prometheusSteps(v) \in Seq(S)
  BY <1>5, StepIn, ConcatIn DEF prometheusSteps
<1>9. Step("environment" \in v, "resource/add_environment") \in Seq(S)
  BY <1>4, StepIn
<1>10. agentSecureAppSteps(v) \in Seq(S)
  BY <1>1, <1>6, ConcatIn DEF agentSecureAppSteps
<1>11. agentLogsSteps(v) \in Seq(S)
  <2>1. Step("gateway" \notin v, "filter/logs") \in Seq(S)
    BY <1>3, StepIn
  <2>2. Step("noDropLogsPipeline" \notin v, "batch") \in Seq(S)
    BY <1>1, StepIn
  <2>3. Step("gateway" \notin v /\ "renameFieldsSck" \in v, "transform/logs") \in Seq(S)
    BY <1>3, StepIn
  <2>4. Step("gateway" \notin v /\ "autodetect.istio" \in v, "transform/istio_service_name")
          \in Seq(S)
    BY <1>3, StepIn
  <2>5. Step("gateway" \notin v, "resource/logs") \in Seq(S)
    BY <1>3, StepIn
  <2>6. Step("gateway" \notin v /\ platformLogsViaOtlpEnabled(v), "resource/otlp_platform_logs")
          \in Seq(S)
    BY <1>4, StepIn
  <2>7. /\ <<"memory_limiter", "k8s_attributes">> \in Seq(S)
        /\ <<"resource_detection", "resource">> \in Seq(S)
    BY <1>1
  <2> QED BY <1>9, <2>1, <2>2, <2>3, <2>4, <2>5, <2>6, <2>7, ConcatIn DEF agentLogsSteps
<1>12. agentHostLogsSteps(v) \in Seq(S)
  <2>1. Step("noDropLogsPipeline" \notin v, "batch") \in Seq(S)
    BY <1>1, StepIn
  <2>2. Step("gateway" \notin v /\ platformLogsViaOtlpEnabled(v), "resource/otlp_platform_logs")
          \in Seq(S)
    BY <1>4, StepIn
  <2> QED BY <1>1, <1>6, <1>9, <2>1, <2>2, ConcatIn DEF agentHostLogsSteps
<1>13. agentTracesSteps(v) \in Seq(S)
  BY <1>1, <1>9, ConcatIn DEF agentTracesSteps
<1>14. agentMetricsSteps(v) \in Seq(S)
  <2>1. Step("platform.metrics" \in v /\ "environment" \in v, "resource/add_environment")
          \in Seq(S)
    BY <1>4, StepIn
  <2>2. Step("isWindows" \in v, "metricstransform") \in Seq(S)
    BY <1>4, StepIn
  <2> QED BY <1>1, <1>7, <1>8, <2>1, <2>2, ConcatIn DEF agentMetricsSteps
<1>15. ownMetricsSteps(v) \in Seq(S)
  BY <1>1, <1>2, StepIn, ConcatIn DEF ownMetricsSteps
<1>16. agentHistogramsSteps(v) \in Seq(S)
  BY <1>1, <1>8, ConcatIn DEF agentHistogramsSteps
<1>17. <<"memory_limiter", "batch", "resource_detection", "resource">> \in Seq(S)
  BY <1>1
<1> QED BY <1>10, <1>11, <1>12, <1>13, <1>14, <1>15, <1>16, <1>17 DEF S

\* Without the host's logs, every receiver and exporter that a pipeline of the
\* agent lists is defined, and each pipeline has both.
LEMMA AgentPipelinesSound ==
  ASSUME NEW v, RealmGiven(v), ~Unusable("agent", v)
  PROVE  \A p \in agentPipelines(v) : Sound(p, agentConfig(v))
<1> DEFINE c == agentConfig(v)
           Rs == agentReceivers(v) \cup agentConnectors(v)
           Es == agentExporters(v) \cup agentConnectors(v)
<1>1. c.receivers \cup c.connectors = Rs /\ c.exporters \cup c.connectors = Es
  BY AgentFields
<1>2. c.processors = agentProcessors(v)
  BY AgentFields
<1>3. "otlp" \in Rs /\ "prometheus/agent" \in Rs
  BY DEF agentReceivers
<1>4. tracesEnabled(v) => {"jaeger", "zipkin"} \subseteq Rs
  BY DEF agentReceivers, traceReceivers, When
<1>5. metricsEnabled(v) => {"host_metrics", "receiver_creator", "kubelet_stats"} \subseteq Rs
  BY DEF agentReceivers, When
<1>6. "targetallocator" \in v => "prometheus/ta" \in Rs
  BY DEF agentReceivers, When
<1>7. logsEnabled(v) =>
        /\ "containers" \in v => "file_log" \in Rs
        /\ hostLogReceivers(v) \subseteq Rs
  BY DEF agentReceivers, When
<1>8. splunkO11yEnabled(v) => "nop" \in Rs
  BY DEF agentReceivers, When
<1>9. "secureApp" \in v => "routing/logs" \in Rs /\ "routing/logs" \in Es
  BY DEF agentConnectors, When
<1>10. "gateway" \in v => "otlp_grpc" \in Es
  BY DEF agentExporters
<1>11. "gateway" \notin v =>
         /\ o11yTracesEnabled(v) => "otlp_http" \in Es
         /\ profilingEnabled(v) => "splunk_hec/o11y" \in Es
         /\ "secureApp" \in v => "otlp_http/secureapp" \in Es
         /\ platformExporters(v) \subseteq Es
  BY DEF agentExporters, When
<1>12. splunkO11yEnabled(v) =>
         /\ {"signalfx", "otlp_http/entities"} \subseteq Es
         /\ "gateway" \in v /\ o11yMetricsEnabled(v) => "signalfx/host_metadata" \in Es
         /\ "useControlPlaneMetricsHistogramData" \in v => "signalfx/histograms" \in Es
  BY DEF agentExporters, When
<1> HIDE DEF Rs, Es, c
<1>13. "secureApp" \in v => \A p \in agentSecureAppPipelines(v) : Sound(p, c)
  <2> SUFFICES ASSUME "secureApp" \in v
               PROVE  \A p \in agentSecureAppPipelines(v) : Sound(p, c)
    OBVIOUS
  <2>1. <<>> \in Seq(c.processors)
    OBVIOUS
  <2>2. /\ toGatewayOr(v, {"otlp_http/secureapp"}) \subseteq Es
        /\ toGatewayOr(v, {"otlp_http/secureapp"}) # {}
    BY <1>10, <1>11 DEF toGatewayOr
  <2>3. \A p \in Pipeline("logs/secureapp", "logs", {"routing/logs"}, agentSecureAppSteps(v),
                         toGatewayOr(v, {"otlp_http/secureapp"})) : Sound(p, c)
    BY <1>1, <1>2, <1>9, <2>2, AgentSteps, SoundPipeline
  <2>4. \A p \in Pipeline("logs/split", "logs", {"otlp"}, <<>>, {"routing/logs"}) : Sound(p, c)
    BY <1>1, <1>3, <1>9, <2>1, SoundPipeline
  <2> QED BY <2>3, <2>4 DEF agentSecureAppPipelines
<1>14. logsEnabled(v) \/ profilingEnabled(v) => \A p \in agentLogsPipeline(v) : Sound(p, c)
  <2> SUFFICES ASSUME logsEnabled(v) \/ profilingEnabled(v)
               PROVE  \A p \in agentLogsPipeline(v) : Sound(p, c)
    OBVIOUS
  <2>1. agentLogsReceivers(v) \subseteq Rs /\ agentLogsReceivers(v) # {}
    BY <1>3, <1>7, <1>9 DEF agentLogsReceivers, When
  <2> DEFINE E == toGatewayOr(v, When(profilingEnabled(v), {"splunk_hec/o11y"})
                                 \cup otlpOrHecPlatformLogs(v))
  <2>2. E \subseteq Es
    BY <1>10, <1>11 DEF toGatewayOr, When, platformExporters
  <2>3. E # {}
    BY DEF toGatewayOr, When, otlpOrHecPlatformLogs, logsEnabled
  <2> HIDE DEF E
  <2> QED BY <1>1, <1>2, <2>1, <2>2, <2>3, AgentSteps, SoundPipeline DEF agentLogsPipeline, E
<1>15. (logsEnabled(v) \/ profilingEnabled(v)) /\ hostLogReceivers(v) # {} =>
         \A p \in agentHostLogsPipeline(v) : Sound(p, c)
  <2> SUFFICES ASSUME logsEnabled(v) \/ profilingEnabled(v), hostLogReceivers(v) # {}
               PROVE  \A p \in agentHostLogsPipeline(v) : Sound(p, c)
    OBVIOUS
  <2>1. logsEnabled(v)
    BY DEF Unusable
  <2> DEFINE E == toGatewayOr(v, otlpOrHecPlatformLogs(v))
  <2>2. E \subseteq Es
    BY <1>10, <1>11 DEF toGatewayOr, platformExporters
  <2>3. E # {}
    BY <2>1 DEF toGatewayOr, When, otlpOrHecPlatformLogs, logsEnabled
  <2> HIDE DEF E
  <2> QED BY <1>1, <1>2, <1>7, <2>1, <2>2, <2>3, AgentSteps, SoundPipeline
          DEF agentHostLogsPipeline, E
<1>16. tracesEnabled(v) => \A p \in agentTracesPipeline(v) : Sound(p, c)
  <2> SUFFICES ASSUME tracesEnabled(v) PROVE \A p \in agentTracesPipeline(v) : Sound(p, c)
    OBVIOUS
  <2> DEFINE E == toGatewayOr(v, When(o11yTracesEnabled(v), {"otlp_http"})
                     \cup When(platformTracesEnabled(v), {"splunk_hec/platform_traces"}))
  <2>1. E \subseteq Es
    BY <1>10, <1>11 DEF toGatewayOr, When, platformExporters
  <2>2. E # {}
    BY DEF toGatewayOr, When, tracesEnabled
  <2>3. {"otlp", "jaeger", "zipkin"} \subseteq Rs
    BY <1>3, <1>4
  <2> HIDE DEF E
  <2> QED BY <1>1, <1>2, <2>1, <2>2, <2>3, AgentSteps, SoundPipeline DEF agentTracesPipeline, E
<1>17. metricsEnabled(v) => \A p \in agentMetricsPipeline(v) : Sound(p, c)
  <2> SUFFICES ASSUME metricsEnabled(v) PROVE \A p \in agentMetricsPipeline(v) : Sound(p, c)
    OBVIOUS
  <2> DEFINE R == {"host_metrics", "kubelet_stats", "otlp"}
                  \cup When("useControlPlaneMetricsHistogramData" \notin v, {"receiver_creator"})
                  \cup When("targetallocator" \in v, {"prometheus/ta"})
             E == IF "gateway" \in v
                  THEN {"otlp_grpc"} \cup When(o11yMetricsEnabled(v), {"signalfx/host_metadata"})
                  ELSE When(o11yMetricsEnabled(v), {"signalfx"})
                       \cup When(platformMetricsEnabled(v), {"splunk_hec/platform_metrics"})
  <2>1. R \subseteq Rs /\ R # {}
    BY <1>3, <1>5, <1>6 DEF When
  <2>2. E \subseteq Es
    BY <1>10, <1>11, <1>12 DEF When, platformExporters, o11yMetricsEnabled
  <2>3. E # {}
    BY DEF When, metricsEnabled
  <2> HIDE DEF R, E
  <2> QED BY <1>1, <1>2, <2>1, <2>2, <2>3, AgentSteps, SoundPipeline DEF agentMetricsPipeline, R, E
<1>18. splunkO11yEnabled(v) \/ platformMetricsEnabled(v) =>
         \A p \in agentOwnMetricsPipeline(v) : Sound(p, c)
  <2> SUFFICES ASSUME splunkO11yEnabled(v) \/ platformMetricsEnabled(v)
               PROVE  \A p \in agentOwnMetricsPipeline(v) : Sound(p, c)
    OBVIOUS
  <2> DEFINE E == toGatewayOr(v, When(splunkO11yEnabled(v), {"signalfx"})
                     \cup When(platformMetricsEnabled(v), {"splunk_hec/platform_metrics"}))
  <2>1. E \subseteq Es
    BY <1>10, <1>11, <1>12 DEF toGatewayOr, When, platformExporters
  <2>2. E # {}
    BY DEF toGatewayOr, When
  <2> HIDE DEF E
  <2> QED BY <1>1, <1>2, <1>3, <2>1, <2>2, AgentSteps, SoundPipeline
          DEF agentOwnMetricsPipeline, E
<1>19. splunkO11yEnabled(v) => \A p \in agentO11yPipelines(v) : Sound(p, c)
  <2> SUFFICES ASSUME splunkO11yEnabled(v) PROVE \A p \in agentO11yPipelines(v) : Sound(p, c)
    OBVIOUS
  <2>1. \A p \in Pipeline("logs/entities", "logs", {"nop"},
                <<"memory_limiter", "batch", "resource_detection", "resource">>,
                {"otlp_http/entities"}) : Sound(p, c)
    BY <1>1, <1>2, <1>8, <1>12, AgentSteps, SoundPipeline
  <2>2. ASSUME "useControlPlaneMetricsHistogramData" \in v, metricsEnabled(v)
        PROVE  \A p \in Pipeline("metrics/histograms", "metrics", {"receiver_creator"},
                  agentHistogramsSteps(v), {"signalfx/histograms"}) : Sound(p, c)
    BY <1>1, <1>2, <1>5, <1>12, <2>2, AgentSteps, SoundPipeline
  <2> QED BY <2>1, <2>2 DEF agentO11yPipelines, When
<1> QED BY <1>13, <1>14, <1>15, <1>16, <1>17, <1>18, <1>19 DEF agentPipelines, When, c

\* The extensions that the agent's components refer to are started.
LEMMA AgentExtensions ==
  ASSUME NEW v, \A p \in agentPipelines(v) : Sound(p, agentConfig(v))
  PROVE  ExtensionsStarted("agent", v, agentConfig(v))
<1> DEFINE names == agentReceivers(v) \cup agentExporters(v) \cup agentConnectors(v)
<1>1. \A p \in agentPipelines(v) : p.receivers \cup p.exporters \subseteq names
  BY AgentFields DEF Sound
<1>2. agentStarted(v) \subseteq agentExtensions(v)
  BY DEF agentStarted, agentExtensions, opampExtension, opampForwarder, When
<1>3. "k8s_observer" \in agentStarted(v)
  BY DEF agentStarted
<1>4. splunkO11yEnabled(v) => "headers_setter" \in agentStarted(v)
  BY DEF agentStarted, When
<1>5. logsEnabled(v) => "file_storage" \in agentStarted(v)
  BY DEF agentStarted, When
<1>6. "persistentQueue" \in v => "file_storage/persistent_queue" \in agentStarted(v)
  BY DEF agentStarted, When
<1>7. names \cap {"file_log", "extraFileLogs", "journald"} # {} => logsEnabled(v)
  BY DEF agentReceivers, agentExporters, agentConnectors, traceReceivers, hostLogReceivers,
     platformExporters, otlpOrHecPlatformLogs, When
<1>8. names \cap {"otlp_http", "otlp_http/entities"} # {} => splunkO11yEnabled(v)
  BY DEF agentReceivers, agentExporters, agentConnectors, traceReceivers, hostLogReceivers,
     platformExporters, otlpOrHecPlatformLogs, When, o11yTracesEnabled
<1> HIDE DEF names
<1>9. ASSUME NEW u \in ExtensionUsed("agent", v), u[1] \in names PROVE u[2] \in agentStarted(v)
  BY <1>3, <1>4, <1>5, <1>6, <1>7, <1>8, <1>9 DEF ExtensionUsed, When
<1> QED BY <1>1, <1>2, <1>9, AgentFields DEF ExtensionsStarted

\* A destination is given and has a signal, so that there is something to run.
LEMMA SignalGiven ==
  ASSUME NEW v, Installable(v)
  PROVE  splunkO11yEnabled(v) \/ platformMetricsEnabled(v) \/ logsEnabled(v)
  BY DEF Installable, SchemaAccepts, destinationGiven, platformSignalGiven, platformEndpointGiven,
     splunkPlatformEnabled, splunkO11yEnabled, platformMetricsEnabled, logsEnabled,
     platformLogsEnabled, platformLogsViaOtlpEnabled

\* The agent's configuration can be run unless the host's logs are collected
\* and logs are not sent anywhere.
LEMMA AgentLoads ==
  ASSUME NEW v, Installable(v), RealmGiven(v)
  PROVE  Loads("agent", v) <=> ~Unusable("agent", v)
<1>1. Config("agent", v) = agentConfig(v)
  BY DEF Config
<1>2. ASSUME ~Unusable("agent", v) PROVE Loads("agent", v)
  <2> DEFINE c == agentConfig(v)
  <2>1. \A p \in agentPipelines(v) : Sound(p, c)
    BY <1>2, AgentPipelinesSound
  <2>2. ReferencesDefined(c)
    BY <2>1, AgentFields DEF ReferencesDefined, Sound
  <2>3. agentPipelines(v) # {}
    BY SignalGiven DEF agentPipelines, agentO11yPipelines, agentOwnMetricsPipeline,
       agentLogsPipeline, Pipeline, When
  <2>4. PipelinesComplete(c)
    BY <2>1, <2>3, AgentFields DEF PipelinesComplete, Sound
  <2>5. ConnectorsUsed(c)
    <3> SUFFICES ASSUME NEW n \in agentConnectors(v)
                 PROVE  \E p, q \in agentPipelines(v) : n \in p.exporters /\ n \in q.receivers
      BY AgentFields DEF ConnectorsUsed
    <3>1. n = "routing/logs" /\ "secureApp" \in v
      BY DEF agentConnectors, When
    <3>2. \E p \in Pipeline("logs/split", "logs", {"otlp"}, <<>>, {"routing/logs"}) :
            n \in p.exporters
      BY <3>1 DEF Pipeline
    <3>3. \E q \in Pipeline("logs/secureapp", "logs", {"routing/logs"}, agentSecureAppSteps(v),
                           toGatewayOr(v, {"otlp_http/secureapp"})) : n \in q.receivers
      BY <3>1 DEF Pipeline
    <3> QED BY <3>1, <3>2, <3>3 DEF agentPipelines, agentSecureAppPipelines, When
  <2>6. ExtensionsStarted("agent", v, c)
    BY <2>1, AgentExtensions
  <2> HIDE DEF c
  <2> QED BY <1>1, <2>2, <2>4, <2>5, <2>6 DEF Loads, c
<1>3. ASSUME Unusable("agent", v) PROVE ~Loads("agent", v)
  <2>1. hostLogReceivers(v) # {} /\ profilingEnabled(v) /\ ~logsEnabled(v)
    BY <1>3 DEF Unusable
  <2>2. PICK p \in agentHostLogsPipeline(v) :
           /\ p.receivers = hostLogReceivers(v)
           /\ p.exporters = toGatewayOr(v, otlpOrHecPlatformLogs(v))
    BY DEF agentHostLogsPipeline, Pipeline
  <2>3. p \in agentConfig(v).pipelines
    BY <2>1, AgentFields DEF agentPipelines, When
  <2>4. CASE "gateway" \notin v
    <3>1. p.exporters = {}
      BY <2>1, <2>2, <2>4 DEF toGatewayOr, otlpOrHecPlatformLogs, logsEnabled, When
    <3> QED BY <1>1, <2>3, <3>1 DEF Loads, PipelinesComplete
  <2>5. CASE "gateway" \in v
    <3>1. ~(p.receivers \subseteq agentReceivers(v) \cup agentConnectors(v))
      BY <2>1, <2>2 DEF hostLogReceivers, agentReceivers, agentConnectors, traceReceivers, When
    <3> QED BY <1>1, <2>3, <3>1, AgentFields DEF Loads, ReferencesDefined
  <2> QED BY <2>4, <2>5
<1> QED BY <1>2, <1>3

-----------------------------------------------------------------------------
(* The gateway.                                                            *)

\* The sections of the gateway's configuration.
LEMMA GatewayFields ==
  ASSUME NEW v
  PROVE  /\ gatewayConfig(v).receivers = gatewayReceivers(v)
         /\ gatewayConfig(v).processors = gatewayProcessors(v)
         /\ gatewayConfig(v).exporters = gatewayExporters(v)
         /\ gatewayConfig(v).connectors = gatewayConnectors(v)
         /\ gatewayConfig(v).started = gatewayStarted(v)
         /\ gatewayConfig(v).extensions = gatewayExtensions(v)
         /\ gatewayConfig(v).pipelines = gatewayPipelines(v)
  BY DEF gatewayConfig

\* Every processor that the gateway's pipelines list is defined under the
\* conditions under which it is listed.
LEMMA GatewaySteps ==
  ASSUME NEW v
  PROVE  /\ gatewayTracesSteps(v) \in Seq(gatewayProcessors(v))
         /\ gatewayMetricsSteps(v) \in Seq(gatewayProcessors(v))
         /\ gatewaySecureAppSteps(v) \in Seq(gatewayProcessors(v))
         /\ gatewayLogsSteps(v) \in Seq(gatewayProcessors(v))
         /\ ownMetricsSteps(v) \in Seq(gatewayProcessors(v))
         /\ <<"memory_limiter", "batch">> \in Seq(gatewayProcessors(v))
<1> DEFINE S == gatewayProcessors(v)
<1>1. {"k8s_attributes", "resource/logs", "filter/logs", "memory_limiter", "batch",
       "resource_detection", "resource/add_cluster_name"} \subseteq S
  BY DEF gatewayProcessors
<1>2. /\ platformMetricsEnabled(v) => "k8s_attributes/metrics" \in S
      /\ platformMetricsEnabled(v) /\ "sourcetype" \in v => "resource/metrics" \in S
  BY DEF gatewayProcessors, platformMetricsProcessors, When
<1>3. /\ platformLogsViaOtlpEnabled(v) => "resource/otlp_platform_logs" \in S
      /\ "autodetect.istio" \in v => "transform/istio_service_name" \in S
      /\ autoDetectClusterName(v) => "resource_detection/k8s_cluster_name" \in S
  BY DEF gatewayProcessors, When
<1>4. /\ "extraAttributes" \in v => "resource/add_custom_attrs" \in S
      /\ "environment" \in v => "resource/add_environment" \in S
  BY DEF gatewayProcessors, When
<1> HIDE DEF S
<1>5. nameCluster(v) \in Seq(S)
  <2>1. detectClusterName(v) \in Seq(S)
    BY <1>3, StepIn DEF detectClusterName
  <2>2. Step("clusterName" \in v, "resource/add_cluster_name") \in Seq(S)
    BY <1>1, StepIn
  <2> QED BY <2>1, <2>2, ConcatIn DEF nameCluster
<1>6. platformMetricsSteps(v) \in Seq(S)
  BY <1>2, StepIn, ConcatIn DEF platformMetricsSteps
<1>7. /\ Step("extraAttributes" \in v, "resource/add_custom_attrs") \in Seq(S)
      /\ Step("environment" \in v, "resource/add_environment") \in Seq(S)
  BY <1>4, StepIn
<1>8. gatewayTracesSteps(v) \in Seq(S)
  BY <1>1, <1>5, <1>7, ConcatIn DEF gatewayTracesSteps
<1>9. gatewayMetricsSteps(v) \in Seq(S)
  <2>1. Step("platform.metrics" \in v /\ "environment" \in v, "resource/add_environment")
          \in Seq(S)
    BY <1>4, StepIn
  <2> QED BY <1>1, <1>5, <1>6, <1>7, <2>1, ConcatIn DEF gatewayMetricsSteps
<1>10. gatewaySecureAppSteps(v) \in Seq(S)
  BY <1>1, <1>5, ConcatIn DEF gatewaySecureAppSteps
<1>11. gatewayLogsSteps(v) \in Seq(S)
  <2>1. /\ Step("autodetect.istio" \in v, "transform/istio_service_name") \in Seq(S)
        /\ Step(platformLogsViaOtlpEnabled(v), "resource/otlp_platform_logs") \in Seq(S)
    BY <1>3, StepIn
  <2> QED BY <1>1, <2>1, ConcatIn DEF gatewayLogsSteps
<1>12. ownMetricsSteps(v) \in Seq(S)
  BY <1>1, <1>2, StepIn, ConcatIn DEF ownMetricsSteps
<1>13. <<"memory_limiter", "batch">> \in Seq(S)
  BY <1>1
<1> QED BY <1>8, <1>9, <1>10, <1>11, <1>12, <1>13 DEF S

\* With logs or profiling besides SecureApp, or without SecureApp, every
\* receiver and exporter that a pipeline of the gateway lists is defined.
LEMMA GatewayPipelinesSound ==
  ASSUME NEW v, RealmGiven(v), ~Unusable("gateway", v)
  PROVE  \A p \in gatewayPipelines(v) : Sound(p, gatewayConfig(v))
<1> DEFINE c == gatewayConfig(v)
           Rs == gatewayReceivers(v) \cup gatewayConnectors(v)
           Es == gatewayExporters(v) \cup gatewayConnectors(v)
<1>1. c.receivers \cup c.connectors = Rs /\ c.exporters \cup c.connectors = Es
  BY GatewayFields
<1>2. c.processors = gatewayProcessors(v)
  BY GatewayFields
<1>3. "otlp" \in Rs /\ "prometheus/collector" \in Rs
  BY DEF gatewayReceivers
<1>4. tracesEnabled(v) => {"jaeger", "zipkin"} \subseteq Rs
  BY DEF gatewayReceivers, traceReceivers, When
<1>5. sharedLogsPipeline(v) /\ splunkO11yEnabled(v) =>
        "routing/logs" \in Rs /\ "routing/logs" \in Es
  BY DEF gatewayConnectors, When
<1>6. splunkO11yEnabled(v) =>
        /\ {"signalfx", "otlp_http/entities"} \subseteq Es
        /\ "secureApp" \in v => "otlp_http/secureapp" \in Es
  BY DEF gatewayExporters, When
<1>7. /\ o11yTracesEnabled(v) => "otlp_http" \in Es
      /\ profilingEnabled(v) => "splunk_hec/o11y" \in Es
      /\ platformExporters(v) \subseteq Es
  BY DEF gatewayExporters, When
<1>8. "secureApp" \in v => splunkO11yEnabled(v) /\ sharedLogsPipeline(v)
  BY DEF RealmGiven, sharedLogsPipeline
<1> HIDE DEF Rs, Es, c
<1>9. tracesEnabled(v) => \A p \in gatewayTracesPipeline(v) : Sound(p, c)
  <2> SUFFICES ASSUME tracesEnabled(v) PROVE \A p \in gatewayTracesPipeline(v) : Sound(p, c)
    OBVIOUS
  <2> DEFINE E == When(o11yTracesEnabled(v), {"otlp_http"})
                  \cup When(platformTracesEnabled(v), {"splunk_hec/platform_traces"})
  <2>1. E \subseteq Es
    BY <1>7 DEF When, platformExporters
  <2>2. E # {}
    BY DEF When, tracesEnabled
  <2>3. {"otlp", "jaeger", "zipkin"} \subseteq Rs
    BY <1>3, <1>4
  <2> HIDE DEF E
  <2> QED BY <1>1, <1>2, <2>1, <2>2, <2>3, GatewaySteps, SoundPipeline
          DEF gatewayTracesPipeline, E
<1>10. metricsEnabled(v) => \A p \in gatewayMetricsPipeline(v) : Sound(p, c)
  <2> SUFFICES ASSUME metricsEnabled(v) PROVE \A p \in gatewayMetricsPipeline(v) : Sound(p, c)
    OBVIOUS
  <2> DEFINE E == When(o11yMetricsEnabled(v), {"signalfx"})
                  \cup When(platformMetricsEnabled(v), {"splunk_hec/platform_metrics"})
  <2>1. E \subseteq Es
    BY <1>6, <1>7 DEF When, platformExporters, o11yMetricsEnabled
  <2>2. E # {}
    BY DEF When, metricsEnabled
  <2> HIDE DEF E
  <2> QED BY <1>1, <1>2, <1>3, <2>1, <2>2, GatewaySteps, SoundPipeline
          DEF gatewayMetricsPipeline, E
<1>11. splunkO11yEnabled(v) => \A p \in gatewayO11yPipelines(v) : Sound(p, c)
  <2> SUFFICES ASSUME splunkO11yEnabled(v) PROVE \A p \in gatewayO11yPipelines(v) : Sound(p, c)
    OBVIOUS
  <2> DEFINE R == IF sharedLogsPipeline(v) THEN {"routing/logs"} ELSE {"otlp"}
  <2>1. R \subseteq Rs /\ R # {}
    BY <1>3, <1>5
  <2> HIDE DEF R
  <2>2. \A p \in Pipeline("logs/entities", "logs", R, <<"memory_limiter", "batch">>,
                         {"otlp_http/entities"}) : Sound(p, c)
    BY <1>1, <1>2, <1>6, <2>1, GatewaySteps, SoundPipeline
  <2>3. ASSUME "secureApp" \in v
        PROVE  \A p \in Pipeline("logs/secureapp", "logs", {"routing/logs"},
                  gatewaySecureAppSteps(v), {"otlp_http/secureapp"}) : Sound(p, c)
    BY <1>1, <1>2, <1>5, <1>6, <1>8, <2>3, GatewaySteps, SoundPipeline
  <2> QED BY <2>2, <2>3 DEF gatewayO11yPipelines, When, R
<1>12. sharedLogsPipeline(v) => \A p \in gatewayLogsPipelines(v) : Sound(p, c)
  <2> SUFFICES ASSUME sharedLogsPipeline(v) PROVE \A p \in gatewayLogsPipelines(v) : Sound(p, c)
    OBVIOUS
  <2> DEFINE R == IF splunkO11yEnabled(v) THEN {"routing/logs"} ELSE {"otlp"}
             E == When(profilingEnabled(v), {"splunk_hec/o11y"}) \cup otlpOrHecPlatformLogs(v)
  <2>1. R \subseteq Rs /\ R # {}
    BY <1>3, <1>5
  <2>2. E \subseteq Es
    BY <1>7 DEF When, platformExporters
  <2>3. logsEnabled(v) \/ profilingEnabled(v)
    BY DEF Unusable, sharedLogsPipeline
  <2>4. E # {}
    BY <2>3 DEF When, otlpOrHecPlatformLogs, logsEnabled
  <2> HIDE DEF R, E
  <2>5. \A p \in Pipeline("logs", "logs", R, gatewayLogsSteps(v), E) : Sound(p, c)
    BY <1>1, <1>2, <2>1, <2>2, <2>4, GatewaySteps, SoundPipeline
  <2>6. <<>> \in Seq(c.processors)
    OBVIOUS
  <2>7. ASSUME splunkO11yEnabled(v)
        PROVE  \A p \in Pipeline("logs/split", "logs", {"otlp"}, <<>>, {"routing/logs"}) :
                 Sound(p, c)
    BY <1>1, <1>3, <1>5, <2>6, <2>7, SoundPipeline
  <2> QED BY <2>5, <2>7 DEF gatewayLogsPipelines, When, R, E
<1>13. splunkO11yEnabled(v) \/ platformMetricsEnabled(v) =>
         \A p \in gatewayOwnMetricsPipeline(v) : Sound(p, c)
  <2> SUFFICES ASSUME splunkO11yEnabled(v) \/ platformMetricsEnabled(v)
               PROVE  \A p \in gatewayOwnMetricsPipeline(v) : Sound(p, c)
    OBVIOUS
  <2> DEFINE E == When(splunkO11yEnabled(v), {"signalfx"})
                  \cup When(platformMetricsEnabled(v), {"splunk_hec/platform_metrics"})
  <2>1. E \subseteq Es
    BY <1>6, <1>7 DEF When, platformExporters
  <2>2. E # {}
    BY DEF When
  <2> HIDE DEF E
  <2> QED BY <1>1, <1>2, <1>3, <2>1, <2>2, GatewaySteps, SoundPipeline
          DEF gatewayOwnMetricsPipeline, E
<1> QED BY <1>9, <1>10, <1>11, <1>12, <1>13 DEF gatewayPipelines, When, c

\* The extensions that the gateway's components refer to are started.
LEMMA GatewayExtensions ==
  ASSUME NEW v, \A p \in gatewayPipelines(v) : Sound(p, gatewayConfig(v))
  PROVE  ExtensionsStarted("gateway", v, gatewayConfig(v))
<1> DEFINE names == gatewayReceivers(v) \cup gatewayExporters(v) \cup gatewayConnectors(v)
<1>1. \A p \in gatewayPipelines(v) : p.receivers \cup p.exporters \subseteq names
  BY GatewayFields DEF Sound
<1>2. gatewayStarted(v) \subseteq gatewayExtensions(v)
  BY DEF gatewayStarted, gatewayExtensions, opampExtension, opampForwarder, When,
     directO11yOpampEnabled
<1>3. splunkO11yEnabled(v) => "headers_setter" \in gatewayStarted(v)
  BY DEF gatewayStarted, When
<1>4. names \cap {"file_log", "extraFileLogs", "journald", "receiver_creator", "otlp_grpc"} = {}
  BY DEF gatewayReceivers, gatewayExporters, gatewayConnectors, traceReceivers,
     platformExporters, otlpOrHecPlatformLogs, When
<1>5. names \cap {"otlp_http", "otlp_http/entities"} # {} => splunkO11yEnabled(v)
  BY DEF gatewayReceivers, gatewayExporters, gatewayConnectors, traceReceivers,
     platformExporters, otlpOrHecPlatformLogs, When, o11yTracesEnabled
<1> HIDE DEF names
<1>6. ASSUME NEW u \in ExtensionUsed("gateway", v), u[1] \in names PROVE u[2] \in gatewayStarted(v)
  BY <1>3, <1>4, <1>5, <1>6 DEF ExtensionUsed, When
<1> QED BY <1>1, <1>2, <1>6, GatewayFields DEF ExtensionsStarted

\* The gateway's configuration can be run unless SecureApp is the only signal
\* of its logs pipeline.
LEMMA GatewayLoads ==
  ASSUME NEW v, Installable(v), RealmGiven(v)
  PROVE  Loads("gateway", v) <=> ~Unusable("gateway", v)
<1>1. Config("gateway", v) = gatewayConfig(v)
  BY DEF Config
<1>2. ASSUME ~Unusable("gateway", v) PROVE Loads("gateway", v)
  <2> DEFINE c == gatewayConfig(v)
  <2>1. \A p \in gatewayPipelines(v) : Sound(p, c)
    BY <1>2, GatewayPipelinesSound
  <2>2. ReferencesDefined(c)
    BY <2>1, GatewayFields DEF ReferencesDefined, Sound
  <2>3. gatewayPipelines(v) # {}
    BY SignalGiven DEF gatewayPipelines, gatewayO11yPipelines, gatewayOwnMetricsPipeline,
       gatewayLogsPipelines, sharedLogsPipeline, Pipeline, When
  <2>4. PipelinesComplete(c)
    BY <2>1, <2>3, GatewayFields DEF PipelinesComplete, Sound
  <2>5. ConnectorsUsed(c)
    <3> SUFFICES ASSUME NEW n \in gatewayConnectors(v)
                 PROVE  \E p, q \in gatewayPipelines(v) : n \in p.exporters /\ n \in q.receivers
      BY GatewayFields DEF ConnectorsUsed
    <3>1. n = "routing/logs" /\ sharedLogsPipeline(v) /\ splunkO11yEnabled(v)
      BY DEF gatewayConnectors, When
    <3>2. \E p \in Pipeline("logs/split", "logs", {"otlp"}, <<>>, {"routing/logs"}) :
            n \in p.exporters
      BY <3>1 DEF Pipeline
    <3>3. \E q \in Pipeline("logs/entities", "logs",
                      (IF sharedLogsPipeline(v) THEN {"routing/logs"} ELSE {"otlp"}),
                      <<"memory_limiter", "batch">>, {"otlp_http/entities"}) : n \in q.receivers
      BY <3>1 DEF Pipeline
    <3> QED BY <3>1, <3>2, <3>3 DEF gatewayPipelines, gatewayLogsPipelines, gatewayO11yPipelines,
            When
  <2>6. ExtensionsStarted("gateway", v, c)
    BY <2>1, GatewayExtensions
  <2> HIDE DEF c
  <2> QED BY <1>1, <2>2, <2>4, <2>5, <2>6 DEF Loads, c
<1>3. ASSUME Unusable("gateway", v) PROVE ~Loads("gateway", v)
  <2>1. "secureApp" \in v /\ ~logsEnabled(v) /\ ~profilingEnabled(v)
    BY <1>3 DEF Unusable
  <2> DEFINE R == IF splunkO11yEnabled(v) THEN {"routing/logs"} ELSE {"otlp"}
             E == When(profilingEnabled(v), {"splunk_hec/o11y"}) \cup otlpOrHecPlatformLogs(v)
             logs == Pipeline("logs", "logs", R, gatewayLogsSteps(v), E)
  <2>2. \E p \in gatewayLogsPipelines(v) : p.exporters = {}
    <3>1. E = {}
      BY <2>1 DEF When, otlpOrHecPlatformLogs, logsEnabled
    <3>2. \E p \in logs : p.exporters = E
      BY DEF Pipeline
    <3>3. logs \subseteq gatewayLogsPipelines(v)
      BY DEF gatewayLogsPipelines
    <3> QED BY <3>1, <3>2, <3>3
  <2>3. gatewayLogsPipelines(v) \subseteq gatewayConfig(v).pipelines
    BY <2>1, GatewayFields DEF gatewayPipelines, sharedLogsPipeline, When
  <2> QED BY <1>1, <2>2, <2>3 DEF Loads, PipelinesComplete
<1> QED BY <1>2, <1>3

-----------------------------------------------------------------------------
(* The cluster receiver.                                                   *)

\* The sections of the cluster receiver's configuration.
LEMMA ClusterFields ==
  ASSUME NEW v
  PROVE  /\ clusterReceiverConfig(v).receivers = clusterReceiverReceivers(v)
         /\ clusterReceiverConfig(v).processors = clusterReceiverProcessors(v)
         /\ clusterReceiverConfig(v).exporters = clusterReceiverExporters(v)
         /\ clusterReceiverConfig(v).connectors = {}
         /\ clusterReceiverConfig(v).started = clusterReceiverStarted(v)
         /\ clusterReceiverConfig(v).extensions = clusterReceiverExtensions(v)
         /\ clusterReceiverConfig(v).pipelines = clusterReceiverPipelines(v)
  BY DEF clusterReceiverConfig

\* Every processor that the cluster receiver's pipelines list is defined under
\* the conditions under which the pipeline is rendered and lists it.
LEMMA ClusterSteps ==
  ASSUME NEW v
  PROVE  /\ clusterSteps(v) \in Seq(clusterReceiverProcessors(v))
         /\ clusterMetricsSteps(v) \in Seq(clusterReceiverProcessors(v))
         /\ clusterSteps(v) \o platformMetricsSteps(v) \in Seq(clusterReceiverProcessors(v))
         /\ ownMetricsSteps(v) \in Seq(clusterReceiverProcessors(v))
         /\ eventsPipelineEnabled(v) =>
              clusterEventsSteps(v) \in Seq(clusterReceiverProcessors(v))
         /\ objectsPipelineEnabled(v) =>
              clusterObjectsSteps(v) \in Seq(clusterReceiverProcessors(v))
         /\ "infraEvents" \in v =>
              clusterInfraEventsSteps(v) \in Seq(clusterReceiverProcessors(v))
<1> DEFINE S == clusterReceiverProcessors(v)
<1>1. {"memory_limiter", "batch", "resource_detection", "transform/k8shpascaletargetref",
       "resource", "resource/add_cluster_host", "resource/k8s_cluster"} \subseteq S
  BY DEF clusterReceiverProcessors
<1>2. /\ platformMetricsEnabled(v) => "k8s_attributes/metrics" \in S
      /\ platformMetricsEnabled(v) /\ "sourcetype" \in v => "resource/metrics" \in S
  BY DEF clusterReceiverProcessors, platformMetricsProcessors, When
<1>3. /\ autoDetectClusterName(v) => "resource_detection/k8s_cluster_name" \in S
      /\ "infraEvents" \in v => "resource/add_event_k8s" \in S
      /\ platformLogsViaOtlpEnabled(v) => "resource/otlp_platform_logs" \in S
  BY DEF clusterReceiverProcessors, When
<1>4. eventsPipelineEnabled(v) =>
        /\ {"transform/k8sevents", "attributes/drop_event_attrs"} \subseteq S
        /\ platformLogsViaOtlpEnabled(v) => "transform/add_events_sourcetype" \in S
  BY DEF clusterReceiverProcessors, When
<1>5. objectsPipelineEnabled(v) => "transform/add_sourcetype" \in S
  BY DEF clusterReceiverProcessors, When
<1>6. (eventsPipelineEnabled(v) \/ objectsPipelineEnabled(v)) /\ "environment" \in v =>
        "resource/add_environment" \in S
  BY DEF clusterReceiverProcessors, When, eventsPipelineEnabled, objectsPipelineEnabled,
     objectsOrEventsEnabled
<1> HIDE DEF S
<1>7. detectClusterName(v) \in Seq(S)
  BY <1>3, StepIn DEF detectClusterName
<1>8. platformMetricsSteps(v) \in Seq(S)
  BY <1>2, StepIn, ConcatIn DEF platformMetricsSteps
<1>9. Step(platformLogsViaOtlpEnabled(v), "resource/otlp_platform_logs") \in Seq(S)
  BY <1>3, StepIn
<1>10. clusterSteps(v) \in Seq(S)
  BY <1>1, <1>7, ConcatIn DEF clusterSteps
<1>11. clusterMetricsSteps(v) \in Seq(S)
  BY <1>1, <1>7, <1>8, ConcatIn DEF clusterMetricsSteps
<1>12. clusterSteps(v) \o platformMetricsSteps(v) \in Seq(S)
  BY <1>8, <1>10, ConcatIn
<1>13. ownMetricsSteps(v) \in Seq(S)
  BY <1>1, <1>2, StepIn, ConcatIn DEF ownMetricsSteps
<1>14. ASSUME eventsPipelineEnabled(v) PROVE clusterEventsSteps(v) \in Seq(S)
  <2>1. Step("environment" \in v, "resource/add_environment") \in Seq(S)
    BY <1>6, <1>14, StepIn
  <2>2. Step(platformLogsViaOtlpEnabled(v), "transform/add_events_sourcetype") \in Seq(S)
    BY <1>4, <1>14, StepIn
  <2>3. /\ <<"memory_limiter", "batch", "attributes/drop_event_attrs">> \in Seq(S)
        /\ <<"resource", "resource/add_cluster_host">> \in Seq(S)
        /\ <<"transform/k8sevents">> \in Seq(S)
    BY <1>1, <1>4, <1>14
  <2> QED BY <1>7, <1>9, <2>1, <2>2, <2>3, ConcatIn DEF clusterEventsSteps
<1>15. ASSUME objectsPipelineEnabled(v) PROVE clusterObjectsSteps(v) \in Seq(S)
  <2>1. Step("environment" \in v, "resource/add_environment") \in Seq(S)
    BY <1>6, <1>15, StepIn
  <2>2. <<"resource/add_cluster_host", "transform/add_sourcetype">> \in Seq(S)
    BY <1>1, <1>5, <1>15
  <2> QED BY <1>9, <1>10, <2>1, <2>2, ConcatIn DEF clusterObjectsSteps
<1>16. ASSUME "infraEvents" \in v PROVE clusterInfraEventsSteps(v) \in Seq(S)
  <2>1. Step("clusterName" \in v, "resource/add_event_k8s") \in Seq(S)
    BY <1>3, <1>16, StepIn
  <2> QED BY <1>1, <1>10, <2>1, ConcatIn DEF clusterInfraEventsSteps
<1> QED BY <1>10, <1>11, <1>12, <1>13, <1>14, <1>15, <1>16 DEF S

\* Every receiver and exporter that a pipeline of the cluster receiver lists
\* is defined, and each pipeline has both.
LEMMA ClusterPipelinesSound ==
  ASSUME NEW v, RealmGiven(v)
  PROVE  \A p \in clusterReceiverPipelines(v) : Sound(p, clusterReceiverConfig(v))
<1> DEFINE c == clusterReceiverConfig(v)
           Rs == clusterReceiverReceivers(v)
           Es == clusterReceiverExporters(v)
<1>1. c.receivers \cup c.connectors = Rs /\ c.exporters \cup c.connectors = Es
  BY ClusterFields
<1>2. c.processors = clusterReceiverProcessors(v)
  BY ClusterFields
<1>3. /\ {"prometheus/k8s_cluster_receiver", "k8s_cluster"} \subseteq Rs
      /\ objectsPipelineEnabled(v) => "k8s_objects" \in Rs
      /\ eventsPipelineEnabled(v) => "k8s_events" \in Rs
  BY DEF clusterReceiverReceivers, When
<1>4. /\ "infraEvents" \in v => "smartagent/kubernetes-events" \in Rs
      /\ isFargate(v) => "receiver_creator" \in Rs
      /\ apiServerMetricsEnabled(v) => "prometheus/kubernetes-apiserver" \in Rs
  BY DEF clusterReceiverReceivers, When
<1>5. /\ o11yMetricsEnabled(v) \/ "infraEvents" \in v => "signalfx" \in Es
      /\ splunkO11yEventsEndpointEnabled(v) => "otlp_http/o11y_events" \in Es
      /\ k8sEntitiesEnabled(v) => "otlp_http/o11y_entities" \in Es
  BY DEF clusterReceiverExporters, When
<1>6. /\ platformMetricsEnabled(v) => "splunk_hec/platform_metrics" \in Es
      /\ objectsOrEventsEnabled(v) => otlpOrHecPlatformLogs(v) \subseteq Es
      /\ apiServerMetricsEnabled(v) /\ o11yMetricsEnabled(v) => "signalfx/histograms" \in Es
  BY DEF clusterReceiverExporters, When
<1> HIDE DEF Rs, Es, c
<1>7. metricsEnabled(v) => \A p \in clusterMetricsPipelines(v) : Sound(p, c)
  <2> SUFFICES ASSUME metricsEnabled(v) PROVE \A p \in clusterMetricsPipelines(v) : Sound(p, c)
    OBVIOUS
  <2>1. clusterMetricsExporters(v) \subseteq Es
    BY <1>5, <1>6 DEF clusterMetricsExporters, When
  <2>2. clusterMetricsExporters(v) # {}
    BY DEF clusterMetricsExporters, When, metricsEnabled
  <2>3. \A p \in Pipeline("metrics", "metrics", {"k8s_cluster"}, clusterMetricsSteps(v),
                         clusterMetricsExporters(v)) : Sound(p, c)
    BY <1>1, <1>2, <1>3, <2>1, <2>2, ClusterSteps, SoundPipeline
  <2>4. ASSUME isFargate(v)
        PROVE  \A p \in Pipeline("metrics/eks", "metrics", {"receiver_creator"},
                  clusterSteps(v) \o platformMetricsSteps(v), clusterMetricsExporters(v)) :
                 Sound(p, c)
    BY <1>1, <1>2, <1>4, <2>1, <2>2, <2>4, ClusterSteps, SoundPipeline
  <2>5. \A p \in Pipeline("metrics/collector", "metrics", {"prometheus/k8s_cluster_receiver"},
                         ownMetricsSteps(v), clusterMetricsExporters(v)) : Sound(p, c)
    BY <1>1, <1>2, <1>3, <2>1, <2>2, ClusterSteps, SoundPipeline
  <2> QED BY <2>3, <2>4, <2>5 DEF clusterMetricsPipelines, When
<1>8. eventsPipelineEnabled(v) \/ objectsPipelineEnabled(v) =>
        clusterLogsExporters(v) \subseteq Es /\ clusterLogsExporters(v) # {}
  BY <1>5, <1>6 DEF clusterLogsExporters, otlpOrHecPlatformLogs, When, logsEnabled,
     eventsPipelineEnabled, objectsPipelineEnabled, objectsOrEventsEnabled
<1>9. eventsPipelineEnabled(v) => \A p \in clusterEventsPipeline(v) : Sound(p, c)
  BY <1>1, <1>2, <1>3, <1>8, ClusterSteps, SoundPipeline DEF clusterEventsPipeline
<1>10. objectsPipelineEnabled(v) => \A p \in clusterObjectsPipeline(v) : Sound(p, c)
  BY <1>1, <1>2, <1>3, <1>8, ClusterSteps, SoundPipeline DEF clusterObjectsPipeline
<1>11. "infraEvents" \in v => \A p \in clusterInfraEventsPipeline(v) : Sound(p, c)
  BY <1>1, <1>2, <1>4, <1>5, ClusterSteps, SoundPipeline DEF clusterInfraEventsPipeline
<1>12. apiServerMetricsEnabled(v) /\ o11yMetricsEnabled(v) =>
         \A p \in clusterHistogramsPipeline(v) : Sound(p, c)
  BY <1>1, <1>2, <1>4, <1>6, ClusterSteps, SoundPipeline DEF clusterHistogramsPipeline
<1>13. k8sEntitiesEnabled(v) \/ entityEventsForProperties(v) =>
         \A p \in clusterEntitiesPipeline(v) : Sound(p, c)
  <2> SUFFICES ASSUME k8sEntitiesEnabled(v) \/ entityEventsForProperties(v)
               PROVE  \A p \in clusterEntitiesPipeline(v) : Sound(p, c)
    OBVIOUS
  <2> DEFINE E == When("enableK8sEntities" \in v, {"otlp_http/o11y_entities"})
                  \cup When(entityEventsForProperties(v), {"signalfx"})
  <2>1. E \subseteq Es /\ E # {}
    BY <1>5 DEF When, k8sEntitiesEnabled, entityEventsForProperties, o11yMetricsEnabled
  <2> HIDE DEF E
  <2> QED BY <1>1, <1>2, <1>3, <2>1, ClusterSteps, SoundPipeline DEF clusterEntitiesPipeline, E
<1> QED BY <1>7, <1>9, <1>10, <1>11, <1>12, <1>13 DEF clusterReceiverPipelines, When, c

\* The extensions that the cluster receiver's components refer to are started.
LEMMA ClusterExtensions ==
  ASSUME NEW v, \A p \in clusterReceiverPipelines(v) : Sound(p, clusterReceiverConfig(v))
  PROVE  ExtensionsStarted("clusterReceiver", v, clusterReceiverConfig(v))
<1> DEFINE names == clusterReceiverReceivers(v) \cup clusterReceiverExporters(v)
<1>1. \A p \in clusterReceiverPipelines(v) : p.receivers \cup p.exporters \subseteq names
  BY ClusterFields DEF Sound
<1>2. clusterReceiverStarted(v) \subseteq clusterReceiverExtensions(v)
  BY DEF clusterReceiverStarted, clusterReceiverExtensions, opampExtension, When
<1>3. isFargate(v) => "k8s_observer" \in clusterReceiverStarted(v)
  BY DEF clusterReceiverStarted, When
<1>4. names \cap {"file_log", "extraFileLogs", "journald", "otlp_grpc", "otlp_http",
                  "otlp_http/entities"} = {}
  BY DEF clusterReceiverReceivers, clusterReceiverExporters, otlpOrHecPlatformLogs, When
<1>5. "receiver_creator" \in names => isFargate(v)
  BY DEF clusterReceiverReceivers, clusterReceiverExporters, otlpOrHecPlatformLogs, When
<1> HIDE DEF names
<1>6. ASSUME NEW u \in ExtensionUsed("clusterReceiver", v), u[1] \in names
      PROVE  u[2] \in clusterReceiverStarted(v)
  BY <1>3, <1>4, <1>5, <1>6 DEF ExtensionUsed, When
<1> QED BY <1>1, <1>2, <1>6, ClusterFields DEF ExtensionsStarted

\* The cluster receiver's configuration can be run unless it has no pipeline.
LEMMA ClusterLoads ==
  ASSUME NEW v, RealmGiven(v)
  PROVE  Loads("clusterReceiver", v) <=> ~Unusable("clusterReceiver", v)
<1> DEFINE c == clusterReceiverConfig(v)
<1>1. Config("clusterReceiver", v) = c
  BY DEF Config
<1>2. \A p \in clusterReceiverPipelines(v) : Sound(p, c)
  BY ClusterPipelinesSound
<1>3. ReferencesDefined(c) /\ ConnectorsUsed(c)
  BY <1>2, ClusterFields DEF ReferencesDefined, ConnectorsUsed, Sound
<1>4. ExtensionsStarted("clusterReceiver", v, c)
  BY <1>2, ClusterExtensions
<1>5. PipelinesComplete(c) <=> clusterReceiverPipelines(v) # {}
  BY <1>2, ClusterFields DEF PipelinesComplete, Sound
<1>6. Unusable("clusterReceiver", v) =>
        ~(o11yMetricsEnabled(v) \/ entityEventsForProperties(v))
  BY DEF Unusable, metricsEnabled, entityEventsForProperties
<1>7. clusterReceiverPipelines(v) # {} <=> ~Unusable("clusterReceiver", v)
  <2>1. ASSUME Unusable("clusterReceiver", v) PROVE clusterReceiverPipelines(v) = {}
    BY <1>6, <2>1 DEF clusterReceiverPipelines, Unusable, When
  <2>2. ASSUME ~Unusable("clusterReceiver", v) PROVE clusterReceiverPipelines(v) # {}
    BY <2>2 DEF clusterReceiverPipelines, Unusable, When, clusterMetricsPipelines,
       clusterEventsPipeline, clusterObjectsPipeline, clusterInfraEventsPipeline,
       clusterEntitiesPipeline, Pipeline
  <2> QED BY <2>1, <2>2
<1> HIDE DEF c
<1> QED BY <1>1, <1>3, <1>4, <1>5, <1>7 DEF Loads

-----------------------------------------------------------------------------
(* The specification.                                                      *)

\* Exactly the collectors of the unusable installations reject what is
\* rendered for them.
LEMMA LoadsUnlessUnusable ==
  ASSUME NEW v, Installable(v), RealmGiven(v), NEW w \in Collectors
  PROVE  Loads(w, v) <=> ~Unusable(w, v)
  BY AgentLoads, GatewayLoads, ClusterLoads DEF Collectors

\* A collector runs only if it is deployed and can run its configuration, and
\* is rejected only if it cannot.
IInv ==
  /\ Installable(values) /\ RealmGiven(values)
  /\ accepted = {w \in Deployed(values) : Loads(w, values)}
  /\ status \in [Collectors -> {"absent", "starting", "running", "rejected"}]
  /\ \A w \in Collectors :
       /\ status[w] = "absent" <=> w \notin Deployed(values)
       /\ status[w] = "running" => w \in accepted
       /\ status[w] = "rejected" => w \notin accepted

\* The initial states.
LEMMA IInvInit == Init => IInv
<1> SUFFICES ASSUME Init PROVE IInv
  OBVIOUS
<1> USE DEF Init
<1>1. Installable(values) /\ RealmGiven(values)
  OBVIOUS
<1>2. accepted = {w \in Deployed(values) : Loads(w, values)}
  OBVIOUS
<1>3. status \in [Collectors -> {"absent", "starting", "running", "rejected"}]
  OBVIOUS
<1>4. \A w \in Collectors :
        status[w] = IF w \in Deployed(values) THEN "starting" ELSE "absent"
  OBVIOUS
<1> QED BY <1>1, <1>2, <1>3, <1>4 DEF IInv

\* Only Start changes what the invariant is about.
LEMMA IInvNext == IInv /\ [Next]_vars => IInv'
<1> SUFFICES ASSUME IInv, [Next]_vars PROVE IInv'
  OBVIOUS
<1>1. ASSUME NEW w \in Collectors, Start(w) PROVE IInv'
  <2>1. values' = values /\ accepted' = accepted
    BY <1>1 DEF Start
  <2>2. status' \in [Collectors -> {"absent", "starting", "running", "rejected"}]
    BY <1>1 DEF Start, IInv
  <2>3. \A x \in Collectors : x # w => status'[x] = status[x]
    BY <1>1 DEF Start, IInv
  <2>4. /\ status[w] = "starting"
        /\ status'[w] = IF w \in accepted THEN "running" ELSE "rejected"
    BY <1>1 DEF Start, IInv
  <2>5. \A x \in Collectors :
          /\ status'[x] = "absent" <=> x \notin Deployed(values)
          /\ status'[x] = "running" => x \in accepted
          /\ status'[x] = "rejected" => x \notin accepted
    BY <2>3, <2>4 DEF IInv
  <2> QED BY <2>1, <2>2, <2>5 DEF IInv
<1>2. ASSUME UNCHANGED <<values, accepted, status>> PROVE IInv'
  BY <1>2 DEF IInv
<1>3. CASE Emit
  BY <1>2, <1>3 DEF Emit
<1>4. ASSUME NEW c \in copies, Pass(c) PROVE IInv'
  BY <1>2, <1>4 DEF Pass
<1>5. CASE UNCHANGED vars
  BY <1>2, <1>5 DEF vars
<1> QED BY <1>1, <1>3, <1>4, <1>5 DEF Next

\* The invariant holds throughout.
THEOREM Invariant == Spec => []IInv
  BY IInvInit, IInvNext, PTL DEF Spec

\* Whatever options are combined, a collector that the chart deploys accepts
\* the configuration that the templates render for it, except in the
\* installations that Unusable names, and there it never runs.
THEOREM ConfigurationsFit == Spec => []CollectorsStart
<1>1. IInv => CollectorsStart
  <2> SUFFICES ASSUME IInv, NEW w \in Collectors
               PROVE  /\ status[w] = "rejected" => Unusable(w, values)
                      /\ status[w] = "running" => ~Unusable(w, values)
    BY DEF CollectorsStart
  <2>1. Loads(w, values) <=> ~Unusable(w, values)
    BY LoadsUnlessUnusable DEF IInv
  <2>2. ASSUME status[w] = "rejected" PROVE w \in Deployed(values) /\ w \notin accepted
    BY <2>2 DEF IInv
  <2>3. ASSUME status[w] = "running" PROVE w \in accepted
    BY <2>3 DEF IInv
  <2>4. accepted = {x \in Deployed(values) : Loads(x, values)}
    BY DEF IInv
  <2> QED BY <2>1, <2>2, <2>3, <2>4
<1> QED BY <1>1, Invariant, PTL

\* Whatever options are combined, a collector that opens its OpAMP session to
\* the gateway finds a forwarder, and the port in the gateway's service unless
\* profiling or SecureApp is the only signal.
THEOREM OpampSessions == Spec => []OpampReachesGateway
<1>1. OpampReachesGateway
  <2> SUFFICES ASSUME NEW w \in OpensOpamp(values)
               PROVE  /\ "http_forwarder/opamp_splunk_o11y" \in gatewayStarted(values)
                      /\ 4320 \in gatewayServicePorts(values) <=>
                           metricsEnabled(values) \/ tracesEnabled(values) \/ logsEnabled(values)
    BY DEF OpampReachesGateway
  <2>1. directO11yOpampEnabled(values)
    BY DEF OpensOpamp, Collectors, agentStarted, gatewayStarted, clusterReceiverStarted, When
  <2>2. "http_forwarder/opamp_splunk_o11y" \in gatewayStarted(values)
    BY <2>1 DEF gatewayStarted, When
  <2>3. 4320 \in gatewayServicePorts(values) <=>
          metricsEnabled(values) \/ tracesEnabled(values) \/ logsEnabled(values)
    BY DEF gatewayServicePorts, When
  <2> QED BY <2>2, <2>3
<1> QED BY <1>1, PTL
-----------------------------------------------------------------------------
(* Where telemetry goes.                                                   *)

SourceIs(k, name, at, via, signal) ==
  /\ k = name /\ Sources[k][1] = at /\ Sources[k][2] = via /\ Sources[k][3] = signal

\* The kinds of telemetry, one by one.
LEMMA SourceCases ==
  ASSUME NEW k \in DOMAIN Sources
  PROVE  \/ SourceIs(k, "container_log", "agent", "file_log", "logs")
         \/ SourceIs(k, "file_log", "agent", "extraFileLogs", "logs")
         \/ SourceIs(k, "journald_log", "agent", "journald", "logs")
         \/ SourceIs(k, "otlp_log", "agent", "otlp", "logs")
         \/ SourceIs(k, "profile", "agent", "otlp", "logs")
         \/ SourceIs(k, "secureapp", "agent", "otlp", "logs")
         \/ SourceIs(k, "entity", "agent", "nop", "logs")
         \/ SourceIs(k, "trace", "agent", "otlp", "traces")
         \/ SourceIs(k, "host_metric", "agent", "host_metrics", "metrics")
         \/ SourceIs(k, "scraped_metric", "agent", "receiver_creator", "metrics")
         \/ SourceIs(k, "agent_metric", "agent", "prometheus/agent", "metrics")
         \/ SourceIs(k, "gateway_metric", "gateway", "prometheus/collector", "metrics")
         \/ SourceIs(k, "cluster_metric", "clusterReceiver", "k8s_cluster", "metrics")
         \/ SourceIs(k, "receiver_metric", "clusterReceiver", "prometheus/k8s_cluster_receiver", "metrics")
         \/ SourceIs(k, "fargate_metric", "clusterReceiver", "receiver_creator", "metrics")
         \/ SourceIs(k, "apiserver_metric", "clusterReceiver", "prometheus/kubernetes-apiserver", "metrics")
         \/ SourceIs(k, "k8s_event", "clusterReceiver", "k8s_events", "logs")
         \/ SourceIs(k, "k8s_object", "clusterReceiver", "k8s_objects", "logs")
         \/ SourceIs(k, "infra_event", "clusterReceiver", "smartagent/kubernetes-events", "logs")
         \/ SourceIs(k, "k8s_entity", "clusterReceiver", "k8s_cluster", "logs")
  BY DEF Sources, SourceIs

\* A pipeline, its processors aside.
Is(p, name, signal, R, E) ==
  p.name = name /\ p.signal = signal /\ p.receivers = R /\ p.exporters = E

\* The parts of a pipeline.
LEMMA PipelineIs ==
  ASSUME NEW name, NEW signal, NEW R, NEW P, NEW E
  PROVE  \A p \in Pipeline(name, signal, R, P, E) : Is(p, name, signal, R, E)
  BY DEF Pipeline, Is

\* The pipelines of the agent, and when they are rendered.
LEMMA AgentPipelineCases ==
  ASSUME NEW v, NEW p \in agentPipelines(v)
  PROVE
    \/ /\ "secureApp" \in v
       /\ \/ Is(p, "logs/secureapp", "logs", {"routing/logs"},
                toGatewayOr(v, {"otlp_http/secureapp"}))
          \/ Is(p, "logs/split", "logs", {"otlp"}, {"routing/logs"})
    \/ /\ logsEnabled(v) \/ profilingEnabled(v)
       /\ \/ Is(p, "logs", "logs", agentLogsReceivers(v),
                toGatewayOr(v, When(profilingEnabled(v), {"splunk_hec/o11y"})
                               \cup otlpOrHecPlatformLogs(v)))
          \/ Is(p, "logs/host", "logs", hostLogReceivers(v),
                toGatewayOr(v, otlpOrHecPlatformLogs(v)))
    \/ Is(p, "traces", "traces", {"otlp", "jaeger", "zipkin"},
          toGatewayOr(v, When(o11yTracesEnabled(v), {"otlp_http"})
                         \cup When(platformTracesEnabled(v), {"splunk_hec/platform_traces"})))
    \/ Is(p, "metrics", "metrics",
          {"host_metrics", "kubelet_stats", "otlp"}
            \cup When("useControlPlaneMetricsHistogramData" \notin v, {"receiver_creator"})
            \cup When("targetallocator" \in v, {"prometheus/ta"}),
          (IF "gateway" \in v
           THEN {"otlp_grpc"} \cup When(o11yMetricsEnabled(v), {"signalfx/host_metadata"})
           ELSE When(o11yMetricsEnabled(v), {"signalfx"})
                \cup When(platformMetricsEnabled(v), {"splunk_hec/platform_metrics"})))
    \/ Is(p, "metrics/agent", "metrics", {"prometheus/agent"},
          toGatewayOr(v, When(splunkO11yEnabled(v), {"signalfx"})
                         \cup When(platformMetricsEnabled(v), {"splunk_hec/platform_metrics"})))
    \/ /\ splunkO11yEnabled(v)
       /\ \/ Is(p, "logs/entities", "logs", {"nop"}, {"otlp_http/entities"})
          \/ /\ "useControlPlaneMetricsHistogramData" \in v
             /\ Is(p, "metrics/histograms", "metrics", {"receiver_creator"},
                   {"signalfx/histograms"})
  BY PipelineIs DEF agentPipelines, agentSecureAppPipelines, agentLogsPipeline,
     agentHostLogsPipeline, agentTracesPipeline, agentMetricsPipeline, agentOwnMetricsPipeline,
     agentO11yPipelines, When

Allowed(v, k) == Promised(v, k) \cup Leaks(v, k)

\* What the agent hands on to the gateway's otlp receiver, and what
\* applications send there.
AtGateway(v, k) ==
  \/ k \in {"trace", "host_metric", "scraped_metric", "agent_metric"}
  \/ k = "container_log" /\ logsEnabled(v) /\ "containers" \in v
  \/ k = "file_log" /\ sharedLogsPipeline(v) /\ "extraFileLogs" \in v
  \/ k = "journald_log" /\ sharedLogsPipeline(v) /\ "journald" \in v
  \/ k = "entity" /\ splunkO11yEnabled(v)
  \/ /\ k \in {"otlp_log", "profile", "secureapp"}
     /\ sharedLogsPipeline(v) \/ EntryCollector(v, k) = "gateway"

\* Where a copy may be on its way, and through which receiver.
Course(v, k, at, via) ==
  \/ at = "nowhere"
  \/ at = "gateway" /\ via = "forwarder" /\ "o11y ingest" \in Allowed(v, k)
  \/ at = EntryCollector(v, k) /\ via = Sources[k][2]
  \/ at = "agent" /\ via = "routing/logs" /\ k \in {"otlp_log", "profile", "secureapp"}
  \/ at = "gateway" /\ via \in {"otlp", "routing/logs"} /\ AtGateway(v, k)

\* What an exporter may do with a copy at w.
Leads(v, k, w, e) ==
  \/ e = "routing/logs" /\ Course(v, k, w, e)
  \/ e \in ToGateway(w, v) /\ e \in {"otlp_grpc", "otlp_http/entities"} /\ AtGateway(v, k)
  \/ /\ e \in ToGateway(w, v) /\ e \in {"signalfx", "signalfx/histograms"}
     /\ "o11y ingest" \in Allowed(v, k)
  \/ e \notin ToGateway(w, v) /\ e # "routing/logs" /\ Backend(e) \in Allowed(v, k)

\* The backends that may have a kind of telemetry.
LEMMA AllowedBackends ==
  ASSUME NEW v, NEW k
  PROVE  /\ k = "container_log" /\ logsEnabled(v) /\ "containers" \in v =>
              "platform logs" \in Allowed(v, k)
         /\ k = "file_log" /\ logsEnabled(v) /\ "extraFileLogs" \in v =>
              "platform logs" \in Allowed(v, k)
         /\ k = "journald_log" /\ logsEnabled(v) /\ "journald" \in v =>
              "platform logs" \in Allowed(v, k)
         /\ k = "otlp_log" /\ logsEnabled(v) => "platform logs" \in Allowed(v, k)
         /\ k = "profile" /\ profilingEnabled(v) => "o11y profiling" \in Allowed(v, k)
         /\ k = "profile" /\ platformLogsViaOtlpEnabled(v) => "platform logs" \in Allowed(v, k)
         /\ k \in {"secureapp", "entity"} /\ splunkO11yEnabled(v) =>
              "o11y events" \in Allowed(v, k)
         /\ k = "trace" /\ o11yTracesEnabled(v) => "o11y traces" \in Allowed(v, k)
         /\ k = "trace" /\ platformTracesEnabled(v) => "platform traces" \in Allowed(v, k)
         /\ k = "apiserver_metric" /\ o11yMetricsEnabled(v) /\ apiServerMetricsEnabled(v) =>
              "o11y ingest" \in Allowed(v, k)
         /\ k = "fargate_metric" /\ isFargate(v) => metricsBackends(v) \subseteq Allowed(v, k)
         /\ k = "k8s_event" /\ "events" \in v => clusterLogsBackends(v) \subseteq Allowed(v, k)
         /\ k = "k8s_object" /\ "k8sObjects" \in v => clusterLogsBackends(v) \subseteq Allowed(v, k)
         /\ k = "infra_event" /\ "infraEvents" \in v /\ splunkO11yEnabled(v) =>
              "o11y ingest" \in Allowed(v, k)
         /\ k = "k8s_entity" /\ k8sEntitiesEnabled(v) => "o11y events" \in Allowed(v, k)
         /\ k = "k8s_entity" /\ entityEventsForProperties(v) => "o11y ingest" \in Allowed(v, k)
         /\ k \in {"host_metric", "scraped_metric", "cluster_metric"} \cup OwnMetrics =>
              metricsBackends(v) \subseteq Allowed(v, k)
         /\ k \in OwnMetrics /\ splunkO11yEnabled(v) => "o11y ingest" \in Allowed(v, k)
         /\ k = "scraped_metric" /\ splunkO11yEnabled(v)
            /\ "useControlPlaneMetricsHistogramData" \in v => "o11y ingest" \in Allowed(v, k)
<1>1. /\ k = "container_log" /\ logsEnabled(v) /\ "containers" \in v =>
           "platform logs" \in Allowed(v, k)
      /\ k = "file_log" /\ logsEnabled(v) /\ "extraFileLogs" \in v =>
           "platform logs" \in Allowed(v, k)
      /\ k = "journald_log" /\ logsEnabled(v) /\ "journald" \in v =>
           "platform logs" \in Allowed(v, k)
      /\ k = "otlp_log" /\ logsEnabled(v) => "platform logs" \in Allowed(v, k)
      /\ k = "profile" /\ profilingEnabled(v) => "o11y profiling" \in Allowed(v, k)
  BY DEF Allowed, Promised, When
<1>2. /\ k \in {"secureapp", "entity"} /\ splunkO11yEnabled(v) =>
           "o11y events" \in Allowed(v, k)
      /\ k = "trace" /\ o11yTracesEnabled(v) => "o11y traces" \in Allowed(v, k)
      /\ k = "trace" /\ platformTracesEnabled(v) => "platform traces" \in Allowed(v, k)
  BY DEF Allowed, Promised, When
<1>3. /\ k = "apiserver_metric" /\ o11yMetricsEnabled(v) /\ apiServerMetricsEnabled(v) =>
           "o11y ingest" \in Allowed(v, k)
      /\ k = "fargate_metric" /\ isFargate(v) => metricsBackends(v) \subseteq Allowed(v, k)
      /\ k = "k8s_event" /\ "events" \in v => clusterLogsBackends(v) \subseteq Allowed(v, k)
      /\ k = "k8s_object" /\ "k8sObjects" \in v => clusterLogsBackends(v) \subseteq Allowed(v, k)
  BY DEF Allowed, Promised, When
<1>4. /\ k = "infra_event" /\ "infraEvents" \in v /\ splunkO11yEnabled(v) =>
           "o11y ingest" \in Allowed(v, k)
      /\ k = "k8s_entity" /\ k8sEntitiesEnabled(v) => "o11y events" \in Allowed(v, k)
      /\ k = "k8s_entity" /\ entityEventsForProperties(v) => "o11y ingest" \in Allowed(v, k)
  BY DEF Allowed, Promised, When
<1>5. k \in {"host_metric", "scraped_metric", "cluster_metric"} \cup OwnMetrics =>
        metricsBackends(v) \subseteq Allowed(v, k)
  BY DEF Allowed, Promised, When, OwnMetrics
<1>6. /\ k \in OwnMetrics /\ splunkO11yEnabled(v) => "o11y ingest" \in Allowed(v, k)
      /\ k = "scraped_metric" /\ splunkO11yEnabled(v)
         /\ "useControlPlaneMetricsHistogramData" \in v => "o11y ingest" \in Allowed(v, k)
      /\ k = "profile" /\ platformLogsViaOtlpEnabled(v) => "platform logs" \in Allowed(v, k)
  BY DEF Allowed, Leaks, When
<1> QED BY <1>1, <1>2, <1>3, <1>4, <1>5, <1>6

\* The backend of a platform logs exporter, and what it does not take.
LEMMA PlatformLogs ==
  ASSUME NEW v, NEW k, NEW e \in otlpOrHecPlatformLogs(v), ~Excludes(e, k)
  PROVE  /\ Backend(e) = "platform logs" /\ logsEnabled(v)
         /\ k = "profile" => platformLogsViaOtlpEnabled(v)
         /\ e \notin {"routing/logs", "otlp_grpc", "otlp_http/entities", "signalfx",
                     "signalfx/histograms"}
  BY DEF otlpOrHecPlatformLogs, When, Backend, Excludes, logsEnabled

\* The agent sends a copy on its course to the gateway, or to a backend that
\* may have it.
LEMMA AgentLeads ==
  ASSUME NEW v, RealmGiven(v), NEW k \in DOMAIN Sources, k \in Produced(v),
         NEW via, Course(v, k, "agent", via),
         NEW p \in agentPipelines(v), p.signal = Sources[k][3], via \in p.receivers,
         via = "routing/logs" => p.name \in agentRoutes(v, k),
         NEW e \in p.exporters, ~Excludes(e, k)
  PROVE  Leads(v, k, "agent", e)
<1> USE DEF Is
<1>1. \/ EntryCollector(v, k) = "agent" /\ Sources[k][1] = "agent" /\ via = Sources[k][2]
      \/ via = "routing/logs" /\ k \in {"otlp_log", "profile", "secureapp"}
  BY DEF Course, EntryCollector
<1>2. k = "secureapp" => "secureApp" \in v /\ splunkO11yEnabled(v)
  BY DEF Produced, RealmGiven
<1>3. CASE Is(p, "logs/secureapp", "logs", {"routing/logs"},
              toGatewayOr(v, {"otlp_http/secureapp"}))
  <2>1. via = "routing/logs" /\ k = "secureapp"
    BY <1>1, <1>3, SourceCases DEF agentRoutes, When, SourceIs
  <2>2. CASE "gateway" \in v
    BY <1>2, <1>3, <2>1, <2>2 DEF Leads, ToGateway, When, toGatewayOr, AtGateway, sharedLogsPipeline
  <2>3. CASE "gateway" \notin v
    <3>1. e = "otlp_http/secureapp" /\ e \notin ToGateway("agent", v)
      BY <1>3, <2>3 DEF toGatewayOr, ToGateway, When
    <3>2. "o11y events" \in Allowed(v, k)
      BY <1>2, <2>1 DEF Allowed, Promised, When
    <3> QED BY <3>1, <3>2 DEF Leads, Backend
  <2> QED BY <2>2, <2>3
<1>4. CASE Is(p, "logs/split", "logs", {"otlp"}, {"routing/logs"})
  <2>1. k \in {"otlp_log", "profile", "secureapp"}
    BY <1>1, <1>4, SourceCases DEF SourceIs
  <2> QED BY <1>4, <2>1 DEF Leads, Course
<1>5. CASE /\ logsEnabled(v) \/ profilingEnabled(v)
           /\ Is(p, "logs", "logs", agentLogsReceivers(v),
                 toGatewayOr(v, When(profilingEnabled(v), {"splunk_hec/o11y"})
                                \cup otlpOrHecPlatformLogs(v)))
  <2>1. \/ k = "container_log" /\ logsEnabled(v) /\ "containers" \in v
        \/ k \in {"otlp_log", "profile"}
        \/ k = "secureapp"
    BY <1>1, <1>5, SourceCases DEF agentLogsReceivers, When, SourceIs
  <2>2. k # "secureapp"
    BY <1>1, <1>2, <1>5, SourceCases DEF agentLogsReceivers, agentRoutes, When, SourceIs
  <2>3. CASE "gateway" \in v
    BY <1>5, <2>1, <2>3 DEF Leads, ToGateway, When, toGatewayOr, AtGateway, sharedLogsPipeline
  <2>4. CASE "gateway" \notin v /\ e = "splunk_hec/o11y"
    <3>1. k = "profile" /\ profilingEnabled(v)
      BY <1>5, <2>4 DEF toGatewayOr, When, Excludes, otlpOrHecPlatformLogs
    <3> QED BY <2>4, <3>1, AllowedBackends DEF Leads, Backend, ToGateway, When
  <2>5. CASE "gateway" \notin v /\ e \in otlpOrHecPlatformLogs(v)
    <3>1. "platform logs" \in Allowed(v, k)
      BY <2>1, <2>2, <2>5, PlatformLogs, AllowedBackends
    <3> QED BY <2>5, <3>1, PlatformLogs DEF Leads, ToGateway, When
  <2> QED BY <1>5, <2>3, <2>4, <2>5 DEF toGatewayOr, When
<1>6. CASE /\ logsEnabled(v) \/ profilingEnabled(v)
           /\ Is(p, "logs/host", "logs", hostLogReceivers(v),
                 toGatewayOr(v, otlpOrHecPlatformLogs(v)))
  <2>1. \/ k = "file_log" /\ "extraFileLogs" \in v
        \/ k = "journald_log" /\ "journald" \in v
    BY <1>1, <1>6, SourceCases DEF hostLogReceivers, When, SourceIs
  <2>2. CASE "gateway" \in v
    BY <1>6, <2>1, <2>2 DEF Leads, ToGateway, When, toGatewayOr, AtGateway, sharedLogsPipeline
  <2>3. CASE "gateway" \notin v
    <3>1. e \in otlpOrHecPlatformLogs(v)
      BY <1>6, <2>3 DEF toGatewayOr
    <3>2. "platform logs" \in Allowed(v, k)
      BY <2>1, <3>1, PlatformLogs, AllowedBackends
    <3> QED BY <2>3, <3>1, <3>2, PlatformLogs DEF Leads, ToGateway, When
  <2> QED BY <2>2, <2>3
<1>7. CASE Is(p, "traces", "traces", {"otlp", "jaeger", "zipkin"},
              toGatewayOr(v, When(o11yTracesEnabled(v), {"otlp_http"})
                             \cup When(platformTracesEnabled(v), {"splunk_hec/platform_traces"})))
  <2>1. k = "trace"
    BY <1>1, <1>7, SourceCases DEF SourceIs
  <2>2. CASE "gateway" \in v
    BY <1>7, <2>1, <2>2 DEF Leads, ToGateway, When, toGatewayOr, AtGateway
  <2>3. CASE "gateway" \notin v
    BY <1>7, <2>1, <2>3, AllowedBackends DEF Leads, ToGateway, When, toGatewayOr, Backend
  <2> QED BY <2>2, <2>3
<1>8. CASE Is(p, "metrics", "metrics",
              {"host_metrics", "kubelet_stats", "otlp"}
                \cup When("useControlPlaneMetricsHistogramData" \notin v, {"receiver_creator"})
                \cup When("targetallocator" \in v, {"prometheus/ta"}),
              (IF "gateway" \in v
               THEN {"otlp_grpc"} \cup When(o11yMetricsEnabled(v), {"signalfx/host_metadata"})
               ELSE When(o11yMetricsEnabled(v), {"signalfx"})
                    \cup When(platformMetricsEnabled(v), {"splunk_hec/platform_metrics"})))
  <2>1. k \in {"host_metric", "scraped_metric"}
    BY <1>1, <1>8, SourceCases DEF SourceIs, When
  <2>2. CASE "gateway" \in v
    <3>1. e = "otlp_grpc"
      BY <1>8, <2>2 DEF When, Excludes
    <3> QED BY <2>1, <2>2, <3>1 DEF Leads, ToGateway, When, AtGateway
  <2>3. CASE "gateway" \notin v
    BY <1>8, <2>1, <2>3, AllowedBackends DEF Leads, ToGateway, When, Backend, metricsBackends
  <2> QED BY <2>2, <2>3
<1>9. CASE Is(p, "metrics/agent", "metrics", {"prometheus/agent"},
              toGatewayOr(v, When(splunkO11yEnabled(v), {"signalfx"})
                             \cup When(platformMetricsEnabled(v), {"splunk_hec/platform_metrics"})))
  <2>1. k = "agent_metric"
    BY <1>1, <1>9, SourceCases DEF SourceIs
  <2>2. CASE "gateway" \in v
    BY <1>9, <2>1, <2>2 DEF Leads, ToGateway, When, toGatewayOr, AtGateway
  <2>3. CASE "gateway" \notin v
    BY <1>9, <2>1, <2>3, AllowedBackends
       DEF Leads, ToGateway, When, toGatewayOr, Backend, metricsBackends, OwnMetrics
  <2> QED BY <2>2, <2>3
<1>10. CASE splunkO11yEnabled(v) /\ Is(p, "logs/entities", "logs", {"nop"}, {"otlp_http/entities"})
  <2>1. k = "entity"
    BY <1>1, <1>10, SourceCases DEF SourceIs
  <2> QED BY <1>10, <2>1, AllowedBackends DEF Leads, ToGateway, When, AtGateway, Backend
<1>11. CASE /\ splunkO11yEnabled(v) /\ "useControlPlaneMetricsHistogramData" \in v
            /\ Is(p, "metrics/histograms", "metrics", {"receiver_creator"},
                  {"signalfx/histograms"})
  <2>1. k = "scraped_metric"
    BY <1>1, <1>11, SourceCases DEF SourceIs
  <2> QED BY <1>11, <2>1, AllowedBackends DEF Leads, Backend
<1> HIDE DEF Is
<1> QED BY <1>3, <1>4, <1>5, <1>6, <1>7, <1>8, <1>9, <1>10, <1>11, AgentPipelineCases

\* The pipelines of the gateway, and when they are rendered.
LEMMA GatewayPipelineCases ==
  ASSUME NEW v, NEW p \in gatewayPipelines(v)
  PROVE
    \/ Is(p, "traces", "traces", {"otlp", "jaeger", "zipkin"},
          When(o11yTracesEnabled(v), {"otlp_http"})
            \cup When(platformTracesEnabled(v), {"splunk_hec/platform_traces"}))
    \/ Is(p, "metrics", "metrics", {"otlp"},
          When(o11yMetricsEnabled(v), {"signalfx"})
            \cup When(platformMetricsEnabled(v), {"splunk_hec/platform_metrics"}))
    \/ /\ splunkO11yEnabled(v)
       /\ \/ Is(p, "logs/entities", "logs",
                (IF sharedLogsPipeline(v) THEN {"routing/logs"} ELSE {"otlp"}),
                {"otlp_http/entities"})
          \/ Is(p, "logs/secureapp", "logs", {"routing/logs"}, {"otlp_http/secureapp"})
    \/ /\ sharedLogsPipeline(v)
       /\ \/ splunkO11yEnabled(v) /\ Is(p, "logs/split", "logs", {"otlp"}, {"routing/logs"})
          \/ Is(p, "logs", "logs", (IF splunkO11yEnabled(v) THEN {"routing/logs"} ELSE {"otlp"}),
                When(profilingEnabled(v), {"splunk_hec/o11y"}) \cup otlpOrHecPlatformLogs(v))
    \/ Is(p, "metrics/collector", "metrics", {"prometheus/collector"},
          When(splunkO11yEnabled(v), {"signalfx"})
            \cup When(platformMetricsEnabled(v), {"splunk_hec/platform_metrics"}))
  BY PipelineIs DEF gatewayPipelines, gatewayTracesPipeline, gatewayMetricsPipeline,
     gatewayO11yPipelines, gatewayLogsPipelines, gatewayOwnMetricsPipeline, When

\* The gateway sends a copy on its course to a backend that may have it.
LEMMA GatewayLeads ==
  ASSUME NEW v, RealmGiven(v), NEW k \in DOMAIN Sources, k \in Produced(v),
         NEW via, Course(v, k, "gateway", via), via # "forwarder",
         NEW p \in gatewayPipelines(v), p.signal = Sources[k][3], via \in p.receivers,
         via = "routing/logs" => p.name \in gatewayRoutes(v, k),
         NEW e \in p.exporters, ~Excludes(e, k)
  PROVE  Leads(v, k, "gateway", e)
<1> USE DEF Is
<1>1. \/ k = "gateway_metric" /\ via = "prometheus/collector"
      \/ via \in {"otlp", "routing/logs"} /\ AtGateway(v, k)
  <2>1. CASE EntryCollector(v, k) = "gateway" /\ via = Sources[k][2]
    BY <2>1, SourceCases DEF SourceIs, EntryCollector, FromApplications, AtGateway
  <2>2. CASE via \in {"otlp", "routing/logs"} /\ AtGateway(v, k)
    BY <2>2
  <2> QED BY <2>1, <2>2 DEF Course
<1>2. k = "secureapp" => "secureApp" \in v /\ splunkO11yEnabled(v)
  BY DEF Produced, RealmGiven
<1>3. ToGateway("gateway", v) = {}
  BY DEF ToGateway, When
<1>4. CASE Is(p, "traces", "traces", {"otlp", "jaeger", "zipkin"},
              When(o11yTracesEnabled(v), {"otlp_http"})
                \cup When(platformTracesEnabled(v), {"splunk_hec/platform_traces"}))
  <2>1. k = "trace"
    BY <1>4, SourceCases DEF SourceIs
  <2> QED BY <1>3, <1>4, <2>1, AllowedBackends DEF Leads, When, Backend
<1>5. CASE Is(p, "metrics", "metrics", {"otlp"},
              When(o11yMetricsEnabled(v), {"signalfx"})
                \cup When(platformMetricsEnabled(v), {"splunk_hec/platform_metrics"}))
  <2>1. k \in {"host_metric", "scraped_metric", "agent_metric"}
    BY <1>1, <1>5, SourceCases DEF SourceIs, AtGateway
  <2> QED BY <1>3, <1>5, <2>1, AllowedBackends DEF Leads, When, Backend, metricsBackends, OwnMetrics
<1>6. CASE /\ splunkO11yEnabled(v)
           /\ Is(p, "logs/entities", "logs",
                 (IF sharedLogsPipeline(v) THEN {"routing/logs"} ELSE {"otlp"}),
                 {"otlp_http/entities"})
  <2>1. "o11y events" \in Allowed(v, k)
    <3>1. CASE sharedLogsPipeline(v)
      <4>1. k = "entity"
        BY <1>6, <3>1 DEF gatewayRoutes
      <4> QED BY <1>6, <4>1, AllowedBackends
    <3>2. CASE ~sharedLogsPipeline(v)
      <4>1. \/ k = "entity"
            \/ k \in {"otlp_log", "profile", "secureapp"} /\ EntryCollector(v, k) = "gateway"
        BY <1>1, <1>6, <3>2, SourceCases DEF SourceIs, AtGateway, sharedLogsPipeline
      <4>2. ASSUME k \in {"otlp_log", "profile", "secureapp"}, EntryCollector(v, k) = "gateway"
            PROVE  "o11y events" \in Leaks(v, k)
        BY <1>6, <3>2, <4>2 DEF Leaks, When, FromApplications
      <4> QED BY <1>6, <4>1, <4>2, AllowedBackends DEF Allowed
    <3> QED BY <3>1, <3>2
  <2> QED BY <1>3, <1>6, <2>1 DEF Leads, Backend
<1>7. CASE splunkO11yEnabled(v)
           /\ Is(p, "logs/secureapp", "logs", {"routing/logs"}, {"otlp_http/secureapp"})
  <2>1. k = "secureapp"
    BY <1>7 DEF gatewayRoutes
  <2> QED BY <1>3, <1>7, <2>1, AllowedBackends DEF Leads, Backend
<1>8. CASE Is(p, "logs/split", "logs", {"otlp"}, {"routing/logs"})
  BY <1>1, <1>8 DEF Leads, Course
<1>9. CASE Is(p, "logs", "logs", (IF splunkO11yEnabled(v) THEN {"routing/logs"} ELSE {"otlp"}),
              When(profilingEnabled(v), {"splunk_hec/o11y"}) \cup otlpOrHecPlatformLogs(v))
  <2>1. AtGateway(v, k) /\ k \notin {"entity", "secureapp"}
    BY <1>1, <1>2, <1>9 DEF gatewayRoutes, AtGateway
  <2>2. \/ k = "container_log" /\ "containers" \in v
        \/ k = "file_log" /\ "extraFileLogs" \in v
        \/ k = "journald_log" /\ "journald" \in v
        \/ k \in {"otlp_log", "profile"}
    BY <1>9, <2>1, SourceCases DEF SourceIs, AtGateway
  <2>3. CASE e = "splunk_hec/o11y"
    <3>1. k = "profile" /\ profilingEnabled(v)
      BY <1>9, <2>3 DEF When, Excludes, otlpOrHecPlatformLogs
    <3> QED BY <1>3, <2>3, <3>1, AllowedBackends DEF Leads, Backend
  <2>4. CASE e \in otlpOrHecPlatformLogs(v)
    <3>1. "platform logs" \in Allowed(v, k)
      BY <2>2, <2>4, PlatformLogs, AllowedBackends
    <3> QED BY <1>3, <2>4, <3>1, PlatformLogs DEF Leads
  <2> QED BY <1>9, <2>3, <2>4 DEF When
<1>10. CASE Is(p, "metrics/collector", "metrics", {"prometheus/collector"},
               When(splunkO11yEnabled(v), {"signalfx"})
                 \cup When(platformMetricsEnabled(v), {"splunk_hec/platform_metrics"}))
  <2>1. k = "gateway_metric"
    BY <1>1, <1>10
  <2> QED BY <1>3, <1>10, <2>1, AllowedBackends
          DEF Leads, When, Backend, metricsBackends, OwnMetrics
<1> HIDE DEF Is
<1> QED BY <1>4, <1>5, <1>6, <1>7, <1>8, <1>9, <1>10, GatewayPipelineCases

\* The pipelines of the cluster receiver, and when they are rendered.
LEMMA ClusterPipelineCases ==
  ASSUME NEW v, NEW p \in clusterReceiverPipelines(v)
  PROVE
    \/ Is(p, "metrics", "metrics", {"k8s_cluster"}, clusterMetricsExporters(v))
    \/ /\ isFargate(v)
       /\ Is(p, "metrics/eks", "metrics", {"receiver_creator"}, clusterMetricsExporters(v))
    \/ Is(p, "metrics/collector", "metrics", {"prometheus/k8s_cluster_receiver"},
          clusterMetricsExporters(v))
    \/ /\ eventsPipelineEnabled(v)
       /\ Is(p, "logs", "logs", {"k8s_events"}, clusterLogsExporters(v))
    \/ /\ objectsPipelineEnabled(v)
       /\ Is(p, "logs/objects", "logs", {"k8s_objects"}, clusterLogsExporters(v))
    \/ /\ "infraEvents" \in v
       /\ Is(p, "logs/events", "logs", {"smartagent/kubernetes-events"}, {"signalfx"})
    \/ /\ apiServerMetricsEnabled(v) /\ o11yMetricsEnabled(v)
       /\ Is(p, "metrics/histograms", "metrics", {"prometheus/kubernetes-apiserver"},
             {"signalfx/histograms"})
    \/ /\ k8sEntitiesEnabled(v) \/ entityEventsForProperties(v)
       /\ Is(p, "logs/k8s_entities", "logs", {"k8s_cluster"},
             When("enableK8sEntities" \in v, {"otlp_http/o11y_entities"})
               \cup When(entityEventsForProperties(v), {"signalfx"}))
  BY PipelineIs DEF clusterReceiverPipelines, clusterMetricsPipelines, clusterEventsPipeline,
     clusterObjectsPipeline, clusterInfraEventsPipeline, clusterHistogramsPipeline,
     clusterEntitiesPipeline, When

\* The cluster receiver sends what it collects to a backend that may have it.
LEMMA ClusterLeads ==
  ASSUME NEW v, RealmGiven(v), NEW k \in DOMAIN Sources,
         NEW via, Course(v, k, "clusterReceiver", via),
         NEW p \in clusterReceiverPipelines(v), p.signal = Sources[k][3], via \in p.receivers,
         NEW e \in p.exporters
  PROVE  Leads(v, k, "clusterReceiver", e)
<1> USE DEF Is
<1>1. Sources[k][1] = "clusterReceiver" /\ via = Sources[k][2]
  BY DEF Course, EntryCollector
<1>2. ToGateway("clusterReceiver", v) = {}
  BY DEF ToGateway, When
<1>3. CASE Is(p, "metrics", "metrics", {"k8s_cluster"}, clusterMetricsExporters(v))
  <2>1. k = "cluster_metric"
    BY <1>1, <1>3, SourceCases DEF SourceIs
  <2> QED BY <1>2, <1>3, <2>1, AllowedBackends
          DEF Leads, When, Backend, metricsBackends, clusterMetricsExporters
<1>4. CASE isFargate(v)
           /\ Is(p, "metrics/eks", "metrics", {"receiver_creator"}, clusterMetricsExporters(v))
  <2>1. k = "fargate_metric"
    BY <1>1, <1>4, SourceCases DEF SourceIs
  <2> QED BY <1>2, <1>4, <2>1, AllowedBackends
          DEF Leads, When, Backend, metricsBackends, clusterMetricsExporters
<1>5. CASE Is(p, "metrics/collector", "metrics", {"prometheus/k8s_cluster_receiver"},
              clusterMetricsExporters(v))
  <2>1. k = "receiver_metric"
    BY <1>1, <1>5, SourceCases DEF SourceIs
  <2> QED BY <1>2, <1>5, <2>1, AllowedBackends
          DEF Leads, When, Backend, metricsBackends, clusterMetricsExporters, OwnMetrics
<1>6. ASSUME e \in clusterLogsExporters(v)
      PROVE  /\ e \notin ToGateway("clusterReceiver", v) /\ e # "routing/logs"
             /\ Backend(e) \in clusterLogsBackends(v)
  BY <1>2, <1>6 DEF clusterLogsExporters, clusterLogsBackends, otlpOrHecPlatformLogs, When,
     Backend, logsEnabled
<1>7. CASE eventsPipelineEnabled(v)
           /\ Is(p, "logs", "logs", {"k8s_events"}, clusterLogsExporters(v))
  <2>1. k = "k8s_event" /\ "events" \in v
    BY <1>1, <1>7, SourceCases DEF SourceIs, eventsPipelineEnabled
  <2> QED BY <1>6, <1>7, <2>1, AllowedBackends DEF Leads
<1>8. CASE objectsPipelineEnabled(v)
           /\ Is(p, "logs/objects", "logs", {"k8s_objects"}, clusterLogsExporters(v))
  <2>1. k = "k8s_object" /\ "k8sObjects" \in v
    BY <1>1, <1>8, SourceCases DEF SourceIs, objectsPipelineEnabled
  <2> QED BY <1>6, <1>8, <2>1, AllowedBackends DEF Leads
<1>9. CASE "infraEvents" \in v
           /\ Is(p, "logs/events", "logs", {"smartagent/kubernetes-events"}, {"signalfx"})
  <2>1. k = "infra_event" /\ splunkO11yEnabled(v)
    BY <1>1, <1>9, SourceCases DEF SourceIs, RealmGiven
  <2> QED BY <1>2, <1>9, <2>1, AllowedBackends DEF Leads, Backend
<1>10. CASE apiServerMetricsEnabled(v) /\ o11yMetricsEnabled(v)
            /\ Is(p, "metrics/histograms", "metrics", {"prometheus/kubernetes-apiserver"},
                  {"signalfx/histograms"})
  <2>1. k = "apiserver_metric"
    BY <1>1, <1>10, SourceCases DEF SourceIs
  <2> QED BY <1>2, <1>10, <2>1, AllowedBackends DEF Leads, Backend
<1>11. CASE (k8sEntitiesEnabled(v) \/ entityEventsForProperties(v))
            /\ Is(p, "logs/k8s_entities", "logs", {"k8s_cluster"},
                  When("enableK8sEntities" \in v, {"otlp_http/o11y_entities"})
                    \cup When(entityEventsForProperties(v), {"signalfx"}))
  <2>1. k = "k8s_entity"
    BY <1>1, <1>11, SourceCases DEF SourceIs
  <2>2. "enableK8sEntities" \in v => k8sEntitiesEnabled(v)
    BY <1>11 DEF k8sEntitiesEnabled, entityEventsForProperties, o11yMetricsEnabled
  <2> QED BY <1>2, <1>11, <2>1, <2>2, AllowedBackends DEF Leads, When, Backend
<1> HIDE DEF Is
<1> QED BY <1>3, <1>4, <1>5, <1>7, <1>8, <1>9, <1>10, <1>11, ClusterPipelineCases

\* No backend is taken for a collector.
LEMMA AllowedApart ==
  ASSUME NEW v, NEW k, NEW b \in Allowed(v, k)
  PROVE  b \notin Collectors \cup {"nowhere"}
<1> DEFINE B == {"o11y ingest", "o11y events", "o11y traces", "o11y profiling", "platform logs",
                 "platform metrics", "platform traces"}
<1>1. Leaks(v, k) \subseteq B
  BY DEF Leaks, When
<1>2. metricsBackends(v) \subseteq B /\ clusterLogsBackends(v) \subseteq B
  BY DEF metricsBackends, clusterLogsBackends, When
<1>3. Promised(v, k) \subseteq B
  BY <1>2 DEF Promised, When
<1> QED BY <1>1, <1>3 DEF Allowed, Collectors

\* What becomes of a copy that an exporter sends.
LEMMA SentFields ==
  ASSUME NEW c, NEW p, NEW e
  PROVE  /\ "at" \in DOMAIN Sent(c, p, e)
         /\ e = "routing/logs" => Sent(c, p, e).at = c.at /\ Sent(c, p, e).via = e
         /\ e # "routing/logs" /\ e \in ToGateway(c.at, values) =>
              Sent(c, p, e).at \in {"gateway", "nowhere"}
         /\ e # "routing/logs" /\ e \notin ToGateway(c.at, values) =>
              Sent(c, p, e).at = Backend(e)
         /\ e # "routing/logs" =>
              Sent(c, p, e).via = IF e \in {"signalfx", "signalfx/histograms"}
                                  THEN "forwarder" ELSE "otlp"
  BY DEF Sent

\* Every copy is on its course, and what has arrived was allowed to.
FlowInv ==
  /\ RealmGiven(values) /\ kind \in Produced(values)
  /\ \A c \in copies : "at" \in DOMAIN c /\ Course(values, kind, c.at, c.via)
  /\ \A a \in arrived : a.at \in Allowed(values, kind)

\* What a collector makes of a copy stays on its course.
LEMMA OutputsOnCourse ==
  ASSUME FlowInv, NEW c \in copies, c.at \in Collectors, NEW o \in Outputs(c)
  PROVE  /\ o.at \in Collectors \cup {"nowhere"} =>
              "at" \in DOMAIN o /\ Course(values, kind, o.at, o.via)
         /\ o.at \notin Collectors \cup {"nowhere"} => o.at \in Allowed(values, kind)
<1>1. /\ "at" \in DOMAIN c /\ Course(values, kind, c.at, c.via)
      /\ RealmGiven(values) /\ kind \in Produced(values) /\ kind \in DOMAIN Sources
  BY DEF FlowInv, Produced
<1>2. CASE c.via = "forwarder"
  <2>1. o = [c EXCEPT !.at = "o11y ingest"]
    BY <1>2 DEF Outputs
  <2>2. o.at = "o11y ingest"
    BY <1>1, <2>1
  <2>3. "o11y ingest" \in Allowed(values, kind)
    BY <1>1, <1>2, SourceCases DEF Course, SourceIs, Collectors
  <2> QED BY <2>2, <2>3, AllowedApart
<1>3. CASE c.via # "forwarder"
  <2>1. PICK p \in PipelinesOf(c) :
          \E e \in p.exporters : ~Excludes(e, kind) /\ o = Sent(c, p, e)
    BY <1>3 DEF Outputs
  <2>2. PICK e \in p.exporters : ~Excludes(e, kind) /\ o = Sent(c, p, e)
    BY <2>1
  <2>3. /\ p \in Config(c.at, values).pipelines
        /\ p.signal = Sources[kind][3] /\ c.via \in p.receivers
        /\ c.via = "routing/logs" => p.name \in Routes(c.at, values, kind)
    BY DEF PipelinesOf
  <2>4. Leads(values, kind, c.at, e)
    <3>1. CASE c.at = "agent"
      <4>1. p \in agentPipelines(values)
        BY <2>3, <3>1, AgentFields DEF Config
      <4>2. c.via = "routing/logs" => p.name \in agentRoutes(values, kind)
        BY <2>3, <3>1 DEF Routes
      <4> QED BY <1>1, <2>2, <2>3, <3>1, <4>1, <4>2, AgentLeads
    <3>2. CASE c.at = "gateway"
      <4>1. p \in gatewayPipelines(values)
        BY <2>3, <3>2, GatewayFields DEF Config
      <4>2. c.via = "routing/logs" => p.name \in gatewayRoutes(values, kind)
        BY <2>3, <3>2 DEF Routes
      <4> QED BY <1>1, <1>3, <2>2, <2>3, <3>2, <4>1, <4>2, GatewayLeads
    <3>3. CASE c.at = "clusterReceiver"
      <4>1. p \in clusterReceiverPipelines(values)
        BY <2>3, <3>3, ClusterFields DEF Config
      <4> QED BY <1>1, <2>2, <2>3, <3>3, <4>1, ClusterLeads
    <3> QED BY <3>1, <3>2, <3>3 DEF Collectors
  <2>5. CASE e = "routing/logs"
    BY <2>2, <2>4, <2>5, SentFields DEF Leads, ToGateway, When
  <2>6. CASE e # "routing/logs" /\ e \in ToGateway(c.at, values)
    <3>1. o.at \in {"gateway", "nowhere"} /\ "at" \in DOMAIN o
      BY <2>2, <2>6, SentFields
    <3>2. Course(values, kind, o.at, o.via)
      BY <2>2, <2>4, <2>6, <3>1, SentFields DEF Leads, Course
    <3> QED BY <3>1, <3>2 DEF Collectors
  <2>7. CASE e # "routing/logs" /\ e \notin ToGateway(c.at, values)
    <3>1. o.at = Backend(e)
      BY <2>2, <2>7, SentFields
    <3>2. Backend(e) \in Allowed(values, kind)
      BY <2>4, <2>7 DEF Leads
    <3> QED BY <3>1, <3>2, AllowedApart
  <2> QED BY <2>5, <2>6, <2>7
<1> QED BY <1>2, <1>3

\* Every copy stays on its course.
THEOREM OnCourse == Spec => []FlowInv
<1>1. Init => FlowInv
  BY DEF Init, FlowInv
<1>2. FlowInv /\ [Next]_vars => FlowInv'
  <2> SUFFICES ASSUME FlowInv, [Next]_vars PROVE FlowInv'
    OBVIOUS
  <2>1. ASSUME UNCHANGED <<values, kind, copies, arrived>> PROVE FlowInv'
    BY <2>1 DEF FlowInv
  <2>2. ASSUME NEW w \in Collectors, Start(w) PROVE FlowInv'
    BY <2>1, <2>2 DEF Start
  <2>3. CASE UNCHANGED vars
    BY <2>1, <2>3 DEF vars
  <2>4. CASE Emit
    <3>1. UNCHANGED <<values, kind, arrived>>
      BY <2>4 DEF Emit
    <3>2. \A c \in copies' : /\ "at" \in DOMAIN c
                             /\ c.at = EntryCollector(values, kind) /\ c.via = Sources[kind][2]
      BY <2>4 DEF Emit
    <3>3. \A c \in copies' : Course(values, kind, c.at, c.via)
      BY <3>2 DEF Course
    <3> QED BY <3>1, <3>2, <3>3 DEF FlowInv
  <2>5. ASSUME NEW c \in copies, Pass(c) PROVE FlowInv'
    <3>1. UNCHANGED <<values, kind>> /\ c.at \in Collectors
      BY <2>5 DEF Pass
    <3>2. \A d \in copies' : d \in copies \/ (d \in Outputs(c) /\ d.at \in Collectors \cup {"nowhere"})
      BY <2>5 DEF Pass
    <3>3. \A a \in arrived' :
            a \in arrived \/ (a \in Outputs(c) /\ a.at \notin Collectors \cup {"nowhere"})
      BY <2>5 DEF Pass
    <3>4. \A d \in copies' : "at" \in DOMAIN d /\ Course(values, kind, d.at, d.via)
      BY <3>1, <3>2, OutputsOnCourse DEF FlowInv
    <3>5. \A a \in arrived' : a.at \in Allowed(values, kind)
      BY <3>1, <3>3, OutputsOnCourse DEF FlowInv
    <3> QED BY <3>1, <3>4, <3>5 DEF FlowInv
  <2> QED BY <2>2, <2>3, <2>4, <2>5 DEF Next
<1> QED BY <1>1, <1>2, PTL DEF Spec

\* Whatever options are combined, no backend gets what was neither promised to
\* it nor is one of the leaks that Leaks names.
THEOREM NothingElse == Spec => []NothingElseArrives
<1>1. FlowInv => NothingElseArrives
  BY DEF FlowInv, NothingElseArrives, Promise, Allowed
<1> QED BY <1>1, OnCourse, PTL

-----------------------------------------------------------------------------
(* The cluster's name.                                                     *)

\* The name that telemetry is to carry.
RightName(v) == IF "clusterName" \in v THEN "given" ELSE "detected"

\* The processors that a pipeline may list.
Processors ==
  {"attributes/drop_event_attrs", "attributes/istio", "batch", "filter/logs",
   "k8s_attributes", "k8s_attributes/metrics", "memory_limiter", "metricstransform",
   "resource", "resource/add_agent_k8s", "resource/add_cluster_host",
   "resource/add_cluster_name", "resource/add_custom_attrs",
   "resource/add_environment", "resource/add_event_k8s", "resource/k8s_cluster",
   "resource/logs", "resource/metrics", "resource/otlp_platform_logs",
   "resource_detection", "resource_detection/k8s_cluster_name",
   "transform/add_events_sourcetype", "transform/add_sourcetype",
   "transform/drop_server_attrs", "transform/istio_service_name",
   "transform/k8sevents", "transform/k8shpascaletargetref", "transform/logs"}

\* Lists after which the name is right, and lists that leave it alone.
Settles(v, s) == s \in Seq(Processors) /\ \A n : NameAfter(v, n, s) = RightName(v)
Keeps(v, s)   == s \in Seq(Processors) /\ \A n : NameAfter(v, n, s) = n

\* The positions of the processors that set the name, of which the last counts.
Setters(v, s) == {i \in DOMAIN s : NameSet(v, s[i]) # "none"}
LastSetter(v, s) == CHOOSE i \in Setters(v, s) : \A j \in Setters(v, s) : j =< i

\* Every nonempty set of natural numbers up to n has a largest element.
LEMMA LargestExists ==
  ASSUME NEW n \in Nat, NEW S, S \subseteq 0..n, S # {}
  PROVE  \E x \in S : \A y \in S : y <= x
<1> DEFINE R == {p \in Nat \X Nat : p[1] < p[2]}
           T == {n - i : i \in S}
<1>1. IsWellFoundedOn(R, Nat)
  BY NatLessThanWellFounded DEF OpToRel
<1>2. T \subseteq Nat /\ T # {}
  <2>1. \A i \in S : n - i \in Nat
    OBVIOUS
  <2> QED BY <2>1
<1>3. \A x, y \in Nat : x < y => <<x, y>> \in R
  OBVIOUS
<1>4. PICK t \in T : \A u \in T : <<u, t>> \notin R
  <2> HIDE DEF T, R
  <2> QED BY <1>1, <1>2, WFMin
<1>5. PICK x \in S : t = n - x
  OBVIOUS
<1>6. \A y \in S : ~(n - y < n - x)
  <2> HIDE DEF R
  <2> QED BY <1>2, <1>3, <1>4, <1>5
<1> QED BY <1>6

\* There is a last one if there is one at all.
LEMMA LastSetterExists ==
  ASSUME NEW v, NEW s \in Seq(Processors), Setters(v, s) # {}
  PROVE  /\ LastSetter(v, s) \in Setters(v, s)
         /\ \A j \in Setters(v, s) : j =< LastSetter(v, s)
<1>1. Setters(v, s) \subseteq 0..Len(s)
  BY DEF Setters
<1>2. \E i \in Setters(v, s) : \A j \in Setters(v, s) : j =< i
  BY <1>1, LargestExists
<1> QED BY <1>2 DEF LastSetter

\* The name after the processors.
LEMMA NameAfterIs ==
  ASSUME NEW v, NEW n, NEW s
  PROVE  NameAfter(v, n, s) = IF Setters(v, s) = {} THEN n ELSE NameSet(v, s[LastSetter(v, s)])
  BY DEF NameAfter, Setters, LastSetter

\* Processors one after the other: the last list that sets the name counts.
LEMMA NameConcat ==
  ASSUME NEW v, NEW n, NEW s \in Seq(Processors), NEW t \in Seq(Processors)
  PROVE  NameAfter(v, n, s \o t) =
           IF Setters(v, t) = {} THEN NameAfter(v, n, s) ELSE NameAfter(v, n, t)
<1> DEFINE st == s \o t
<1>1. /\ st \in Seq(Processors) /\ Len(st) = Len(s) + Len(t) /\ Len(s) \in Nat /\ Len(t) \in Nat
      /\ \A i \in 1..Len(s) : st[i] = s[i]
      /\ \A i \in 1..Len(t) : st[Len(s) + i] = t[i]
  OBVIOUS
<1> HIDE DEF st
<1>2. /\ \A i \in 1..Len(s) : i \in Setters(v, st) <=> i \in Setters(v, s)
      /\ \A i \in 1..Len(t) : Len(s) + i \in Setters(v, st) <=> i \in Setters(v, t)
      /\ Setters(v, s) \subseteq 1..Len(s) /\ Setters(v, t) \subseteq 1..Len(t)
      /\ Setters(v, st) \subseteq 1..(Len(s) + Len(t))
  BY <1>1 DEF Setters
<1>3. CASE Setters(v, t) # {}
  <2> DEFINE m == LastSetter(v, st)
             k == LastSetter(v, t)
  <2>1. k \in Setters(v, t) /\ \A j \in Setters(v, t) : j =< k
    BY <1>3, LastSetterExists
  <2>2. Len(s) + k \in Setters(v, st)
    BY <1>2, <2>1
  <2>3. m \in Setters(v, st) /\ \A j \in Setters(v, st) : j =< m
    BY <1>1, <2>2, LastSetterExists
  <2> HIDE DEF m, k
  <2>4. m - Len(s) \in 1..Len(t) /\ m = Len(s) + (m - Len(s))
    BY <1>1, <1>2, <2>1, <2>2, <2>3
  <2>5. m - Len(s) \in Setters(v, t)
    BY <1>2, <2>3, <2>4
  <2>6. m = Len(s) + k
    BY <1>1, <1>2, <2>1, <2>2, <2>3, <2>4, <2>5
  <2>7. st[m] = t[k]
    BY <1>1, <1>2, <2>1, <2>6
  <2> QED BY <1>3, <2>2, <2>7, NameAfterIs DEF m, k, st
<1>4. CASE Setters(v, t) = {}
  <2>1. Setters(v, st) = Setters(v, s)
    <3>1. ASSUME NEW i \in Setters(v, st) PROVE i \in Setters(v, s)
      <4>1. i \in 1..Len(s)
        <5> SUFFICES ASSUME i \notin 1..Len(s) PROVE FALSE
          OBVIOUS
        <5>1. i - Len(s) \in 1..Len(t) /\ i = Len(s) + (i - Len(s))
          BY <1>1, <1>2
        <5> QED BY <1>2, <1>4, <5>1
      <4> QED BY <1>2, <4>1
    <3> QED BY <1>2, <3>1
  <2>2. CASE Setters(v, s) = {}
    BY <1>4, <2>1, <2>2, NameAfterIs DEF st
  <2>3. CASE Setters(v, s) # {}
    <3>1. LastSetter(v, st) = LastSetter(v, s)
      BY <2>1 DEF LastSetter
    <3>2. LastSetter(v, s) \in 1..Len(s)
      BY <1>2, <2>3, LastSetterExists
    <3>3. st[LastSetter(v, st)] = s[LastSetter(v, s)]
      BY <1>1, <3>1, <3>2
    <3> QED BY <1>4, <2>1, <2>3, <3>3, NameAfterIs DEF st
  <2> QED BY <2>2, <2>3
<1> QED BY <1>3, <1>4

\* A list whose last processor that sets the name sets the right one.
LEMMA SettlesAt ==
  ASSUME NEW v, NEW s \in Seq(Processors), NEW i \in DOMAIN s, NameSet(v, s[i]) = RightName(v),
         \A j \in DOMAIN s : j > i => NameSet(v, s[j]) \in {"none", RightName(v)}
  PROVE  Settles(v, s)
<1> DEFINE m == LastSetter(v, s)
<1>1. i \in Setters(v, s)
  BY DEF Setters, RightName
<1>2. m \in Setters(v, s) /\ i =< m
  BY <1>1, LastSetterExists
<1> HIDE DEF m
<1>3. m = i \/ m > i
  BY <1>1, <1>2 DEF Setters
<1>4. NameSet(v, s[m]) = RightName(v)
  BY <1>2, <1>3 DEF Setters
<1> QED BY <1>1, <1>4, NameAfterIs DEF Settles, m

\* Processors that have nothing to do with the name.
Plain == Processors \ {"resource", "resource/add_cluster_name", "resource_detection",
                   "resource_detection/k8s_cluster_name"}

\* They leave it alone.
LEMMA PlainKeeps ==
  ASSUME NEW v, NEW s \in Seq(Plain)
  PROVE  Keeps(v, s)
<1>1. s \in Seq(Processors) /\ \A i \in DOMAIN s : s[i] \in Plain
  BY DEF Plain
<1>2. \A x \in Plain : NameSet(v, x) = "none"
  BY DEF Plain, NameSet
<1>3. Setters(v, s) = {}
  BY <1>1, <1>2 DEF Setters
<1> QED BY <1>1, <1>3, NameAfterIs DEF Keeps

\* One list after another.
LEMMA KeepsConcat ==
  ASSUME NEW v, NEW s, NEW t, Keeps(v, s), Keeps(v, t)
  PROVE  Keeps(v, s \o t)
<1>1. s \in Seq(Processors) /\ t \in Seq(Processors)
  BY DEF Keeps
<1>2. s \o t \in Seq(Processors)
  BY <1>1, ConcatIn
<1> QED BY <1>1, <1>2, NameConcat DEF Keeps

\* What follows settles the name.
LEMMA SettlesLater ==
  ASSUME NEW v, NEW s \in Seq(Processors), NEW t, Settles(v, t)
  PROVE  Settles(v, s \o t)
<1>1. t \in Seq(Processors) /\ NameAfter(v, "none", t) # "none"
  BY DEF Settles, RightName
<1>2. Setters(v, t) # {}
  BY <1>1, NameAfterIs
<1>3. s \o t \in Seq(Processors)
  BY <1>1, ConcatIn
<1>4. \A n : NameAfter(v, n, s \o t) = NameAfter(v, n, t)
  BY <1>1, <1>2, NameConcat
<1> QED BY <1>3, <1>4 DEF Settles

\* What follows leaves the name alone.
LEMMA SettlesKept ==
  ASSUME NEW v, NEW s, NEW t, Settles(v, s), Keeps(v, t)
  PROVE  Settles(v, s \o t)
<1>1. s \in Seq(Processors) /\ t \in Seq(Processors)
  BY DEF Keeps, Settles
<1>2. NameAfter(v, "a", t) = "a" /\ NameAfter(v, "b", t) = "b"
  BY DEF Keeps
<1>3. Setters(v, t) = {}
  BY <1>2, NameAfterIs
<1>4. s \o t \in Seq(Processors)
  BY <1>1, ConcatIn
<1> QED BY <1>1, <1>3, <1>4, NameConcat DEF Settles

\* A processor that a pipeline has under a condition and that leaves it alone.
LEMMA StepKeeps ==
  ASSUME NEW v, NEW c, NEW x \in Plain
  PROVE  Keeps(v, Step(c, x))
  BY StepIn, PlainKeeps

\* resource_detection, and at the end the name that was given, if one was.
LEMMA DetectionThenResource ==
  ASSUME NEW v, clusterNameGiven(v), NEW s \in Seq(Processors), NEW n \in Nat, Len(s) = n + 2,
         s[n + 1] = "resource_detection", s[n + 2] = "resource"
  PROVE  Settles(v, s)
<1>1. "clusterName" \in v => NameSet(v, "resource") = RightName(v)
  BY DEF NameSet, RightName
<1>2. "clusterName" \notin v =>
        NameSet(v, "resource") = "none" /\ NameSet(v, "resource_detection") = RightName(v)
  BY DEF NameSet, RightName, clusterNameGiven, clusterNameOptional, DetectsClusterName
<1>3. /\ n + 1 \in DOMAIN s /\ n + 2 \in DOMAIN s
      /\ \A j \in DOMAIN s : ~(j > n + 2)
      /\ \A j \in DOMAIN s : j > n + 1 => j = n + 2
  OBVIOUS
<1> QED BY <1>1, <1>2, <1>3, SettlesAt

\* What the processors that set the name do.
LEMMA NamePieces ==
  ASSUME NEW v, clusterNameGiven(v)
  PROVE  /\ detectClusterName(v) \in Seq(Processors)
         /\ "clusterName" \in v =>
              /\ Keeps(v, detectClusterName(v))
              /\ Settles(v, <<"resource">>) /\ Settles(v, <<"resource", "batch">>)
              /\ Settles(v, <<"resource", "resource/add_cluster_host">>)
              /\ Settles(v, Step("clusterName" \in v, "resource/add_cluster_name"))
         /\ "clusterName" \notin v =>
              /\ Settles(v, detectClusterName(v))
              /\ Keeps(v, <<"resource">>) /\ Keeps(v, <<"resource", "batch">>)
              /\ Keeps(v, <<"resource", "resource/add_cluster_host">>)
              /\ Keeps(v, Step("clusterName" \in v, "resource/add_cluster_name"))
         /\ Settles(v, <<"resource_detection", "resource">>)
<1> USE DEF Processors
<1>1. NameSet(v, "resource_detection/k8s_cluster_name") = "detected"
  BY DEF NameSet
<1>2. /\ NameSet(v, "batch") = "none"
      /\ NameSet(v, "resource/add_cluster_host") = "none"
  BY DEF NameSet
<1>3. "clusterName" \in v =>
        /\ NameSet(v, "resource") = "given" /\ NameSet(v, "resource/add_cluster_name") = "given"
        /\ RightName(v) = "given" /\ ~autoDetectClusterName(v)
  BY DEF NameSet, RightName, autoDetectClusterName
<1>4. "clusterName" \notin v =>
        /\ NameSet(v, "resource") = "none" /\ NameSet(v, "resource_detection") = "detected"
        /\ RightName(v) = "detected" /\ autoDetectClusterName(v)
  BY DEF NameSet, RightName, autoDetectClusterName, clusterNameGiven, clusterNameOptional,
     DetectsClusterName
<1>5. Keeps(v, <<>>)
  <2>1. <<>> \in Seq(Plain)
    OBVIOUS
  <2> QED BY <2>1, PlainKeeps
<1>6. detectClusterName(v) \in Seq(Processors)
  <2>1. "resource_detection/k8s_cluster_name" \in Processors
    OBVIOUS
  <2> HIDE DEF Processors
  <2> QED BY <2>1, StepIn DEF detectClusterName
<1>7. ASSUME NEW x \in Processors, NameSet(v, x) = RightName(v)
      PROVE  Settles(v, <<x>>)
  <2> DEFINE s == <<x>>
  <2>1. /\ s \in Seq(Processors) /\ DOMAIN s = {1} /\ s[1] = x
        /\ \A j \in DOMAIN s : ~(j > 1)
    OBVIOUS
  <2> HIDE DEF s, Processors
  <2>2. Settles(v, s)
    BY <1>7, <2>1, SettlesAt
  <2> QED BY <2>2 DEF s
<1>8. ASSUME "clusterName" \in v
      PROVE  /\ Keeps(v, detectClusterName(v))
             /\ Settles(v, <<"resource">>) /\ Settles(v, <<"resource", "batch">>)
             /\ Settles(v, <<"resource", "resource/add_cluster_host">>)
             /\ Settles(v, Step("clusterName" \in v, "resource/add_cluster_name"))
  <2>1. Keeps(v, detectClusterName(v))
    BY <1>3, <1>5, <1>8 DEF detectClusterName, Step
  <2>2. Settles(v, <<"resource">>)
    BY <1>3, <1>8, <1>7
  <2>3. Settles(v, <<"resource", "batch">>)
    <3> DEFINE s == <<"resource", "batch">>
    <3>1. s \in Seq(Processors) /\ 1 \in DOMAIN s /\ s[1] = "resource"
          /\ \A j \in DOMAIN s : j > 1 => s[j] = "batch"
      OBVIOUS
    <3> HIDE DEF s
    <3>2. Settles(v, s)
      BY <1>2, <1>3, <1>8, <3>1, SettlesAt
    <3> QED BY <3>2 DEF s
  <2>4. Settles(v, <<"resource", "resource/add_cluster_host">>)
    <3> DEFINE s == <<"resource", "resource/add_cluster_host">>
    <3>1. s \in Seq(Processors) /\ 1 \in DOMAIN s /\ s[1] = "resource"
          /\ \A j \in DOMAIN s : j > 1 => s[j] = "resource/add_cluster_host"
      OBVIOUS
    <3> HIDE DEF s
    <3>2. Settles(v, s)
      BY <1>2, <1>3, <1>8, <3>1, SettlesAt
    <3> QED BY <3>2 DEF s
  <2>5. Settles(v, <<"resource/add_cluster_name">>)
    BY <1>3, <1>8, <1>7
  <2> QED BY <1>8, <2>1, <2>2, <2>3, <2>4, <2>5 DEF Step
<1>9. ASSUME "clusterName" \notin v
      PROVE  /\ Settles(v, detectClusterName(v))
             /\ Keeps(v, <<"resource">>) /\ Keeps(v, <<"resource", "batch">>)
             /\ Keeps(v, <<"resource", "resource/add_cluster_host">>)
             /\ Keeps(v, Step("clusterName" \in v, "resource/add_cluster_name"))
  <2>1. Settles(v, <<"resource_detection/k8s_cluster_name">>)
    BY <1>1, <1>4, <1>9, <1>7
  <2>2. Settles(v, detectClusterName(v))
    BY <1>4, <1>9, <2>1 DEF detectClusterName, Step
  <2>3. ASSUME NEW s \in Seq({"resource", "batch", "resource/add_cluster_host"})
        PROVE  Keeps(v, s)
    <3>1. s \in Seq(Processors) /\ \A i \in DOMAIN s : NameSet(v, s[i]) = "none"
      BY <1>2, <1>4, <1>9
    <3>2. Setters(v, s) = {}
      BY <3>1 DEF Setters
    <3> QED BY <3>1, <3>2, NameAfterIs DEF Keeps
  <2>4. /\ <<"resource">> \in Seq({"resource", "batch", "resource/add_cluster_host"})
        /\ <<"resource", "batch">> \in Seq({"resource", "batch", "resource/add_cluster_host"})
        /\ <<"resource", "resource/add_cluster_host">>
             \in Seq({"resource", "batch", "resource/add_cluster_host"})
    OBVIOUS
  <2> QED BY <1>5, <1>9, <2>2, <2>3, <2>4 DEF Step
<1>10. Settles(v, <<"resource_detection", "resource">>)
  <2> DEFINE s == <<"resource_detection", "resource">>
  <2>1. s \in Seq(Processors) /\ Len(s) = 0 + 2 /\ s[0 + 1] = "resource_detection" /\ s[0 + 2] = "resource"
    OBVIOUS
  <2> QED BY <2>1, DetectionThenResource
<1> QED BY <1>6, <1>8, <1>9, <1>10

\* The name is looked up and then overwritten with the one given, if one is.
LEMMA DetectedThenGiven ==
  ASSUME NEW v, clusterNameGiven(v), NEW s \in Seq(Processors),
         NEW t \in {<<"resource">>, <<"resource", "batch">>,
                    <<"resource", "resource/add_cluster_host">>,
                    Step("clusterName" \in v, "resource/add_cluster_name")}
  PROVE  Settles(v, s \o detectClusterName(v) \o t)
<1>1. detectClusterName(v) \in Seq(Processors)
  BY NamePieces
<1>2. CASE "clusterName" \in v
  <2>1. Settles(v, t)
    BY <1>2, NamePieces
  <2>2. s \o detectClusterName(v) \in Seq(Processors)
    BY <1>1, ConcatIn
  <2> QED BY <2>1, <2>2, SettlesLater
<1>3. CASE "clusterName" \notin v
  <2>1. Keeps(v, t) /\ Settles(v, detectClusterName(v))
    BY <1>3, NamePieces
  <2>2. Settles(v, s \o detectClusterName(v))
    BY <2>1, SettlesLater
  <2> QED BY <2>1, <2>2, SettlesKept
<1> QED BY <1>2, <1>3

\* Processors of the pipelines, by groups that leave the name alone.
LEMMA PlainLists ==
  ASSUME NEW v
  PROVE  /\ Keeps(v, <<"memory_limiter">>) /\ Keeps(v, <<"memory_limiter", "batch">>)
         /\ Keeps(v, <<"memory_limiter", "k8s_attributes">>)
         /\ Keeps(v, <<"memory_limiter", "k8s_attributes", "batch">>)
         /\ Keeps(v, <<"memory_limiter", "k8s_attributes", "filter/logs", "batch">>)
         /\ Keeps(v, <<"memory_limiter", "batch", "transform/k8shpascaletargetref">>)
         /\ Keeps(v, <<"memory_limiter", "batch", "attributes/drop_event_attrs">>)
         /\ Keeps(v, <<"resource/logs">>) /\ Keeps(v, <<"batch">>)
         /\ Keeps(v, <<"resource/k8s_cluster">>) /\ Keeps(v, <<"transform/k8sevents">>)
         /\ Keeps(v, <<"resource/add_cluster_host">>)
         /\ Keeps(v, <<"resource/add_cluster_host", "transform/add_sourcetype">>)
         /\ Keeps(v, <<>>)
         /\ Keeps(v, platformMetricsSteps(v)) /\ Keeps(v, prometheusSteps(v))
<1>1. /\ <<"memory_limiter">> \in Seq(Plain) /\ <<"memory_limiter", "batch">> \in Seq(Plain)
      /\ <<"memory_limiter", "k8s_attributes">> \in Seq(Plain)
      /\ <<"memory_limiter", "k8s_attributes", "batch">> \in Seq(Plain)
      /\ <<"memory_limiter", "k8s_attributes", "filter/logs", "batch">> \in Seq(Plain)
      /\ <<"memory_limiter", "batch", "transform/k8shpascaletargetref">> \in Seq(Plain)
      /\ <<"memory_limiter", "batch", "attributes/drop_event_attrs">> \in Seq(Plain)
      /\ <<"resource/logs">> \in Seq(Plain) /\ <<"batch">> \in Seq(Plain)
      /\ <<"resource/k8s_cluster">> \in Seq(Plain) /\ <<"transform/k8sevents">> \in Seq(Plain)
      /\ <<"resource/add_cluster_host">> \in Seq(Plain)
      /\ <<"resource/add_cluster_host", "transform/add_sourcetype">> \in Seq(Plain)
      /\ <<>> \in Seq(Plain)
  BY DEF Plain, Processors
<1>2. /\ {"k8s_attributes/metrics", "resource/metrics", "attributes/istio",
          "transform/drop_server_attrs"} \subseteq Plain
  BY DEF Plain, Processors
<1>3. Keeps(v, platformMetricsSteps(v)) /\ Keeps(v, prometheusSteps(v))
  BY <1>2, StepKeeps, KeepsConcat DEF platformMetricsSteps, prometheusSteps
<1> QED BY <1>1, <1>3, PlainKeeps

\* Processors that the templates list under a condition.
LEMMA PlainNames ==
  {"filter/logs", "batch", "transform/logs", "transform/istio_service_name", "resource/logs",
   "resource/otlp_platform_logs", "resource/add_environment", "metricstransform",
   "resource/add_custom_attrs", "transform/add_events_sourcetype", "resource/add_event_k8s"}
    \subseteq Plain
  BY DEF Plain, Processors

\* The agent's pipelines give telemetry its name.
LEMMA AgentStepsSettle ==
  ASSUME NEW v, clusterNameGiven(v)
  PROVE  /\ Settles(v, agentSecureAppSteps(v)) /\ Settles(v, agentLogsSteps(v))
         /\ Settles(v, agentHostLogsSteps(v)) /\ Settles(v, agentTracesSteps(v))
         /\ Settles(v, agentMetricsSteps(v)) /\ Settles(v, agentHistogramsSteps(v))
         /\ Settles(v, <<"memory_limiter", "batch", "resource_detection", "resource">>)
<1>1. \A s : Keeps(v, s) => s \in Seq(Processors)
  BY DEF Keeps
<1>2. \A c, x : x \in Plain => Keeps(v, Step(c, x))
  BY StepKeeps
<1>3. Settles(v, <<"resource_detection", "resource">>)
  BY NamePieces
<1>4. Settles(v, agentSecureAppSteps(v))
  BY <1>1, PlainLists, DetectedThenGiven DEF agentSecureAppSteps
<1>5. Settles(v, agentLogsSteps(v))
  <2> DEFINE a == <<"memory_limiter", "k8s_attributes">>
                  \o Step("gateway" \notin v, "filter/logs")
                  \o Step("noDropLogsPipeline" \notin v, "batch")
             b == a \o <<"resource_detection", "resource">>
  <2>1. Keeps(v, a)
    BY <1>2, PlainLists, PlainNames, KeepsConcat
  <2>2. Settles(v, b)
    BY <1>1, <1>3, <2>1, SettlesLater
  <2> HIDE DEF b
  <2>3. Settles(v, b
          \o Step("gateway" \notin v /\ "renameFieldsSck" \in v, "transform/logs")
          \o Step("gateway" \notin v /\ "autodetect.istio" \in v, "transform/istio_service_name")
          \o Step("gateway" \notin v, "resource/logs")
          \o Step("gateway" \notin v /\ platformLogsViaOtlpEnabled(v), "resource/otlp_platform_logs")
          \o Step("environment" \in v, "resource/add_environment"))
    BY <1>2, <2>2, PlainNames, SettlesKept
  <2> QED BY <2>3 DEF b, agentLogsSteps
<1>6. Settles(v, agentHostLogsSteps(v))
  <2> DEFINE a == <<"memory_limiter">> \o Step("noDropLogsPipeline" \notin v, "batch")
                  \o <<"resource_detection">>
             b == a \o detectClusterName(v) \o <<"resource">>
  <2>1. <<"resource_detection">> \in Seq(Processors)
    BY DEF Processors
  <2>2. a \in Seq(Processors)
    BY <1>1, <1>2, <2>1, PlainLists, PlainNames, ConcatIn
  <2>3. Settles(v, b)
    BY <2>2, DetectedThenGiven
  <2> HIDE DEF b
  <2>4. Settles(v, b
          \o Step("gateway" \notin v /\ platformLogsViaOtlpEnabled(v), "resource/otlp_platform_logs")
          \o Step("environment" \in v, "resource/add_environment"))
    BY <1>2, <2>3, PlainNames, SettlesKept
  <2> QED BY <2>4 DEF b, agentHostLogsSteps
<1>7. Settles(v, agentTracesSteps(v))
  <2> DEFINE b == <<"memory_limiter", "k8s_attributes", "batch", "resource_detection", "resource">>
  <2>1. /\ b \in Seq(Processors) /\ Len(b) = 3 + 2
        /\ b[3 + 1] = "resource_detection" /\ b[3 + 2] = "resource"
    BY DEF Processors
  <2> HIDE DEF b
  <2>2. Settles(v, b)
    BY <2>1, DetectionThenResource
  <2>3. Settles(v, b \o Step("environment" \in v, "resource/add_environment"))
    BY <1>2, <2>2, PlainNames, SettlesKept
  <2> QED BY <2>3 DEF b, agentTracesSteps
<1>8. Settles(v, agentMetricsSteps(v))
  <2> DEFINE b == <<"memory_limiter", "batch">> \o prometheusSteps(v)
                  \o <<"resource_detection", "resource">>
  <2>1. Settles(v, b)
    BY <1>1, <1>3, PlainLists, KeepsConcat, SettlesLater
  <2> HIDE DEF b
  <2>2. Settles(v, b
          \o Step("platform.metrics" \in v /\ "environment" \in v, "resource/add_environment")
          \o Step("isWindows" \in v, "metricstransform") \o platformMetricsSteps(v))
    BY <1>2, <2>1, PlainLists, PlainNames, SettlesKept
  <2> QED BY <2>2 DEF b, agentMetricsSteps
<1>9. Settles(v, agentHistogramsSteps(v))
  <2> DEFINE b == <<"memory_limiter", "batch", "resource/add_agent_k8s", "resource_detection",
                    "resource">>
  <2>1. /\ b \in Seq(Processors) /\ Len(b) = 3 + 2
        /\ b[3 + 1] = "resource_detection" /\ b[3 + 2] = "resource"
    BY DEF Processors
  <2> HIDE DEF b
  <2>2. Settles(v, b)
    BY <2>1, DetectionThenResource
  <2>3. Settles(v, b \o prometheusSteps(v))
    BY <2>2, PlainLists, SettlesKept
  <2> QED BY <2>3 DEF b, agentHistogramsSteps
<1>10. Settles(v, <<"memory_limiter", "batch", "resource_detection", "resource">>)
  <2> DEFINE b == <<"memory_limiter", "batch", "resource_detection", "resource">>
  <2>1. /\ b \in Seq(Processors) /\ Len(b) = 2 + 2
        /\ b[2 + 1] = "resource_detection" /\ b[2 + 2] = "resource"
    BY DEF Processors
  <2> HIDE DEF b
  <2>2. Settles(v, b)
    BY <2>1, DetectionThenResource
  <2> QED BY <2>2 DEF b
<1> QED BY <1>4, <1>5, <1>6, <1>7, <1>8, <1>9, <1>10

\* So do the gateway's, but for entities, which have it, and for logs.
LEMMA GatewayStepsSettle ==
  ASSUME NEW v, clusterNameGiven(v)
  PROVE  /\ Settles(v, gatewayTracesSteps(v)) /\ Settles(v, gatewayMetricsSteps(v))
         /\ Settles(v, gatewaySecureAppSteps(v)) /\ Keeps(v, gatewayLogsSteps(v))
<1>1. \A s : Keeps(v, s) => s \in Seq(Processors)
  BY DEF Keeps
<1>2. \A c, x : x \in Plain => Keeps(v, Step(c, x))
  BY StepKeeps
<1>3. ASSUME NEW s, Keeps(v, s) PROVE Settles(v, s \o nameCluster(v))
  <2> DEFINE t == Step("clusterName" \in v, "resource/add_cluster_name")
  <2>1. Settles(v, s \o detectClusterName(v) \o t)
    BY <1>1, <1>3, DetectedThenGiven
  <2>2. /\ s \in Seq(Processors) /\ detectClusterName(v) \in Seq(Processors)
        /\ t \in Seq(Processors)
    BY <1>1, <1>3, NamePieces DEF Keeps, Settles
  <2> HIDE DEF t
  <2>3. s \o detectClusterName(v) \o t = s \o (detectClusterName(v) \o t)
    BY <2>2
  <2> QED BY <2>1, <2>3 DEF t, nameCluster
<1>4. Settles(v, gatewayTracesSteps(v))
  BY <1>2, <1>3, PlainLists, PlainNames, SettlesKept DEF gatewayTracesSteps
<1>5. Settles(v, gatewayMetricsSteps(v))
  BY <1>2, <1>3, PlainLists, PlainNames, SettlesKept DEF gatewayMetricsSteps
<1>6. Settles(v, gatewaySecureAppSteps(v))
  BY <1>3, PlainLists, SettlesKept DEF gatewaySecureAppSteps
<1>7. Keeps(v, gatewayLogsSteps(v))
  BY <1>2, PlainLists, PlainNames, KeepsConcat DEF gatewayLogsSteps
<1> QED BY <1>4, <1>5, <1>6, <1>7

\* And all of the cluster receiver's that are not about itself.
LEMMA ClusterStepsSettle ==
  ASSUME NEW v, clusterNameGiven(v)
  PROVE  /\ Settles(v, clusterSteps(v)) /\ Settles(v, clusterMetricsSteps(v))
         /\ Settles(v, clusterSteps(v) \o platformMetricsSteps(v))
         /\ Settles(v, clusterEventsSteps(v)) /\ Settles(v, clusterObjectsSteps(v))
         /\ Settles(v, clusterInfraEventsSteps(v))
<1>1. \A s : Keeps(v, s) => s \in Seq(Processors)
  BY DEF Keeps
<1>2. \A c, x : x \in Plain => Keeps(v, Step(c, x))
  BY StepKeeps
<1>3. Settles(v, clusterSteps(v))
  BY <1>1, PlainLists, DetectedThenGiven DEF clusterSteps
<1>4. Settles(v, clusterMetricsSteps(v))
  <2> DEFINE b == <<"memory_limiter", "batch", "transform/k8shpascaletargetref">>
                  \o detectClusterName(v) \o <<"resource">>
  <2>1. Settles(v, b)
    BY <1>1, PlainLists, DetectedThenGiven
  <2> HIDE DEF b
  <2>2. Settles(v, b \o platformMetricsSteps(v) \o <<"resource/k8s_cluster">>)
    BY <2>1, PlainLists, SettlesKept
  <2> QED BY <2>2 DEF b, clusterMetricsSteps
<1>5. Settles(v, clusterEventsSteps(v))
  <2> DEFINE b == <<"memory_limiter", "batch", "attributes/drop_event_attrs">>
                  \o detectClusterName(v) \o <<"resource", "resource/add_cluster_host">>
  <2>1. Settles(v, b)
    BY <1>1, PlainLists, DetectedThenGiven
  <2> HIDE DEF b
  <2>2. Settles(v, b
          \o Step("environment" \in v, "resource/add_environment")
          \o Step(platformLogsViaOtlpEnabled(v), "resource/otlp_platform_logs")
          \o Step(platformLogsViaOtlpEnabled(v), "transform/add_events_sourcetype")
          \o <<"transform/k8sevents">>)
    BY <1>2, <2>1, PlainLists, PlainNames, SettlesKept
  <2> QED BY <2>2 DEF b, clusterEventsSteps
<1>6. Settles(v, clusterObjectsSteps(v))
  BY <1>2, <1>3, PlainLists, PlainNames, SettlesKept DEF clusterObjectsSteps
<1>7. Settles(v, clusterInfraEventsSteps(v))
  BY <1>2, <1>3, PlainLists, PlainNames, SettlesKept DEF clusterInfraEventsSteps
<1>8. Settles(v, clusterSteps(v) \o platformMetricsSteps(v))
  BY <1>3, PlainLists, SettlesKept
<1> QED BY <1>3, <1>4, <1>5, <1>6, <1>7, <1>8

\* The name, receivers and processors of a pipeline.
LEMMA PipelineProcessors ==
  ASSUME NEW name, NEW signal, NEW R, NEW P, NEW E
  PROVE  \A p \in Pipeline(name, signal, R, P, E) :
           p.name = name /\ p.signal = signal /\ p.receivers = R /\ p.processors = P /\ p.exporters = E
  BY DEF Pipeline

\* Hands a copy on to the connector as it is.
Splits(p) == p.receivers = {"otlp"} /\ p.processors = <<>> /\ p.exporters = {"routing/logs"}

\* What the agent's pipelines do to the name.
LEMMA AgentNames ==
  ASSUME NEW v, clusterNameGiven(v), NEW p \in agentPipelines(v)
  PROVE  \/ Settles(v, p.processors)
         \/ Splits(p)
         \/ p.receivers = {"prometheus/agent"}
<1> USE PipelineProcessors, AgentStepsSettle
<1>1. CASE p \in agentSecureAppPipelines(v)
  BY <1>1 DEF agentSecureAppPipelines, Splits
<1>2. CASE p \in agentLogsPipeline(v) \cup agentHostLogsPipeline(v)
  BY <1>2 DEF agentLogsPipeline, agentHostLogsPipeline
<1>3. CASE p \in agentTracesPipeline(v) \cup agentMetricsPipeline(v)
  BY <1>3 DEF agentTracesPipeline, agentMetricsPipeline
<1>4. CASE p \in agentOwnMetricsPipeline(v)
  BY <1>4 DEF agentOwnMetricsPipeline
<1>5. CASE p \in agentO11yPipelines(v)
  BY <1>5 DEF agentO11yPipelines, When
<1> QED BY <1>1, <1>2, <1>3, <1>4, <1>5 DEF agentPipelines, When

\* What the gateway's pipelines do to the name.
LEMMA GatewayNames ==
  ASSUME NEW v, clusterNameGiven(v), NEW p \in gatewayPipelines(v)
  PROVE  \/ Settles(v, p.processors)
         \/ Splits(p)
         \/ p.receivers = {"prometheus/collector"}
         \/ /\ Keeps(v, p.processors) /\ p.signal = "logs"
            /\ \/ p.name = "logs/entities"
                  /\ p.receivers = IF sharedLogsPipeline(v) THEN {"routing/logs"} ELSE {"otlp"}
               \/ p.name = "logs"
                  /\ p.receivers = IF splunkO11yEnabled(v) THEN {"routing/logs"} ELSE {"otlp"}
<1> USE PipelineProcessors, GatewayStepsSettle, PlainLists
<1>1. CASE p \in gatewayTracesPipeline(v) \cup gatewayMetricsPipeline(v)
  BY <1>1 DEF gatewayTracesPipeline, gatewayMetricsPipeline
<1>2. CASE p \in gatewayO11yPipelines(v)
  BY <1>2 DEF gatewayO11yPipelines, When
<1>3. CASE p \in gatewayLogsPipelines(v)
  BY <1>3 DEF gatewayLogsPipelines, When, Splits
<1>4. CASE p \in gatewayOwnMetricsPipeline(v)
  BY <1>4 DEF gatewayOwnMetricsPipeline
<1> QED BY <1>1, <1>2, <1>3, <1>4 DEF gatewayPipelines, When

\* What the cluster receiver's pipelines do to the name.
LEMMA ClusterNames ==
  ASSUME NEW v, clusterNameGiven(v), NEW p \in clusterReceiverPipelines(v)
  PROVE  \/ Settles(v, p.processors)
         \/ p.receivers = {"prometheus/k8s_cluster_receiver"}
<1> USE PipelineProcessors, ClusterStepsSettle
<1>1. CASE p \in clusterMetricsPipelines(v)
  BY <1>1 DEF clusterMetricsPipelines, When
<1>2. CASE p \in clusterEventsPipeline(v) \cup clusterObjectsPipeline(v)
  BY <1>2 DEF clusterEventsPipeline, clusterObjectsPipeline
<1>3. CASE p \in clusterInfraEventsPipeline(v) \cup clusterHistogramsPipeline(v)
                 \cup clusterEntitiesPipeline(v)
  BY <1>3 DEF clusterInfraEventsPipeline, clusterHistogramsPipeline, clusterEntitiesPipeline
<1> QED BY <1>1, <1>2, <1>3 DEF clusterReceiverPipelines, When

\* What ClusterNamed makes an exception of.
Exempt(v, k) ==
  \/ k \in OwnMetrics
  \/ EntryCollector(v, k) = "gateway" /\ k \in {"otlp_log", "profile"}

\* A copy that has been in no pipeline yet but the one before the connector.
Unnamed(v, k, c) == c.at = EntryCollector(v, k) /\ c.via \in {Sources[k][2], "routing/logs"}

\* Every copy has its name after its first pipeline.
NameInv ==
  /\ FlowInv /\ clusterNameGiven(values)
  /\ Exempt(values, kind) \/
       /\ \A c \in copies : /\ "name" \in DOMAIN c
                            /\ c.name = RightName(values) \/ Unnamed(values, kind, c)
       /\ \A a \in arrived : a.name = RightName(values)

\* The name of what a pipeline sends.
LEMMA SentName ==
  ASSUME NEW c, NEW p, NEW e
  PROVE  /\ "name" \in DOMAIN Sent(c, p, e)
         /\ Sent(c, p, e).name = NameAfter(values, c.name, p.processors)
  BY DEF Sent

\* A pipeline that a copy goes through gives it its name, keeps the one it
\* has, or only hands it on to the connector.
LEMMA PipelineNames ==
  ASSUME NameInv, ~Exempt(values, kind), NEW c \in copies, c.at \in Collectors,
         NEW p \in PipelinesOf(c)
  PROVE  \/ Settles(values, p.processors)
         \/ Splits(p)
         \/ Keeps(values, p.processors) /\ c.name = RightName(values)
<1>1. /\ Course(values, kind, c.at, c.via)
      /\ c.name = RightName(values) \/ Unnamed(values, kind, c)
      /\ RealmGiven(values) /\ kind \in Produced(values) /\ kind \in DOMAIN Sources
      /\ clusterNameGiven(values) /\ kind \notin OwnMetrics
  BY DEF NameInv, FlowInv, Produced, Exempt
<1>2. /\ p \in Config(c.at, values).pipelines
      /\ p.signal = Sources[kind][3] /\ c.via \in p.receivers
      /\ c.via = "routing/logs" => p.name \in Routes(c.at, values, kind)
  BY DEF PipelinesOf
<1>3. CASE c.at = "agent"
  <2>1. p \in agentPipelines(values)
    BY <1>2, <1>3, AgentFields DEF Config
  <2>2. c.via # "prometheus/agent"
    BY <1>1, <1>3, SourceCases DEF Course, SourceIs, OwnMetrics
  <2> QED BY <1>1, <1>2, <2>1, <2>2, AgentNames
<1>4. CASE c.at = "gateway"
  <2>1. p \in gatewayPipelines(values) /\ Routes(c.at, values, kind) = gatewayRoutes(values, kind)
    BY <1>2, <1>4, GatewayFields DEF Config, Routes
  <2>2. c.via # "prometheus/collector"
    BY <1>1, <1>4, SourceCases DEF Course, SourceIs, OwnMetrics
  <2>3. CASE c.name = RightName(values)
    BY <1>1, <1>2, <2>1, <2>2, <2>3, GatewayNames
  <2>4. CASE Unnamed(values, kind, c) /\ p.signal = "logs"
    <3>1. kind = "secureapp"
      BY <1>1, <1>2, <1>4, <2>4, SourceCases
         DEF Unnamed, SourceIs, EntryCollector, FromApplications, Exempt
    <3>2. splunkO11yEnabled(values) /\ sharedLogsPipeline(values) /\ "secureApp" \in values
      BY <1>1, <3>1 DEF Produced, RealmGiven, sharedLogsPipeline
    <3>3. gatewayRoutes(values, kind) = {"logs/secureapp"}
      BY <3>1, <3>2 DEF gatewayRoutes
    <3> QED BY <1>1, <1>2, <2>1, <2>2, <3>2, <3>3, GatewayNames
  <2> QED BY <1>1, <1>2, <2>1, <2>2, <2>3, <2>4, GatewayNames
<1>5. CASE c.at = "clusterReceiver"
  <2>1. p \in clusterReceiverPipelines(values)
    BY <1>2, <1>5, ClusterFields DEF Config
  <2>2. c.via # "prometheus/k8s_cluster_receiver"
    BY <1>1, <1>5, SourceCases DEF Course, SourceIs, OwnMetrics
  <2> QED BY <1>1, <1>2, <2>1, <2>2, ClusterNames
<1> QED BY <1>3, <1>4, <1>5 DEF Collectors

\* What a collector makes of a copy has its name, or is still before the
\* connector.
LEMMA OutputsNamed ==
  ASSUME NameInv, ~Exempt(values, kind), NEW c \in copies, c.at \in Collectors,
         NEW o \in Outputs(c)
  PROVE  "name" \in DOMAIN o /\ (o.name = RightName(values) \/ Unnamed(values, kind, o))
<1>1. /\ "at" \in DOMAIN c /\ "name" \in DOMAIN c /\ Course(values, kind, c.at, c.via)
      /\ c.name = RightName(values) \/ Unnamed(values, kind, c)
      /\ kind \in DOMAIN Sources
  BY DEF NameInv, FlowInv, Produced
<1>2. CASE c.via = "forwarder"
  <2>1. o = [c EXCEPT !.at = "o11y ingest"]
    BY <1>2 DEF Outputs
  <2>2. c.name = RightName(values)
    BY <1>1, <1>2, SourceCases DEF Unnamed, SourceIs
  <2> QED BY <1>1, <2>1, <2>2
<1>3. CASE c.via # "forwarder"
  <2>1. PICK p \in PipelinesOf(c) :
          \E e \in p.exporters : ~Excludes(e, kind) /\ o = Sent(c, p, e)
    BY <1>3 DEF Outputs
  <2>2. PICK e \in p.exporters : ~Excludes(e, kind) /\ o = Sent(c, p, e)
    BY <2>1
  <2>3. "name" \in DOMAIN o /\ o.name = NameAfter(values, c.name, p.processors)
    BY <2>2, SentName
  <2>4. CASE Settles(values, p.processors)
    BY <2>3, <2>4 DEF Settles
  <2>5. CASE Keeps(values, p.processors) /\ c.name = RightName(values)
    BY <2>3, <2>5 DEF Keeps
  <2>6. CASE Splits(p)
    <3>1. NameAfter(values, c.name, p.processors) = c.name
      <4>1. Keeps(values, <<>>)
        BY PlainLists
      <4> QED BY <2>6, <4>1 DEF Splits, Keeps
    <3>2. e = "routing/logs"
      BY <2>2, <2>6 DEF Splits
    <3>3. o.at = c.at /\ o.via = "routing/logs"
      BY <2>2, <3>2, SentFields
    <3> QED BY <1>1, <2>3, <3>1, <3>3 DEF Unnamed
  <2> QED BY <2>4, <2>5, <2>6, PipelineNames
<1> QED BY <1>2, <1>3

\* Every copy gets its name in the first pipeline and keeps it.
THEOREM NamedOnTheWay == Spec => []NameInv
<1>1. Init => FlowInv
  BY DEF Init, FlowInv
<1>2. Init => NameInv
  BY <1>1 DEF Init, NameInv, Installable, SchemaAccepts
<1>3. NameInv /\ FlowInv' /\ [Next]_vars => NameInv'
  <2> SUFFICES ASSUME NameInv, FlowInv', [Next]_vars PROVE NameInv'
    OBVIOUS
  <2>1. ASSUME UNCHANGED <<values, kind, copies, arrived>> PROVE NameInv'
    BY <2>1 DEF NameInv
  <2>2. ASSUME NEW w \in Collectors, Start(w) PROVE NameInv'
    BY <2>1, <2>2 DEF Start
  <2>3. CASE UNCHANGED vars
    BY <2>1, <2>3 DEF vars
  <2>4. CASE Emit
    <3>1. UNCHANGED <<values, kind, arrived>>
      BY <2>4 DEF Emit
    <3>2. \A c \in copies' : /\ "name" \in DOMAIN c
                             /\ c.at = EntryCollector(values, kind) /\ c.via = Sources[kind][2]
      BY <2>4 DEF Emit
    <3>3. \A c \in copies' : "name" \in DOMAIN c /\ Unnamed(values, kind, c)
      BY <3>2 DEF Unnamed
    <3> QED BY <3>1, <3>3 DEF NameInv
  <2>5. ASSUME NEW c \in copies, Pass(c) PROVE NameInv'
    <3>1. UNCHANGED <<values, kind>> /\ c.at \in Collectors /\ clusterNameGiven(values)
      BY <2>5 DEF Pass, NameInv
    <3>2. CASE Exempt(values, kind)
      BY <3>1, <3>2 DEF NameInv
    <3>3. CASE ~Exempt(values, kind)
      <4>1. EntryCollector(values, kind) \in Collectors
        <5>1. kind \in DOMAIN Sources
          BY DEF NameInv, FlowInv, Produced
        <5> QED BY <5>1, SourceCases DEF EntryCollector, Collectors, SourceIs
      <4>2. \A d \in copies' : d \in copies \/ d \in Outputs(c)
        BY <2>5 DEF Pass
      <4>3. \A a \in arrived' : a \in arrived \/ (a \in Outputs(c) /\ a.at \notin Collectors)
        BY <2>5 DEF Pass
      <4>4. \A d \in copies' : /\ "name" \in DOMAIN d
                               /\ d.name = RightName(values) \/ Unnamed(values, kind, d)
        BY <3>1, <3>3, <4>2, OutputsNamed DEF NameInv
      <4>5. \A a \in arrived' : a.name = RightName(values)
        BY <3>1, <3>3, <4>1, <4>3, OutputsNamed DEF NameInv, Unnamed
      <4> QED BY <3>1, <4>4, <4>5 DEF NameInv
    <3> QED BY <3>2, <3>3
  <2> QED BY <2>2, <2>3, <2>4, <2>5 DEF Next
<1> QED BY <1>2, <1>3, OnCourse, PTL DEF Spec

\* Whatever options are combined, what arrives carries the cluster name that
\* was given, or the detected one if none was, exceptions as in ClusterNamed.
THEOREM RightlyNamed == Spec => []ClusterNamed
<1>1. NameInv => ClusterNamed
  BY DEF NameInv, ClusterNamed, Exempt, RightName
<1> QED BY <1>1, NamedOnTheWay, PTL

-----------------------------------------------------------------------------
(* Once at every backend.                                                  *)

\* There is one pipeline of a name.
LEMMA PipelineOne ==
  ASSUME NEW name, NEW signal, NEW R, NEW P, NEW E
  PROVE  \A p, q \in Pipeline(name, signal, R, P, E) : p = q /\ p.name = name
  BY DEF Pipeline

\* The agent's pipelines have names of their own.
LEMMA AgentOne ==
  ASSUME NEW v, NEW p \in agentPipelines(v), NEW q \in agentPipelines(v), p.name = q.name
  PROVE  p = q
  BY PipelineOne DEF agentPipelines, agentSecureAppPipelines, agentLogsPipeline,
     agentHostLogsPipeline, agentTracesPipeline, agentMetricsPipeline, agentOwnMetricsPipeline,
     agentO11yPipelines, When

\* So have the gateway's.
LEMMA GatewayOne ==
  ASSUME NEW v, NEW p \in gatewayPipelines(v), NEW q \in gatewayPipelines(v), p.name = q.name
  PROVE  p = q
  BY PipelineOne DEF gatewayPipelines, gatewayTracesPipeline, gatewayMetricsPipeline,
     gatewayO11yPipelines, gatewayLogsPipelines, gatewayOwnMetricsPipeline, When

\* And the cluster receiver's.
LEMMA ClusterOne ==
  ASSUME NEW v, NEW p \in clusterReceiverPipelines(v), NEW q \in clusterReceiverPipelines(v),
         p.name = q.name
  PROVE  p = q
  BY PipelineOne DEF clusterReceiverPipelines, clusterMetricsPipelines, clusterEventsPipeline,
     clusterObjectsPipeline, clusterInfraEventsPipeline, clusterHistogramsPipeline,
     clusterEntitiesPipeline, When

\* What a pipeline takes, by its name: which receivers feed it.
AgentTakes(v, name, signal, via) ==
  \/ name = "logs/secureapp" /\ signal = "logs" /\ via = "routing/logs"
  \/ name = "logs/split" /\ signal = "logs" /\ via = "otlp" /\ "secureApp" \in v
  \/ name = "logs" /\ signal = "logs"
     /\ via \in {"file_log"} \cup (IF "secureApp" \in v THEN {"routing/logs"} ELSE {"otlp"})
  \/ name = "logs/host" /\ signal = "logs" /\ via \in {"extraFileLogs", "journald"}
  \/ name = "traces" /\ signal = "traces"
  \/ name = "metrics" /\ signal = "metrics"
     /\ via \in {"host_metrics", "kubelet_stats", "otlp", "prometheus/ta"}
                \cup When("useControlPlaneMetricsHistogramData" \notin v, {"receiver_creator"})
  \/ name = "metrics/agent" /\ signal = "metrics" /\ via = "prometheus/agent"
  \/ name = "logs/entities" /\ signal = "logs" /\ via = "nop"
  \/ name = "metrics/histograms" /\ signal = "metrics" /\ via = "receiver_creator"
     /\ "useControlPlaneMetricsHistogramData" \in v

\* A receiver feeds one pipeline of a signal, the connector the one it picks.
LEMMA AgentPicksOne ==
  ASSUME NEW v, NEW k, NEW via, NEW p \in agentPipelines(v), NEW q \in agentPipelines(v),
         p.signal = q.signal, via \in p.receivers, via \in q.receivers,
         via = "routing/logs" => p.name \in agentRoutes(v, k) /\ q.name \in agentRoutes(v, k)
  PROVE  p = q
<1>1. ASSUME NEW r \in agentPipelines(v), via \in r.receivers
      PROVE  AgentTakes(v, r.name, r.signal, via)
  <2> USE <1>1, PipelineIs DEF Is, When
  <2>1. CASE "secureApp" \in v /\ r \in agentSecureAppPipelines(v)
    BY <2>1 DEF agentSecureAppPipelines, AgentTakes
  <2>2. CASE r \in agentLogsPipeline(v)
    BY <2>2 DEF agentLogsPipeline, agentLogsReceivers, AgentTakes
  <2>3. CASE r \in agentHostLogsPipeline(v)
    BY <2>3 DEF agentHostLogsPipeline, hostLogReceivers, AgentTakes
  <2>4. CASE r \in agentTracesPipeline(v)
    BY <2>4 DEF agentTracesPipeline, AgentTakes
  <2>5. CASE r \in agentMetricsPipeline(v)
    BY <2>5 DEF agentMetricsPipeline, AgentTakes
  <2>6. CASE r \in agentOwnMetricsPipeline(v)
    BY <2>6 DEF agentOwnMetricsPipeline, AgentTakes
  <2>7. CASE r \in agentO11yPipelines(v)
    BY <2>7 DEF agentO11yPipelines, AgentTakes
  <2> QED BY <2>1, <2>2, <2>3, <2>4, <2>5, <2>6, <2>7 DEF agentPipelines
<1>2. via = "routing/logs" => p.name = q.name
  BY DEF agentRoutes, When
<1>3. p.name = q.name
  BY <1>1, <1>2 DEF AgentTakes, When
<1> QED BY <1>3, AgentOne

\* The same in the gateway, whose otlp receiver feeds the split, or the only
\* logs pipeline there is.
LEMMA GatewayPicksOne ==
  ASSUME NEW v, NEW k, NEW via, NEW p \in gatewayPipelines(v), NEW q \in gatewayPipelines(v),
         p.signal = q.signal, via \in p.receivers, via \in q.receivers,
         via = "routing/logs" => p.name \in gatewayRoutes(v, k) /\ q.name \in gatewayRoutes(v, k)
  PROVE  p = q
<1>1. via = "routing/logs" => p.name = q.name
  BY DEF gatewayRoutes
<1>2. p.name = q.name
  BY <1>1, GatewayPipelineCases DEF Is
<1> QED BY <1>2, GatewayOne

\* And in the cluster receiver.
LEMMA ClusterPicksOne ==
  ASSUME NEW v, NEW via, NEW p \in clusterReceiverPipelines(v),
         NEW q \in clusterReceiverPipelines(v),
         p.signal = q.signal, via \in p.receivers, via \in q.receivers
  PROVE  p = q
<1>1. p.name = q.name
  BY ClusterPipelineCases DEF Is
<1> QED BY <1>1, ClusterOne

\* A pipeline with several exporters ends at as many backends.
Apart(w, v, e, f) ==
  /\ e \notin ToGateway(w, v) \cup {"routing/logs"} /\ f \notin ToGateway(w, v) \cup {"routing/logs"}
  /\ Backend(e) # Backend(f)
  /\ Backend(e) \notin Collectors \cup {"nowhere"} /\ Backend(f) \notin Collectors \cup {"nowhere"}

Pair(e, f, a, b) == (e = a /\ f = b) \/ (e = b /\ f = a)

\* The pipelines of the agent.
LEMMA AgentExportersApart ==
  ASSUME NEW v, NEW k, NEW p \in agentPipelines(v), NEW e \in p.exporters, NEW f \in p.exporters,
         ~Excludes(e, k), ~Excludes(f, k), e # f
  PROVE  Apart("agent", v, e, f)
<1> DEFINE Wanted ==
      /\ "gateway" \notin v
      /\ \/ Pair(e, f, "splunk_hec/o11y", "splunk_hec/platform_logs")
         \/ Pair(e, f, "splunk_hec/o11y", "otlp/platform_logs")
         \/ Pair(e, f, "otlp_http", "splunk_hec/platform_traces")
         \/ Pair(e, f, "signalfx", "splunk_hec/platform_metrics")
<1>1. /\ e # "signalfx/host_metadata" /\ f # "signalfx/host_metadata"
      /\ otlpOrHecPlatformLogs(v) \in {{}, {"splunk_hec/platform_logs"}, {"otlp/platform_logs"}}
  BY DEF Excludes, otlpOrHecPlatformLogs, When
<1>2. Wanted
  <2> USE PipelineIs DEF Is, When, toGatewayOr, Pair
  <2>1. p \notin agentSecureAppPipelines(v) /\ p \notin agentO11yPipelines(v)
    BY DEF agentSecureAppPipelines, agentO11yPipelines
  <2>2. CASE p \in agentLogsPipeline(v)
    BY <1>1, <2>2 DEF agentLogsPipeline
  <2>3. CASE p \in agentHostLogsPipeline(v)
    BY <1>1, <2>3 DEF agentHostLogsPipeline
  <2>4. CASE p \in agentTracesPipeline(v)
    BY <2>4 DEF agentTracesPipeline
  <2>5. CASE p \in agentMetricsPipeline(v)
    BY <1>1, <2>5 DEF agentMetricsPipeline
  <2>6. CASE p \in agentOwnMetricsPipeline(v)
    BY <2>6 DEF agentOwnMetricsPipeline
  <2> HIDE DEF Wanted
  <2> QED BY <2>1, <2>2, <2>3, <2>4, <2>5, <2>6 DEF agentPipelines
<1>3. ToGateway("agent", v) = {}
  BY <1>2 DEF ToGateway, When
<1> QED BY <1>2, <1>3 DEF Apart, Backend, Collectors, Pair

\* The pipelines of the gateway.
LEMMA GatewayExportersApart ==
  ASSUME NEW v, NEW p \in gatewayPipelines(v), NEW e \in p.exporters, NEW f \in p.exporters,
         e # f
  PROVE  Apart("gateway", v, e, f)
<1>1. ToGateway("gateway", v) = {}
  BY DEF ToGateway, When
<1>2. \/ Pair(e, f, "splunk_hec/o11y", "splunk_hec/platform_logs")
      \/ Pair(e, f, "splunk_hec/o11y", "otlp/platform_logs")
      \/ Pair(e, f, "otlp_http", "splunk_hec/platform_traces")
      \/ Pair(e, f, "signalfx", "splunk_hec/platform_metrics")
  BY GatewayPipelineCases DEF Is, When, otlpOrHecPlatformLogs, Pair
<1> QED BY <1>1, <1>2 DEF Apart, Backend, Collectors, Pair

\* The pipelines of the cluster receiver.
LEMMA ClusterExportersApart ==
  ASSUME NEW v, NEW p \in clusterReceiverPipelines(v), NEW e \in p.exporters, NEW f \in p.exporters,
         e # f
  PROVE  Apart("clusterReceiver", v, e, f)
<1>1. ToGateway("clusterReceiver", v) = {}
  BY DEF ToGateway, When
<1>2. \/ Pair(e, f, "otlp_http/o11y_events", "splunk_hec/platform_logs")
      \/ Pair(e, f, "otlp_http/o11y_events", "otlp/platform_logs")
      \/ Pair(e, f, "otlp_http/o11y_entities", "signalfx")
      \/ Pair(e, f, "signalfx", "splunk_hec/platform_metrics")
  BY ClusterPipelineCases DEF Is, When, otlpOrHecPlatformLogs, Pair, clusterLogsExporters,
     clusterMetricsExporters
<1> QED BY <1>1, <1>2 DEF Apart, Backend, Collectors, Pair

\* A copy stays alone until it is split up for several backends, and then
\* there is nothing else under way.
OnceInv ==
  /\ ~emitted => copies = {} /\ arrived = {}
  /\ \A c \in copies : copies = {c} /\ arrived = {}
  /\ NeverTwice

\* What a collector makes of a copy: one copy, or several for as many backends.
LEMMA OutputsApart ==
  ASSUME NEW c, c.at \in Collectors, NEW o \in Outputs(c), NEW u \in Outputs(c), o # u
  PROVE  /\ o.at # u.at
         /\ o.at \notin Collectors \cup {"nowhere"} /\ u.at \notin Collectors \cup {"nowhere"}
<1>1. c.via # "forwarder"
  BY DEF Outputs
<1>2. PICK p \in PipelinesOf(c) : \E e \in p.exporters : ~Excludes(e, kind) /\ o = Sent(c, p, e)
  BY <1>1 DEF Outputs
<1>3. PICK e \in p.exporters : ~Excludes(e, kind) /\ o = Sent(c, p, e)
  BY <1>2
<1>4. PICK q \in PipelinesOf(c) : \E f \in q.exporters : ~Excludes(f, kind) /\ u = Sent(c, q, f)
  BY <1>1 DEF Outputs
<1>5. PICK f \in q.exporters : ~Excludes(f, kind) /\ u = Sent(c, q, f)
  BY <1>4
<1>6. ASSUME NEW r \in PipelinesOf(c)
      PROVE  /\ r \in Config(c.at, values).pipelines
             /\ r.signal = Sources[kind][3] /\ c.via \in r.receivers
             /\ c.via = "routing/logs" => r.name \in Routes(c.at, values, kind)
  BY DEF PipelinesOf
<1>7. p = q /\ (e # f => Apart(c.at, values, e, f))
  <2>1. CASE c.at = "agent"
    <3>1. p \in agentPipelines(values) /\ q \in agentPipelines(values)
      BY <1>6, <2>1, AgentFields DEF Config
    <3>2. p = q
      BY <1>6, <2>1, <3>1, AgentPicksOne DEF Routes
    <3> QED BY <1>3, <1>5, <2>1, <3>1, <3>2, AgentExportersApart
  <2>2. CASE c.at = "gateway"
    <3>1. p \in gatewayPipelines(values) /\ q \in gatewayPipelines(values)
      BY <1>6, <2>2, GatewayFields DEF Config
    <3>2. p = q
      BY <1>6, <2>2, <3>1, GatewayPicksOne DEF Routes
    <3> QED BY <2>2, <3>1, <3>2, GatewayExportersApart
  <2>3. CASE c.at = "clusterReceiver"
    <3>1. p \in clusterReceiverPipelines(values) /\ q \in clusterReceiverPipelines(values)
      BY <1>6, <2>3, ClusterFields DEF Config
    <3>2. p = q
      BY <1>6, <3>1, ClusterPicksOne
    <3> QED BY <2>3, <3>1, <3>2, ClusterExportersApart
  <2> QED BY <2>1, <2>2, <2>3 DEF Collectors
<1>8. e # f
  BY <1>3, <1>5, <1>7
<1>9. o.at = Backend(e) /\ u.at = Backend(f)
  BY <1>3, <1>5, <1>7, <1>8, SentFields DEF Apart
<1> QED BY <1>7, <1>8, <1>9 DEF Apart

\* There is one copy under way, until there are only copies at backends.
THEOREM OneCopyUnderWay == Spec => []OnceInv
<1>1. Init => OnceInv
  BY DEF Init, OnceInv, NeverTwice
<1>2. OnceInv /\ [Next]_vars => OnceInv'
  <2> SUFFICES ASSUME OnceInv, [Next]_vars PROVE OnceInv'
    OBVIOUS
  <2>1. ASSUME UNCHANGED <<emitted, copies, arrived>> PROVE OnceInv'
    BY <2>1 DEF OnceInv, NeverTwice
  <2>2. ASSUME NEW w \in Collectors, Start(w) PROVE OnceInv'
    BY <2>1, <2>2 DEF Start
  <2>3. CASE UNCHANGED vars
    BY <2>1, <2>3 DEF vars
  <2>4. CASE Emit
    <3>1. emitted' /\ arrived' = {} /\ \E c : copies' = {c}
      BY <2>4 DEF Emit, OnceInv
    <3> QED BY <3>1 DEF OnceInv, NeverTwice
  <2>5. ASSUME NEW c \in copies, Pass(c) PROVE OnceInv'
    <3>1. copies = {c} /\ arrived = {} /\ emitted /\ emitted' = emitted /\ c.at \in Collectors
      BY <2>5 DEF Pass, OnceInv
    <3>2. /\ copies' = {o \in Outputs(c) : o.at \in Collectors \cup {"nowhere"}}
          /\ arrived' = {o \in Outputs(c) : o.at \notin Collectors \cup {"nowhere"}}
      BY <2>5, <3>1 DEF Pass
    <3>3. \A a, b \in arrived' : a.at = b.at => a = b
      BY <3>1, <3>2, OutputsApart
    <3>4. \A d \in copies' : copies' = {d} /\ arrived' = {}
      BY <3>1, <3>2, OutputsApart
    <3> QED BY <3>1, <3>3, <3>4 DEF OnceInv, NeverTwice
  <2> QED BY <2>2, <2>3, <2>4, <2>5 DEF Next
<1> QED BY <1>1, <1>2, PTL DEF Spec

\* Whatever options are combined, no backend gets an item twice.
THEOREM OnceEach == Spec => []NeverTwice
<1>1. OnceInv => NeverTwice
  BY DEF OnceInv
<1> QED BY <1>1, OneCopyUnderWay, PTL
=============================================================================
