-------------------------- MODULE MCTelemetryFlow --------------------------
(* Families of installations for TLC: the options that matter to a signal *)
(* are varied together, the others keep the value most tests give them.   *)
EXTENDS TelemetryFlow

\* The options that decide which components are rendered.
Starts ==
  [fixed |-> {"agent", "clusterReceiver", "containers"},
   varied |-> {"platform", "platform.logs", "platform.metrics", "otlpIngest",
              "o11y", "o11y.metrics", "o11y.traces", "profiling", "secureApp",
              "gateway", "extraFileLogs", "events", "enableK8sEntities",
              "infraEvents", "clusterName", "openshift", "remoteManagement"},
   kinds |-> {"agent_metric"}]

\* The options that decide which processors, extensions and queues are used.
Settings ==
  [fixed |-> {"agent", "clusterReceiver", "clusterName", "containers", "events",
              "extraFileLogs", "platform.logs", "o11y.traces"},
   varied |-> {"platform", "platform.metrics", "otlpIngest", "o11y", "gateway",
              "persistentQueue", "renameFieldsSck", "sourcetype", "targetallocator",
              "noDropLogsPipeline", "autodetect.istio", "environment",
              "extraAttributes", "isWindows", "useControlPlaneMetricsHistogramData"},
   kinds |-> {"agent_metric"}]

\* Distributions that detect the name of the cluster, and a given name.
Names ==
  [fixed |-> {"clusterReceiver", "containers", "autodetect.prometheus",
              "extraFileLogs", "journald", "platform.logs", "o11y.metrics",
              "o11y.traces", "platform.metrics", "events", "k8sObjects",
              "enableK8sEntities"},
   varied |-> {"platform", "otlpIngest", "o11y", "profiling", "secureApp", "infraEvents",
              "gateway", "agent", "useControlPlaneMetricsHistogramData",
              "openshift", "gke", "eks", "clusterName"},
   kinds |-> {"container_log", "file_log", "journald_log", "otlp_log", "profile",
              "secureapp", "entity", "trace", "host_metric", "scraped_metric",
              "cluster_metric", "k8s_event", "k8s_object", "infra_event",
              "k8s_entity"}]

\* Logs, and what travels as logs, from nodes and applications.
Logs ==
  [fixed |-> {"clusterName", "containers", "platform.logs", "o11y.traces"},
   varied |-> {"platform", "otlpIngest", "o11y", "o11y.metrics", "profiling",
              "secureApp", "gateway", "agent", "extraFileLogs", "journald"},
   kinds |-> {"container_log", "file_log", "journald_log", "otlp_log", "profile",
              "secureapp", "entity"}]

\* Traces.
Traces ==
  [fixed |-> {"clusterName", "platform.logs"},
   varied |-> {"platform", "platform.metrics", "platform.traces", "otlpIngest",
              "o11y", "o11y.metrics", "o11y.traces", "profiling", "gateway",
              "agent"},
   kinds |-> {"trace"}]

\* Metrics of nodes, pods and collectors.
Metrics ==
  [fixed |-> {"clusterName", "platform.logs", "autodetect.prometheus", "profiling"},
   varied |-> {"platform", "platform.metrics", "o11y", "o11y.metrics",
              "o11y.traces", "gateway", "agent", "remoteManagement",
              "useControlPlaneMetricsHistogramData"},
   kinds |-> {"host_metric", "scraped_metric", "agent_metric", "gateway_metric"}]

\* What the cluster receiver collects.
Cluster ==
  [fixed |-> {"clusterReceiver", "clusterName", "platform.logs", "k8sObjects",
              "o11y.traces"},
   varied |-> {"platform", "platform.metrics", "otlpIngest", "o11y",
              "o11y.metrics", "events", "sendK8sEventsToSplunkO11y",
              "enableK8sEntities", "useEntityEventsForK8sProperties",
              "infraEvents", "eks/fargate", "enableEKSApiServerMetrics"},
   kinds |-> {"cluster_metric", "receiver_metric", "fargate_metric",
              "apiserver_metric", "k8s_event", "k8s_object", "infra_event",
              "k8s_entity"}]

AllFamilies == {Starts, Settings, Names, Logs, Traces, Metrics, Cluster}
=============================================================================
