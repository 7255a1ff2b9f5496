---------------------------- MODULE TelemetryFlow ----------------------------
(***************************************************************************)
(* What becomes of a piece of telemetry in an installed chart: the         *)
(* collectors start in any order with the configuration rendered for them  *)
(* (CollectorConfig), and one item passes from pipeline to pipeline, is    *)
(* copied where a pipeline has several exporters or a receiver feeds       *)
(* several pipelines, and ends at the backends, or is lost.                *)
(*                                                                         *)
(* Retries are not modelled: an exporter whose peer is not running yet     *)
(* waits, one whose peer does not listen on the port waits for ever.       *)
(***************************************************************************)
EXTENDS CollectorConfig, Integers

CONSTANT
  Families  \* the installations considered: options that are on (fixed), options
            \* that may be on or off (varied), and the kinds of telemetry (kinds)

Collectors == {"agent", "gateway", "clusterReceiver"}

\* Where each kind of telemetry enters and the signal it is.
Sources ==
  [container_log    |-> <<"agent", "file_log", "logs">>,
   file_log         |-> <<"agent", "extraFileLogs", "logs">>,
   journald_log     |-> <<"agent", "journald", "logs">>,
   otlp_log         |-> <<"agent", "otlp", "logs">>,
   profile          |-> <<"agent", "otlp", "logs">>,
   secureapp        |-> <<"agent", "otlp", "logs">>,
   entity           |-> <<"agent", "nop", "logs">>,
   trace            |-> <<"agent", "otlp", "traces">>,
   host_metric      |-> <<"agent", "host_metrics", "metrics">>,
   scraped_metric   |-> <<"agent", "receiver_creator", "metrics">>,
   agent_metric     |-> <<"agent", "prometheus/agent", "metrics">>,
   gateway_metric   |-> <<"gateway", "prometheus/collector", "metrics">>,
   cluster_metric   |-> <<"clusterReceiver", "k8s_cluster", "metrics">>,
   receiver_metric  |-> <<"clusterReceiver", "prometheus/k8s_cluster_receiver", "metrics">>,
   fargate_metric   |-> <<"clusterReceiver", "receiver_creator", "metrics">>,
   apiserver_metric |-> <<"clusterReceiver", "prometheus/kubernetes-apiserver", "metrics">>,
   k8s_event        |-> <<"clusterReceiver", "k8s_events", "logs">>,
   k8s_object       |-> <<"clusterReceiver", "k8s_objects", "logs">>,
   infra_event      |-> <<"clusterReceiver", "smartagent/kubernetes-events", "logs">>,
   k8s_entity       |-> <<"clusterReceiver", "k8s_cluster", "logs">>]

ASSUME FlowAssumption ==
  \A f \in Families :
    /\ f.fixed \subseteq Options
    /\ f.varied \subseteq Options
    /\ f.kinds \subseteq DOMAIN Sources

\* Applications send to the agent, or to the gateway if there is no agent.
FromApplications == {"otlp_log", "profile", "secureapp", "trace"}

\* What the collectors report about themselves.
OwnMetrics == {"agent_metric", "gateway_metric", "receiver_metric"}

EntryCollector(v, k) ==
  IF k \in FromApplications /\ "agent" \notin Deployed(v) THEN "gateway" ELSE Sources[k][1]

\* SecureApp and infrastructure monitoring events belong to Observability Cloud;
\* without its realm their exporters have no endpoint.  Not considered.
RealmGiven(v) == v \cap {"secureApp", "infraEvents"} # {} => splunkO11yEnabled(v)

\* The kinds an installation produces at all.
Produced(v) ==
  {k \in DOMAIN Sources :
    /\ EntryCollector(v, k) \in Deployed(v)
    /\ k = "secureapp" => "secureApp" \in v
    /\ k = "scraped_metric" => autodetectsPrometheus(v)}

-----------------------------------------------------------------------------
(* The promise: the backends the values ask for.  "o11y ingest" is what the *)
(* signalfx exporter sends to: metrics, events and properties.             *)

metricsBackends(v) ==
  When(o11yMetricsEnabled(v), {"o11y ingest"})
  \cup When(platformMetricsEnabled(v), {"platform metrics"})

clusterLogsBackends(v) ==
  When(logsEnabled(v), {"platform logs"})
  \cup When(splunkO11yEventsEndpointEnabled(v), {"o11y events"})

Promised(v, k) ==
  CASE k = "container_log" -> When(logsEnabled(v) /\ "containers" \in v, {"platform logs"})
    [] k = "file_log" -> When(logsEnabled(v) /\ "extraFileLogs" \in v, {"platform logs"})
    [] k = "journald_log" -> When(logsEnabled(v) /\ "journald" \in v, {"platform logs"})
    [] k = "otlp_log" -> When(logsEnabled(v), {"platform logs"})
    [] k = "profile" -> When(profilingEnabled(v), {"o11y profiling"})
    [] k = "secureapp" -> When(splunkO11yEnabled(v), {"o11y events"})
    [] k = "entity" -> When(splunkO11yEnabled(v), {"o11y events"})
    [] k = "trace" -> When(o11yTracesEnabled(v), {"o11y traces"})
                      \cup When(platformTracesEnabled(v), {"platform traces"})
    [] k = "apiserver_metric" ->
         When(o11yMetricsEnabled(v) /\ apiServerMetricsEnabled(v), {"o11y ingest"})
    [] k = "fargate_metric" -> When(isFargate(v), metricsBackends(v))
    [] k = "k8s_event" -> When("events" \in v, clusterLogsBackends(v))
    [] k = "k8s_object" -> When("k8sObjects" \in v, clusterLogsBackends(v))
    [] k = "infra_event" -> When("infraEvents" \in v /\ splunkO11yEnabled(v), {"o11y ingest"})
    [] k = "k8s_entity" -> When(k8sEntitiesEnabled(v), {"o11y events"})
                           \cup When(entityEventsForProperties(v), {"o11y ingest"})
    [] OTHER -> metricsBackends(v)

-----------------------------------------------------------------------------
(* Exporters.                                                              *)

\* The port of the gateway's service an exporter of the agent sends to.
GatewayPort(e) ==
  CASE e = "otlp_grpc" -> 4317
    [] e = "otlp_http/entities" -> 4318
    [] OTHER -> 9943

\* The exporters of the agent that send to the gateway.
ToGateway(w, v) ==
  When(w = "agent" /\ "gateway" \in v,
       {"otlp_grpc", "otlp_http/entities", "signalfx", "signalfx/histograms"})

\* The extension that listens on the port; the otlp receiver always does.
Listens(v, port) ==
  port = 9943 => "http_forwarder/o11y_ingest" \in gatewayStarted(v)

\* Where a collector opens its OpAMP session; the gateway goes to the backend.
OpampTarget(w, v) ==
  IF w # "gateway" /\ "gateway" \in v THEN "gateway" ELSE "o11y ingest"

\* The collectors whose configuration starts the OpAMP extension.
OpensOpamp(v) ==
  LET started == [agent |-> agentStarted(v), gateway |-> gatewayStarted(v),
                  clusterReceiver |-> clusterReceiverStarted(v)]
  IN  {w \in Collectors : "opamp/splunk_o11y" \in started[w]}

Backend(e) ==
  CASE e \in {"signalfx", "signalfx/histograms"} -> "o11y ingest"
    [] e = "otlp_http" -> "o11y traces"
    [] e = "splunk_hec/o11y" -> "o11y profiling"
    [] e \in {"otlp_http/entities", "otlp_http/secureapp", "otlp_http/o11y_events",
              "otlp_http/o11y_entities"} -> "o11y events"
    [] e \in {"splunk_hec/platform_logs", "otlp/platform_logs"} -> "platform logs"
    [] e = "splunk_hec/platform_metrics" -> "platform metrics"
    [] e = "splunk_hec/platform_traces" -> "platform traces"

\* log_data_enabled, profiling_data_enabled and exclude_metrics: what an
\* exporter leaves out.
Excludes(e, k) ==
  \/ e = "splunk_hec/o11y" /\ k # "profile"
  \/ e = "splunk_hec/platform_logs" /\ k = "profile"
  \/ e = "signalfx/host_metadata"

Routes(w, v, k) == IF w = "agent" THEN agentRoutes(v, k) ELSE gatewayRoutes(v, k)

-----------------------------------------------------------------------------
(* Processors that set k8s.cluster.name; each overwrites what it finds.    *)

DetectsClusterName(v) ==
  \/ v \cap {"gke", "eks"} # {} /\ "clusterName" \notin v
  \/ "openshift" \in v

NameSet(v, processor) ==
  CASE processor \in {"resource", "resource/add_cluster_name"} /\ "clusterName" \in v -> "given"
    [] processor = "resource_detection" /\ DetectsClusterName(v) -> "detected"
    [] processor = "resource_detection/k8s_cluster_name" -> "detected"
    [] OTHER -> "none"

\* The name after a pipeline: that of the last processor that sets one.
NameAfter(v, name, processors) ==
  LET setters == {i \in DOMAIN processors : NameSet(v, processors[i]) # "none"}
  IN IF setters = {} THEN name
     ELSE NameSet(v, processors[CHOOSE i \in setters : \A j \in setters : j =< i])

\* service.telemetry.resource puts the name on a collector's own metrics.
NameAtSource(v, k) ==
  IF k \in OwnMetrics /\ "clusterName" \in v
  THEN "given" ELSE "none"

-----------------------------------------------------------------------------

VARIABLES
  values,    \* the options of the installation
  kind,      \* the kind of the item that is followed
  status,    \* each collector: absent, starting, running or rejected
  accepted,  \* the collectors that can run the configuration rendered for them
  emitted,   \* the item has entered
  copies,    \* its copies under way: where, through which receiver, so far
  arrived    \* its copies at the backends

vars == <<values, kind, status, accepted, emitted, copies, arrived>>

Init ==
  /\ \E f \in Families : \E options \in SUBSET f.varied :
       values = f.fixed \cup options /\ kind \in f.kinds
  /\ Installable(values) /\ RealmGiven(values)
  /\ kind \in Produced(values)
  /\ status = [w \in Collectors |-> IF w \in Deployed(values) THEN "starting" ELSE "absent"]
  /\ accepted = {w \in Deployed(values) : Loads(w, values)}
  /\ emitted = FALSE
  /\ copies = {}
  /\ arrived = {}

\* A collector's pod starts: the collector runs its configuration or exits.
Start(w) ==
  /\ status[w] = "starting"
  /\ status' = [status EXCEPT ![w] = IF w \in accepted THEN "running" ELSE "rejected"]
  /\ UNCHANGED <<values, kind, accepted, emitted, copies, arrived>>

Emit ==
  /\ ~emitted
  /\ status[EntryCollector(values, kind)] = "running"
  /\ emitted' = TRUE
  /\ copies' = {[at |-> EntryCollector(values, kind), via |-> Sources[kind][2],
                 name |-> NameAtSource(values, kind), path |-> <<>>]}
  /\ UNCHANGED <<values, kind, accepted, status, arrived>>

\* The pipelines a copy goes through; a connector picks among its own.
PipelinesOf(c) ==
  {p \in Config(c.at, values).pipelines :
    /\ p.signal = Sources[kind][3]
    /\ c.via \in p.receivers
    /\ c.via = "routing/logs" => p.name \in Routes(c.at, values, kind)}

\* What comes out of a pipeline's exporter.
Sent(c, p, e) ==
  LET name == NameAfter(values, c.name, p.processors)
      path == Append(c.path, <<c.at, p.name, e>>)
      reachable == GatewayPort(e) \in gatewayServicePorts(values) /\ Listens(values, GatewayPort(e))
  IN [name |-> name, path |-> path,
      at |-> IF e = "routing/logs" THEN c.at
             ELSE IF e \in ToGateway(c.at, values)
             THEN IF reachable THEN "gateway" ELSE "nowhere"
             ELSE Backend(e),
      via |-> IF e = "routing/logs" THEN e
              ELSE IF e \in {"signalfx", "signalfx/histograms"} THEN "forwarder" ELSE "otlp"]

Outputs(c) ==
  IF c.via = "forwarder"
  THEN {[c EXCEPT !.at = "o11y ingest"]}
  ELSE UNION {{Sent(c, p, e) : e \in {e \in p.exporters : ~Excludes(e, kind)}}
              : p \in PipelinesOf(c)}

\* A running collector handles one copy; what no pipeline takes is lost.
Pass(c) ==
  /\ c.at \in Collectors
  /\ status[c.at] = "running"
  /\ copies' = (copies \ {c}) \cup {o \in Outputs(c) : o.at \in Collectors \cup {"nowhere"}}
  /\ arrived' = arrived \cup {o \in Outputs(c) : o.at \notin Collectors \cup {"nowhere"}}
  /\ UNCHANGED <<values, kind, accepted, status, emitted>>

Next ==
  \/ \E w \in Collectors : Start(w)
  \/ Emit
  \/ \E c \in copies : Pass(c)

Spec == Init /\ [][Next]_vars

\* Pods are started, sources go on producing, exporters go on sending.
Fairness ==
  /\ \A w \in Collectors : WF_vars(Start(w))
  /\ WF_vars(Emit)
  /\ WF_vars(\E c \in copies : Pass(c))

FairSpec == Spec /\ Fairness

-----------------------------------------------------------------------------
(* Properties.                                                             *)

\* The installations in which a collector has no configuration it can run:
\* logs/host with profiling but no logs (_otel-agent.tpl), the gateway's logs
\* pipeline with SecureApp alone (_otel-collector.tpl), and a cluster receiver
\* that is deployed for events nobody wants (clusterReceiverEnabled).
Unusable(w, v) ==
  CASE w = "agent" -> hostLogReceivers(v) # {} /\ profilingEnabled(v) /\ ~logsEnabled(v)
    [] w = "gateway" -> "secureApp" \in v /\ ~logsEnabled(v) /\ ~profilingEnabled(v)
    [] w = "clusterReceiver" ->
         /\ ~metricsEnabled(v)
         /\ ~eventsPipelineEnabled(v) /\ ~objectsPipelineEnabled(v)
         /\ "infraEvents" \notin v
         /\ ~k8sEntitiesEnabled(v)

\* Whatever options are combined, every collector the chart deploys accepts the
\* configuration rendered for it, except in the installations above and in all
\* of them: the conditions under which the templates define a component, list
\* it in a pipeline, start an extension and render a pipeline fit together.
CollectorsStart ==
  \A w \in Collectors :
    /\ status[w] = "rejected" => Unusable(w, values)
    /\ status[w] = "running" => ~Unusable(w, values)

\* No backend gets an item twice, although receivers feed several pipelines
\* and connectors and the gateway bring copies together again.
NeverTwice == \A a, b \in arrived : a.at = b.at => a = b

Promise == Promised(values, kind)

\* Backends that get what the options do not ask for: Observability Cloud gets
\* the collectors' own metrics and the scraped ones even without metrics, and
\* the logs sent to a gateway that has only the entities pipeline; profiles go
\* to Splunk Platform when its logs are sent over OTLP.
Leaks(v, k) ==
  When(splunkO11yEnabled(v) /\ k \in OwnMetrics, {"o11y ingest"})
  \cup When(splunkO11yEnabled(v) /\ k = "scraped_metric"
            /\ "useControlPlaneMetricsHistogramData" \in v, {"o11y ingest"})
  \cup When(platformLogsViaOtlpEnabled(v) /\ k = "profile", {"platform logs"})
  \cup When(splunkO11yEnabled(v) /\ ~sharedLogsPipeline(v)
            /\ EntryCollector(v, k) = "gateway" /\ k \in FromApplications \ {"trace"},
            {"o11y events"})

\* An item reaches no backend but the promised ones and the leaks: SecureApp
\* data never gets into Splunk Platform, logs never into Observability Cloud,
\* and a backend that is switched off gets nothing, with or without a gateway.
NothingElseArrives == \A a \in arrived : a.at \in Promise \cup Leaks(values, kind)

Delivered == Promise \subseteq {a.at : a \in arrived}

\* Scraped metrics have a pipeline of their own when control plane histograms
\* are collected, and it ends only in Observability Cloud, through a forwarder
\* that does not run when the collectors are managed remotely.
ScrapeLost(v) ==
  /\ "useControlPlaneMetricsHistogramData" \in v
  /\ platformMetricsEnabled(v) \/ ("gateway" \in v /\ "remoteManagement" \in v)

Deliverable(v, k) ==
  LET entry == EntryCollector(v, k)
  IN /\ ~Unusable(entry, v)
     /\ entry = "agent" /\ "gateway" \in v => ~Unusable("gateway", v)
     /\ k = "scraped_metric" => ~ScrapeLost(v)

\* Every item reaches every backend the options promise it to, in whichever
\* order the collectors start, unless a collector on its way cannot run or it
\* is a scraped metric in the installations above.
PromiseKept == Deliverable(values, kind) ~> Delivered

\* What arrives carries the cluster name the user gave, and the detected one
\* only if none was given, whatever resource_detection overwrites on the way;
\* not so the collectors' own metrics and the logs sent directly to a gateway.
ClusterNamed ==
  \/ kind \in OwnMetrics
  \/ /\ EntryCollector(values, kind) = "gateway"
     /\ kind \in {"otlp_log", "profile"}
  \/ \A a \in arrived : a.name = IF "clusterName" \in values THEN "given" ELSE "detected"

\* A collector that opens its OpAMP session to the gateway finds the port in
\* the gateway's service and the forwarder behind it, except where profiling
\* or SecureApp is the only signal: gateway.ports (values.yaml) then exposes
\* OTLP alone, though opampExtension still sends to port 4320.
OpampReachesGateway ==
  \A w \in OpensOpamp(values) :
    status[w] = "running" /\ OpampTarget(w, values) = "gateway" =>
      /\ "http_forwarder/opamp_splunk_o11y" \in gatewayStarted(values)
      /\ 4320 \in gatewayServicePorts(values) <=>
           metricsEnabled(values) \/ tracesEnabled(values) \/ logsEnabled(values)
=============================================================================
