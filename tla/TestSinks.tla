------------------------------ MODULE TestSinks ------------------------------
(***************************************************************************)
(* The telemetry sinks of a functional test (functional_tests/internal/    *)
(* sinks.go), its fake SignalFx API server (api_server.go) and the helpers *)
(* that wait for, check and reset what the sinks hold (common.go,          *)
(* functional/helpers.go), in a test that sets them up, runs subtests that *)
(* install the chart, and cleans up in the reverse order, however it ends. *)
(*                                                                         *)
(* Collectors of a release go on sending while they terminate, which is    *)
(* after ChartUninstall has returned. A payload is abstracted to the       *)
(* release that sent it, the metric it carries and whether it has the      *)
(* access token.                                                           *)
(***************************************************************************)
EXTENDS Integers, Sequences, FiniteSets

CONSTANTS
  Suites,      \* the tests: the sinks of the test and those of every subtest
  Networks,    \* the families of the gateways of Docker's kind network
  Names,       \* the metrics a subtest waits for
  MaxPayloads  \* bound on the payloads in the watched sink

VARIABLES
  suite,        \* the test
  network,      \* the gateways
  sub, level,   \* its current subtest (0: none); "parent" or "sub"
  pc, todo,     \* where the test is; the sinks it has yet to set up
  stack,        \* the functions registered with t.Cleanup, newest last
  bound,        \* the owner of every port: "free", "foreign" or a sink
  api,          \* the goroutine of the API server
  endpoint,     \* HostEndpoint, once it is known
  pods,         \* the collectors of the release of every subtest
  received,     \* the payloads in the sink that the subtests watch
  left,         \* history: the releases with collectors when it was made or reset
  found,        \* checkMetrics: metricsToFind
  bindFailed, failed

place == <<suite, network, sub, level, todo>>
held  == <<stack, bound, api>>
seen  == <<received, left, found>>
fate  == <<bindFailed, failed>>
vars  == <<place, pc, held, endpoint, pods, seen, fate>>

\* The ports on which the receiver of every sink listens.
PortsOf ==
  [hecLogs |-> {8090}, hecMetrics |-> {8091}, hecObjects |-> {8092},
   signalfx |-> {9943}, signalfxWithToken |-> {9943}, otlpTraces |-> {4317, 4318},
   tracesWithToken |-> {4317, 4318}, istioTraces |-> {4317, 9943}, otlpLogs |-> {4317, 4318}, secureAppLogs |-> {4320},
   apiServer |-> {8881}]

Sinks == DOMAIN PortsOf \ {"apiServer"}
Ports == UNION {PortsOf[s] : s \in DOMAIN PortsOf}

\* Sinks that listen at the same time never share a port.
Apart(list) == \A i, j \in DOMAIN list : i # j => PortsOf[list[i]] \cap PortsOf[list[j]] = {}

\* The tests choose their sinks so: none on a port that another sink of the
\* subtest or of the test has, and in a subtest that sets up its own at least
\* one that it watches.
ASSUME SinkAssumption ==
  \A su \in Suites :
    /\ su.parent \in Seq(DOMAIN PortsOf) /\ Apart(su.parent)
    /\ su.subs \in Seq(Seq(DOMAIN PortsOf))
    /\ \A n \in DOMAIN su.subs :
         /\ Apart(su.subs[n])
         /\ \A i \in DOMAIN su.parent, j \in DOMAIN su.subs[n] :
              PortsOf[su.parent[i]] \cap PortsOf[su.subs[n][j]] = {}
         /\ su.subs[n] # <<>> => \E j \in DOMAIN su.subs[n] : su.subs[n][j] # "apiServer"

\* bearertokenauth, on the HTTP port.
NeedsToken(s) == s \in {"signalfxWithToken", "tracesWithToken", "istioTraces"}

\* Shutdown of the OTLP receiver waits for its connections with t.Context(),
\* which is cancelled before the cleanups run; the other receivers close theirs.
ShutdownWaits(s) == s \in {"otlpTraces", "tracesWithToken", "istioTraces", "otlpLogs", "secureAppLogs"}

Newest(s) == s[Len(s)]

\* The sink whose contents the current subtest looks at.
LastSink(list) == Newest(SelectSeq(list, LAMBDA s : s # "apiServer"))
OwnSinks == suite.subs[sub]
Watched  == LastSink(IF OwnSinks # <<>> THEN OwnSinks ELSE suite.parent)

Alive == {g \in DOMAIN pods : pods[g] # "gone"}

Init ==
  /\ suite \in Suites /\ network \in Networks /\ sub = 0 /\ level = "parent"
  /\ pc = "setup" /\ todo = suite.parent /\ stack = <<>>
  /\ \E taken \in {{}} \cup {{p} : p \in Ports} :
       bound = [p \in Ports |-> IF p \in taken THEN "foreign" ELSE "free"]
  /\ api = "none" /\ endpoint = "unknown" /\ pods = <<>> /\ received = <<>> /\ left = {}
  /\ found = {} /\ bindFailed = FALSE /\ failed = FALSE

Bind(ports, owner) == bound' = [p \in Ports |-> IF p \in ports THEN owner ELSE bound[p]]

Register(what) == stack' = Append(stack, [level |-> level, what |-> what])

-----------------------------------------------------------------------------
(* Set-up.                                                                 *)

\* require: FailNow ends the test, whose cleanups then run.
FailNow == failed' = TRUE /\ pc' = "cleanup"

\* What the Setup functions share: Start binds all ports of the receiver or
\* none, and only a receiver that started is shut down later.
StartReceiver(s) ==
  /\ pc = "setup" /\ todo # <<>> /\ todo[1] = s
  /\ IF \A p \in PortsOf[s] : bound[p] = "free"
       THEN /\ Bind(PortsOf[s], s) /\ Register(s)
            /\ todo' = Tail(todo)
            /\ UNCHANGED <<pc, fate>>
       ELSE FailNow /\ bindFailed' = TRUE /\ UNCHANGED <<bound, stack, todo>>
  /\ received' = <<>> /\ left' = Alive
  /\ UNCHANGED <<suite, network, sub, level, api, endpoint, pods, found>>

SetupHECSink          == \E s \in {"hecLogs", "hecObjects", "hecMetrics"} : StartReceiver(s)
SetupOTLPTracesSink   == \E s \in {"otlpTraces", "tracesWithToken", "istioTraces"} : StartReceiver(s)
SetupOTLPLogsSink     == \E s \in {"otlpLogs", "secureAppLogs"} : StartReceiver(s)
SetupSignalfxReceiver == \E s \in {"signalfx", "signalfxWithToken"} : StartReceiver(s)

\* SetupSignalFxAPIServer: the server is started in a goroutine.
SetupSignalFxAPIServer ==
  /\ pc = "setup" /\ todo # <<>> /\ todo[1] = "apiServer"
  /\ Register("apiServer")
  /\ api' = "starting"
  /\ todo' = Tail(todo)
  /\ UNCHANGED <<suite, network, sub, level, pc, bound, endpoint, pods, seen, fate>>

\* ListenAndServe serves, or fails at once: then its goroutine waits to report
\* it on the unbuffered errCh.
ListenAndServe ==
  /\ api = "starting"
  /\ IF bound[8881] = "free"
       THEN api' = "serving" /\ Bind({8881}, "apiServer") /\ UNCHANGED bindFailed
       ELSE api' = "error" /\ bindFailed' = TRUE /\ UNCHANGED bound
  /\ UNCHANGED <<place, pc, stack, endpoint, pods, seen, failed>>

\* A subtest resets the sinks that it shares with the others.
SetupDone ==
  /\ pc = "setup" /\ todo = <<>>
  /\ pc' = IF level = "parent" THEN "subs" ELSE IF OwnSinks = <<>> THEN "reset" ELSE "install"
  /\ UNCHANGED <<place, held, endpoint, pods, seen, fate>>

\* t.Run of the next subtest, or the end of the test's function.
NextSub ==
  /\ pc = "subs"
  /\ IF sub < Len(suite.subs)
       THEN sub' = sub + 1 /\ level' = "sub" /\ pc' = "setup" /\ todo' = suite.subs[sub + 1]
       ELSE pc' = "cleanup" /\ UNCHANGED <<sub, level, todo>>
  /\ found' = {}
  /\ UNCHANGED <<suite, network, held, endpoint, pods, received, left, fate>>

-----------------------------------------------------------------------------
(* A subtest: reset, install, wait and check.                              *)

\* Mutant: what the sink holds is kept.
NotEmptied == received

\* ResetMetricsSink, ResetLogsSink.
Emptied == <<>>

Reset ==
  /\ pc = "reset"
  /\ received' = Emptied /\ left' = Alive
  /\ pc' = "install"
  /\ UNCHANGED <<place, held, endpoint, pods, found, fate>>

\* HostEndpoint: an IPv4 gateway before any other.
HostEndpoint(gateways) ==
  LET valid == SelectSeq(gateways, LAMBDA f : f # "invalid")
      four  == SelectSeq(valid, LAMBDA f : f = "v4")
  IN  IF four # <<>> THEN "v4" ELSE IF valid # <<>> THEN valid[1] ELSE "none"

\* BasicCollectorChartInstall: the chart is given the endpoint, and its
\* collectors run when the installation returns. Its cleanup comes last.
BasicCollectorChartInstall ==
  /\ pc = "install"
  /\ endpoint' = HostEndpoint(network)
  /\ IF endpoint' = "none"
       THEN FailNow /\ UNCHANGED <<pods, stack>>
       ELSE /\ pods' = Append(pods, "running")
            /\ Register("chart")
            /\ pc' = "wait" /\ UNCHANGED failed
  /\ UNCHANGED <<place, bound, api, seen, bindFailed>>

\* A collector sends a payload to the watched sink. The sinks listen on
\* 0.0.0.0: over IPv6 they are not reached.
Send(g, name, token) ==
  /\ g \in Alive /\ endpoint = "v4"
  /\ \A p \in PortsOf[Watched] : bound[p] = Watched
  /\ NeedsToken(Watched) => token
  /\ Len(received) < MaxPayloads
  /\ received' = Append(received, [gen |-> g, name |-> name, token |-> token])
  /\ UNCHANGED <<place, pc, held, endpoint, pods, left, found, fate>>

Terminated(g) ==
  /\ pods[g] = "terminating"
  /\ pods' = [pods EXCEPT ![g] = "gone"]
  /\ UNCHANGED <<place, pc, held, endpoint, seen, fate>>

\* One poll of checkMetrics; what was found once stays found.
CheckMetrics ==
  /\ pc = "wait"
  /\ found' = found \cup {received[k].name : k \in DOMAIN received}
  /\ pc' = IF Names \subseteq found' THEN "passed" ELSE "wait"
  /\ UNCHANGED <<place, held, endpoint, pods, received, left, fate>>

\* WaitForTraces, WaitForLogs, WaitForMetrics.
WaitFor ==
  /\ pc = "wait"
  /\ Len(received) >= Cardinality(Names)
  /\ pc' = "passed"
  /\ UNCHANGED <<place, held, endpoint, pods, seen, fate>>

\* Eventually gives up after waitTimeout.
WaitTimesOut ==
  /\ pc = "wait"
  /\ FailNow
  /\ UNCHANGED <<place, held, endpoint, pods, seen, bindFailed>>

\* CheckNoEventsReceived, CheckNoMetricsReceived, in a subtest that expects none.
CheckNoReceived ==
  /\ pc = "wait"
  /\ IF received = <<>> THEN pc' = "passed" /\ UNCHANGED failed ELSE FailNow
  /\ UNCHANGED <<place, held, endpoint, pods, seen, bindFailed>>

Passed ==
  /\ pc = "passed" /\ pc' = "cleanup"
  /\ UNCHANGED <<place, held, endpoint, pods, seen, fate>>

-----------------------------------------------------------------------------
(* t.Cleanup: the last function registered runs first, and a failure in    *)
(* one does not keep the others from running.                              *)

Cleaning(what) ==
  /\ pc = "cleanup" /\ stack # <<>>
  /\ Newest(stack) = [level |-> level, what |-> what]

Pop == stack' = SubSeq(stack, 1, Len(stack) - 1)

\* ChartUninstall does not wait for the pods.
CleanupChart ==
  /\ Cleaning("chart") /\ Pop
  /\ pods' = [g \in DOMAIN pods |-> IF pods[g] = "running" THEN "terminating" ELSE pods[g]]
  /\ UNCHANGED <<place, pc, bound, api, endpoint, seen, fate>>

\* Mutant: the receiver is not shut down.
NotShutDown(s) ==
  /\ Cleaning(s) /\ Pop
  /\ UNCHANGED <<place, pc, bound, api, endpoint, pods, seen, fate>>

\* Shutdown frees the ports; with a request in flight it may fail.
CleanupSink(s) ==
  /\ Cleaning(s) /\ Pop
  /\ Bind(PortsOf[s], "free")
  /\ failed' \in {failed} \cup (IF ShutdownWaits(s) /\ Alive # {} THEN {TRUE} ELSE {})
  /\ UNCHANGED <<place, pc, api, endpoint, pods, seen, bindFailed>>

\* s.Close: a server that serves or has yet to start ends with ErrServerClosed.
CloseAPIServer ==
  /\ Cleaning("apiServer") /\ api \in {"starting", "serving"}
  /\ api' = "closed"
  /\ IF api = "serving" THEN Bind({8881}, "free") ELSE UNCHANGED bound
  /\ UNCHANGED <<place, pc, stack, endpoint, pods, seen, fate>>

\* Mutant: a server that was closed sends nothing.
ClosedSendsNothing == "closed"

\* The goroutine goes on to errCh <- nil.
ClosedSends == "nil"

ServeEnds ==
  /\ api = "closed" /\ api' = ClosedSends
  /\ UNCHANGED <<place, pc, stack, bound, endpoint, pods, seen, fate>>

\* Mutant: the error of the server is dropped.
ErrorDropped == FALSE

\* require.NoError of what errCh gave.
ErrorFails == api = "error"

\* <-errCh. After an error the goroutine is left with errCh <- nil for ever.
ReceiveErr ==
  /\ Cleaning("apiServer") /\ api \in {"error", "nil"} /\ Pop
  /\ api' = IF api = "error" THEN "leaked" ELSE "ended"
  /\ failed' = (failed \/ ErrorFails)
  /\ UNCHANGED <<place, pc, bound, endpoint, pods, seen, bindFailed>>

LevelEnds ==
  /\ pc = "cleanup" /\ (stack # <<>> => Newest(stack).level # level)
  /\ pc' = IF level = "sub" THEN "subs" ELSE "ended"
  /\ level' = "parent"
  /\ UNCHANGED <<suite, network, sub, todo, held, endpoint, pods, seen, fate>>

-----------------------------------------------------------------------------

Test ==
  \/ SetupHECSink \/ SetupOTLPTracesSink \/ SetupOTLPLogsSink \/ SetupSignalfxReceiver
  \/ SetupSignalFxAPIServer \/ SetupDone \/ NextSub
  \/ Reset \/ BasicCollectorChartInstall \/ WaitFor \/ CheckNoReceived \/ Passed
  \/ CleanupChart \/ (\E s \in Sinks : CleanupSink(s)) \/ CloseAPIServer \/ ReceiveErr \/ LevelEnds

Ended == pc = "ended" /\ UNCHANGED vars

Next ==
  \/ Test \/ WaitTimesOut \/ CheckMetrics \/ ListenAndServe \/ ServeEnds \/ Ended
  \/ \E g \in DOMAIN pods : Terminated(g) \/ \E name \in Names, token \in BOOLEAN : Send(g, name, token)

\* The test's goroutine and the server's run; Eventually gives up in the end.
Spec ==
  /\ Init /\ [][Next]_vars
  /\ WF_vars(Test) /\ WF_vars(WaitTimesOut) /\ WF_vars(ListenAndServe) /\ WF_vars(ServeEnds)

-----------------------------------------------------------------------------
(* Properties.                                                             *)

\* Every port that the sinks and the API server took is free again when the
\* test or the subtest that took it ended, however it ended, so that no set-up
\* fails in a later one unless another process holds a port: the Setup
\* functions register Shutdown after Start succeeded, and never share a port.
PortsReleased ==
  /\ pc = "ended" => \A p \in Ports : bound[p] \in {"free", "foreign"}
  /\ bindFailed => \E p \in Ports : bound[p] = "foreign"

\* The API server binds its port in a goroutine, after SetupSignalFxAPIServer
\* returned: a port that is taken still fails the test, in its cleanup.
BindFailureFails == pc = "ended" /\ bindFailed => failed

\* The test ends, whichever step fails: the cleanup that waits for the API
\* server on errCh always gets an answer.
TestEnds == <>(pc = "ended")

\* WaitFor, checkMetrics and CheckNo see telemetry of the release under test
\* only, and only with the token where one is demanded, unless collectors of an
\* earlier release were still there when the sink was made or reset.
OwnTelemetry ==
  pc = "passed" /\ left = {} =>
    \A k \in DOMAIN received :
      received[k].gen = Len(pods) /\ (NeedsToken(Watched) => received[k].token)

=============================================================================
