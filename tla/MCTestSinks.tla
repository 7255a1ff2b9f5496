----------------------------- MODULE MCTestSinks -----------------------------
(* TestSinks for TLC: the set-up of seven of the functional tests.          *)
EXTENDS TestSinks

Suite(parent, subs) == [parent |-> parent, subs |-> subs]

SomeSuites ==
  { \* functional
    Suite(<<"apiServer", "hecLogs", "hecMetrics", "hecObjects", "signalfx", "otlpTraces">>, << <<>> >>),
    \* configuration_switching
    Suite(<<"hecLogs", "hecMetrics", "hecObjects">>, << <<>>, <<>> >>),
    \* gateway, passthrough
    Suite(<<"apiServer">>, << <<"signalfx", "tracesWithToken">>, <<"signalfx", "tracesWithToken">> >>),
    \* gateway, gateway only
    Suite(<<"apiServer">>, << <<"signalfxWithToken">>, <<"signalfxWithToken">> >>),
    \* discovery
    Suite(<<"apiServer">>, << <<"signalfx", "otlpLogs">> >>),
    \* istio
    Suite(<<>>, << <<"apiServer", "signalfx">>, <<"istioTraces">> >>),
    \* secureapp
    Suite(<<"secureAppLogs", "apiServer">>, << <<>> >>) }

SomeNetworks == { <<"v6", "v4">>, <<"invalid", "v4">>, <<"v6">>, <<>> }
=============================================================================
