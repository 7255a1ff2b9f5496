--------------------------- MODULE MCClusterAccess ---------------------------
(* ClusterAccess for TLC: the calls of the functional, k8sevents and logs  *)
(* tests.                                                                  *)
EXTENDS ClusterAccess

SomeScripts ==
  { <<"createNamespace", "waitForServiceAccount", "createPod", "deletePod", "label", "deleteNamespace">>,
    <<"createNamespace", "label", "label", "waitForServiceAccount", "createPod", "deleteObject", "deleteNamespace">>,
    <<"copyTo">>, <<"copyFrom">> }

TheContent == <<"a", "b">>
ThePath    == <<"var", "log", "file">>

Mount(path, subPath) == [path |-> path, subPath |-> subPath]

SomeMounts ==
  { Mount(<<>>, FALSE), Mount(<<"var">>, FALSE), Mount(<<"var", "log">>, FALSE),
    Mount(<<"var">>, TRUE), Mount(<<"var", "log">>, TRUE), Mount(<<"etc">>, FALSE) }
=============================================================================
