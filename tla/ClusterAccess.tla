---------------------------- MODULE ClusterAccess ----------------------------
(***************************************************************************)
(* How a functional test changes a shared cluster: namespaces and pods     *)
(* (CreateNamespace, WaitForDefaultServiceAccount, CreatePod, DeletePod,   *)
(* LabelNamespace, AnnotateNamespace, DeleteNamespace, DeleteObject) and   *)
(* files copied to and from pods (CopyFileToPod, CopyFileFromPod and their *)
(* helper container), all of functional_tests/internal/common.go, while    *)
(* controllers and other clients work on the same objects and requests     *)
(* fail.                                                                   *)
(*                                                                         *)
(* A test is a sequence of these calls. A file is the sequence of its      *)
(* chunks, a path the sequence of its elements.                            *)
(***************************************************************************)
EXTENDS Integers, Sequences, FiniteSets

CONSTANTS
  Scripts,     \* the calls that tests make
  Content,     \* the chunks of the file to copy
  Path, Mounts,\* where it is, and mounts that its container may have: [path, subPath]
  Others,      \* the labels that other clients add to the namespace
  MaxRetries,  \* bound on the polls of Eventually
  MaxFaults    \* bound on the requests that fail

ASSUME AccessAssumption ==
  /\ Content \in Seq(STRING) /\ Content # <<>>
  /\ Path \in Seq(STRING) /\ Mounts \subseteq [path : Seq(STRING), subPath : BOOLEAN]
  /\ Scripts \subseteq Seq(STRING)
  \* a test creates its pod once, in a namespace that it has waited for and not deleted
  /\ \A s \in Scripts : \A j \in DOMAIN s : s[j] = "createPod" =>
       /\ \E i \in 1..(j - 1) : s[i] = "waitForServiceAccount"
       /\ \A i \in 1..(j - 1) : s[i] \notin {"createPod", "deleteNamespace"}
  /\ MaxRetries \in Nat /\ MaxFaults \in Nat

VARIABLES
  script, at,  \* the test: what it still has to call, and where it is in the call
  polls,       \* of the current Eventually
  ns,          \* the namespace: its state, labels and resourceVersion
  sa, pod,     \* its default ServiceAccount; the pod of the test
  copy,        \* the Namespace object that the test has read
  mounts, mount, \* of the container; what findVolumeMountForPath chose
  helper,      \* the ephemeral container
  source, target, \* the file to copy and its copy
  sent,        \* the chunks that the stream has delivered
  windows,     \* the pod runs Windows
  faults, blind, cut \* bound; history: a read of the current call failed, Windows cut the stream

object == <<ns, sa, pod, copy>>
file   == <<mounts, mount, helper, source, target, sent, windows, cut>>
vars   == <<script, at, polls, object, file, faults, blind>>

None == [path |-> <<>>, subPath |-> FALSE]

IsPrefix(s, t) == Len(s) <= Len(t) /\ SubSeq(t, 1, Len(s)) = s

\* The mount on which the kubelet puts the file.
Backing(M) ==
  LET B == {m \in M : IsPrefix(m.path, Path)}
  IN  IF B = {} THEN None ELSE CHOOSE m \in B : \A n \in B : Len(n.path) <= Len(m.path)

Init ==
  /\ script \in Scripts /\ at = "call" /\ polls = 0
  /\ ns = [state |-> "none", labels |-> {}, version |-> 0]
  /\ sa = FALSE /\ pod = "none" /\ copy = ns
  /\ mounts \in SUBSET Mounts /\ mount = None
  \* "absPath must live under one of targetContainer's non-subPath volume mounts"
  /\ ~Backing(mounts).subPath /\ \A m, n \in mounts : m.path = n.path => m = n
  /\ helper = "none" /\ source = Content /\ target = <<>> /\ sent = 0
  /\ windows \in BOOLEAN /\ cut = FALSE /\ faults = 0 /\ blind = FALSE

-----------------------------------------------------------------------------
(* The end of a call; require ends the test.                               *)

Call(c) == at = "call" /\ script # <<>> /\ script[1] = c
Polling(c) == at = "poll" /\ script[1] = c
Copying == script # <<>> /\ script[1] \in {"copyTo", "copyFrom"}

Return == script' = Tail(script) /\ at' = "call" /\ polls' = 0 /\ blind' = FALSE
Enter(where) == at' = where /\ polls' = 0 /\ UNCHANGED <<script, blind>>

\* Eventually: the condition was false, and is tried again until the timeout.
Again ==
  /\ polls' = polls + 1
  /\ at' = IF polls < MaxRetries THEN "poll" ELSE "failed"
  /\ UNCHANGED <<script, blind>>

Fault == faults < MaxFaults /\ faults' = faults + 1

\* A request of the test fails: require.NoError.
RequestFails ==
  /\ at \in {"call", "update"} /\ script # <<>> /\ Fault
  /\ script[1] # "waitForServiceAccount" /\ ~(windows /\ script[1] = "copyFrom")
  /\ at' = "failed"
  /\ UNCHANGED <<script, polls, object, file, blind>>

-----------------------------------------------------------------------------
(* Namespaces and pods.                                                    *)

\* Every write of the namespace gives it a new resourceVersion.
Written(state, labels) == [state |-> state, labels |-> labels, version |-> ns.version + 1]

CreateNamespace ==
  /\ Call("createNamespace")
  /\ IF ns.state = "none"
       THEN ns' = Written("active", ns.labels) /\ Enter("poll")
       ELSE at' = "failed" /\ UNCHANGED <<script, polls, ns, blind>>
  /\ UNCHANGED <<sa, pod, copy, file, faults>>

\* Admission refuses a pod without a ServiceAccount, and in a terminating namespace.
CreatePod ==
  /\ Call("createPod")
  /\ IF ns.state = "active" /\ sa /\ pod = "none"
       THEN pod' = "running" /\ Enter("poll")
       ELSE at' = "refused" /\ UNCHANGED <<script, polls, pod, blind>>
  /\ UNCHANGED <<ns, sa, copy, file, faults>>

\* Mutant: the test goes on at once.
NoWait == Call("waitForServiceAccount") /\ Return /\ UNCHANGED <<object, file, faults>>

WaitForDefaultServiceAccount ==
  Call("waitForServiceAccount") /\ Enter("poll") /\ UNCHANGED <<object, file, faults>>

\* Mutant: the test goes on while the pod terminates.
DeletePodNoWait ==
  /\ Call("deletePod")
  /\ IF pod = "none" THEN at' = "failed" /\ UNCHANGED <<script, polls, pod, blind>>
                     ELSE pod' = "terminating" /\ Return
  /\ UNCHANGED <<ns, sa, copy, file, faults>>

DeletePod ==
  /\ Call("deletePod")
  /\ IF pod = "none" THEN at' = "failed" /\ UNCHANGED <<script, polls, pod, blind>>
                     ELSE pod' = "terminating" /\ Enter("poll")
  /\ UNCHANGED <<ns, sa, copy, file, faults>>

\* A namespace that is not found counts as deleted.
DeleteNamespace ==
  /\ Call("deleteNamespace")
  /\ ns' = IF ns.state = "none" THEN ns ELSE [ns EXCEPT !.state = "terminating"]
  /\ Enter("poll")
  /\ UNCHANGED <<sa, pod, copy, file, faults>>

\* DeleteObject neither minds that the object is gone nor waits until it is.
DeleteObject ==
  /\ Call("deleteObject")
  /\ pod' = IF pod = "none" THEN pod ELSE "terminating"
  /\ Return
  /\ UNCHANGED <<ns, sa, copy, file, faults>>

\* The condition that a wait is for, and what it takes an error for.
WaitedFor(c) ==
  CASE c = "createNamespace"       -> ns.state # "none"
    [] c = "waitForServiceAccount" -> sa
    [] c = "createPod"             -> pod # "none"
    [] c = "deletePod"             -> pod = "none"
    [] c = "deleteNamespace"       -> ns.state = "none"
    [] OTHER                       -> FALSE

Waits == {"createNamespace", "waitForServiceAccount", "createPod", "deletePod", "deleteNamespace"}

Poll(c) ==
  /\ Polling(c)
  /\ IF WaitedFor(c) THEN Return ELSE Again
  /\ UNCHANGED <<object, file, faults>>

\* A Get that fails is "not yet" to a wait for an object and "gone" to the others.
PollFails(c) ==
  /\ Polling(c) /\ Fault
  /\ IF c \in {"deletePod", "deleteNamespace"}
       THEN at' = "call" /\ polls' = 0 /\ blind' = TRUE /\ script' = Tail(script)
       ELSE Again
  /\ UNCHANGED <<object, file>>

\* LabelNamespace, AnnotateNamespace: read, then write what was read and the label.
GetNamespace ==
  /\ Call("label")
  /\ IF ns.state = "none" THEN at' = "failed" /\ UNCHANGED <<script, polls, copy, blind>>
                          ELSE copy' = ns /\ Enter("update")
  /\ UNCHANGED <<ns, sa, pod, file, faults>>

\* Mutant: the object is written without its version.
AnyVersion == TRUE

\* The update carries the resourceVersion that was read.
Unchanged == copy.version = ns.version

UpdateNamespace ==
  /\ at = "update"
  /\ IF Unchanged /\ ns.state # "none"
       THEN ns' = Written(ns.state, copy.labels \cup {"test"}) /\ Return
       ELSE at' = "failed" /\ UNCHANGED <<script, polls, ns, blind>>
  /\ UNCHANGED <<sa, pod, copy, file, faults>>

\* Controllers, the kubelet and other clients.
OtherLabels(l) ==
  /\ ns.state = "active" /\ l \notin ns.labels
  /\ ns' = Written(ns.state, ns.labels \cup {l})
  /\ UNCHANGED <<script, at, polls, sa, pod, copy, file, faults, blind>>

ServiceAccountAppears ==
  /\ ns.state = "active" /\ ~sa /\ sa' = TRUE
  /\ UNCHANGED <<script, at, polls, ns, pod, copy, file, faults, blind>>

PodGone ==
  /\ pod = "terminating" \/ (ns.state = "terminating" /\ pod # "none")
  /\ pod' = "none"
  /\ UNCHANGED <<script, at, polls, ns, sa, copy, file, faults, blind>>

NamespaceGone ==
  /\ ns.state = "terminating" /\ pod = "none"
  /\ ns' = Written("none", {})
  /\ sa' = FALSE
  /\ UNCHANGED <<script, at, polls, pod, copy, file, faults, blind>>

-----------------------------------------------------------------------------
(* Copies.                                                                 *)

\* The longest mount above the file that has no subPath. A mount on "/" does
\* not match: no clean path begins with "//".
FindVolumeMountForPath(M) ==
  LET B == {m \in M : ~m.subPath /\ m.path # <<>> /\ IsPrefix(m.path, Path)}
  IN  IF B = {} THEN None ELSE CHOOSE m \in B : \A n \in B : Len(n.path) <= Len(m.path)

\* On Windows the copy from a pod needs no helper.
NoHelper == windows /\ script[1] = "copyFrom"

\* startFileCopyHelper up to the update of the pod.
StartFileCopyHelper ==
  /\ at = "call" /\ Copying
  /\ IF NoHelper
       THEN Enter("stream") /\ UNCHANGED <<mount, helper>>
       ELSE /\ mount' = FindVolumeMountForPath(mounts)
            /\ IF mount' = None THEN at' = "failed" /\ UNCHANGED <<script, polls, helper, blind>>
                                ELSE helper' = "waiting" /\ Enter("helper")
  /\ UNCHANGED <<object, mounts, source, target, sent, windows, cut, faults>>

\* The kubelet starts the helper, or it ends at once.
HelperState(s) ==
  /\ helper = "waiting" /\ helper' = s
  /\ UNCHANGED <<script, at, polls, object, mounts, mount, source, target, sent, windows, cut, faults, blind>>

\* require.Failf inside the condition, or the timeout.
PollHelper ==
  /\ at = "helper"
  /\ \/ helper = "running" /\ Enter("stream")
     \/ helper # "running" /\ at' = "failed" /\ UNCHANGED <<script, polls, blind>>
  /\ UNCHANGED <<object, file, faults>>

\* Mutant: an attempt appends to what the one before it wrote.
NotTruncated == target

\* os.Create, and the shell's redirection, truncate the copy.
Truncated == <<>>

\* streamExec: the copy is opened and the command started.
OpenCopy ==
  /\ at = "stream" /\ at' = "copying"
  /\ target' = Truncated /\ sent' = 0
  /\ UNCHANGED <<script, polls, object, mounts, mount, helper, source, windows, cut, faults, blind>>

Chunk ==
  /\ at = "copying" /\ sent < Len(source)
  /\ sent' = sent + 1 /\ target' = Append(target, source[sent + 1])
  /\ UNCHANGED <<script, at, polls, object, mounts, mount, helper, source, windows, cut, faults, blind>>

RetryCopy ==
  /\ polls' = polls + 1
  /\ at' = IF polls < MaxRetries THEN "stream" ELSE "failed"
  /\ UNCHANGED <<script, blind>>

\* The command ends. An empty copy is tried again.
StreamEnds ==
  /\ at = "copying" /\ sent = Len(source)
  /\ IF script[1] = "copyFrom" /\ target = <<>> THEN RetryCopy ELSE Enter("copied")
  /\ UNCHANGED <<object, file, faults>>

\* The stream breaks; on Windows the exit code of an interrupted command is
\* taken for success when something was copied.
StreamBreaks ==
  /\ at = "copying" /\ Fault
  /\ \/ RetryCopy /\ UNCHANGED cut
     \/ windows /\ script[1] = "copyFrom" /\ target # <<>> /\ Enter("copied") /\ cut' = TRUE
  /\ UNCHANGED <<object, mounts, mount, helper, source, target, sent, windows>>

Copied ==
  /\ at = "copied" /\ Return
  /\ UNCHANGED <<object, file, faults>>

-----------------------------------------------------------------------------

TestStep ==
  \/ CreateNamespace \/ CreatePod \/ WaitForDefaultServiceAccount \/ DeletePod \/ DeleteNamespace
  \/ DeleteObject \/ GetNamespace \/ UpdateNamespace \/ RequestFails
  \/ \E c \in Waits : Poll(c) \/ PollFails(c)
  \/ StartFileCopyHelper \/ PollHelper \/ OpenCopy \/ Chunk \/ StreamEnds \/ StreamBreaks \/ Copied

Over == (at \in {"failed", "refused"} \/ script = <<>>) /\ UNCHANGED vars

Next ==
  \/ TestStep \/ Over
  \/ (\E l \in Others : OtherLabels(l)) \/ ServiceAccountAppears \/ PodGone \/ NamespaceGone
  \/ HelperState("running") \/ HelperState("terminated")

Spec == Init /\ [][Next]_vars

-----------------------------------------------------------------------------
(* Properties.                                                             *)

\* A pod that is created after WaitForDefaultServiceAccount is not refused,
\* however late the namespace's ServiceAccount appears.
PodAccepted == at # "refused"

\* LabelNamespace and AnnotateNamespace write the whole object back, and no
\* label that another client added in between is lost.
NoLostUpdate == [][ns.state = "active" /\ ns'.state = "active" => ns.labels \subseteq ns'.labels]_vars

\* When DeleteNamespace or DeletePod has returned and none of its reads failed,
\* the object is gone, and so what the test creates next is new.
GoneWhenDeleted ==
  [][script # <<>> /\ script' # script /\ ~blind' =>
       /\ script[1] = "deleteNamespace" => ns.state = "none"
       /\ script[1] = "deletePod" => pod = "none"]_vars

\* A copy that the test goes on with is the whole file, written by one attempt
\* (on Windows an interrupted command may leave its beginning), through a helper
\* that mounts the volume the file is on.
CopiedWhole ==
  at = "copied" =>
    /\ IF cut THEN IsPrefix(target, Content) /\ target # <<>> ELSE target = Content
    /\ ~NoHelper => mount = Backing(mounts)

=============================================================================
