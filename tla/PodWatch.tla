------------------------------- MODULE PodWatch -------------------------------
(***************************************************************************)
(* What the functional tests conclude from the pods of the chart while     *)
(* those come and go: CheckPodsReady, WaitForTerminatingPods and           *)
(* GetPodLogs (functional_tests/internal/common.go), CheckComponentHealth  *)
(* and CheckReceiverStarted (component_health.go).                         *)
(*                                                                         *)
(* A line of a log is abstracted to what the checks look for: an error or  *)
(* a warning of the component, an error of another one, or the start of    *)
(* the receiver. A stream delivers a log line by line and may break.       *)
(***************************************************************************)
EXTENDS Integers, Sequences, FiniteSets

CONSTANTS
  Pods,          \* the pods that match the selector
  Collectors,    \* those with a container otel-collector
  ControlPlane,  \* those on a control-plane node
  Timeout, MinReady, \* of CheckPodsReady, in intervals of its polls
  TailLines,     \* the lines asked for
  MaxEvents      \* bound on the changes of the pods and the lines they log

ASSUME PodAssumption ==
  /\ Collectors \subseteq Pods /\ ControlPlane \subseteq Pods
  /\ Timeout \in Nat /\ MinReady \in Nat /\ TailLines \in Nat /\ MaxEvents \in Nat

Lines == {"error", "warn", "other", "start"}
Never == -1

VARIABLES
  pods,       \* the phase of every pod, and whether it is ready and being deleted
  log,        \* the log of its collector
  events,     \* the number of changes and lines so far
  op,         \* the check that the test makes
  pc, now,
  readySince, \* CheckPodsReady
  todo,       \* the pods whose logs are still to be read
  attempt,    \* of GetPodLogs
  rest, text, \* the stream: the lines to come, the lines read
  unhealthy, started,
  listed, asked, lastBad \* history: the pods chosen, the lines they were asked for,
                         \* the last poll that did not see all pods ready

cluster == <<pods, log, events>>
stream  == <<attempt, rest, text>>
verdict == <<unhealthy, started>>
history == <<listed, asked, lastBad>>
vars    == <<cluster, op, pc, now, readySince, todo, stream, verdict, history>>

Present == {p \in Pods : pods[p].phase # "gone"}
Running == {p \in Pods : pods[p].phase = "Running"}

Pod(phase, ready) == [phase |-> phase, ready |-> ready, deleting |-> FALSE]

Init ==
  /\ pods \in [Pods -> {Pod("gone", FALSE), Pod("Pending", FALSE), Pod("Running", TRUE)}]
  /\ events = 0
  /\ op \in {"ready", "terminating", "health", "started"}
  /\ IF op \in {"ready", "terminating"}
       THEN pc = "poll" /\ log = [p \in Collectors |-> <<>>]
       ELSE pc = "list" /\ log \in [Collectors -> {<<>>} \cup {<<line>> : line \in Lines}]
  /\ now = 0 /\ readySince = Never /\ todo = {} /\ attempt = 0 /\ rest = <<>> /\ text = <<>>
  /\ unhealthy = FALSE /\ started = FALSE
  /\ listed = {} /\ asked = [p \in Collectors |-> <<>>] /\ lastBad = Never

-----------------------------------------------------------------------------
(* The cluster, until the check is over. Only CheckPodsReady looks at      *)
(* whether pods are ready.                                                 *)

Change(p, pod) ==
  /\ pc \notin {"passed", "failed"} /\ events < MaxEvents
  /\ events' = events + 1
  /\ pods' = [pods EXCEPT ![p] = pod]
  /\ UNCHANGED <<log, op, pc, now, readySince, todo, stream, verdict, history>>

Starts(p)  == pods[p].phase = "Pending" /\ Change(p, [pods[p] EXCEPT !.phase = "Running"])
Probed(p)  == op = "ready" /\ pods[p].phase = "Running" /\ Change(p, [pods[p] EXCEPT !.ready = ~@])
Deleted(p) == p \in Present /\ ~pods[p].deleting /\ Change(p, [pods[p] EXCEPT !.deleting = TRUE])
Stops(p)   == pods[p].phase = "Running" /\ pods[p].deleting
              /\ Change(p, [pods[p] EXCEPT !.phase = "Succeeded", !.ready = FALSE])
Removed(p) == p \in Present /\ pods[p].deleting /\ Change(p, Pod("gone", FALSE))
Created(p) == pods[p].phase = "gone" /\ Change(p, Pod("Pending", FALSE))

Logs(p, line) ==
  /\ pc \in {"list", "next", "stream"} /\ p \in Running \cap Collectors
  /\ events < MaxEvents
  /\ events' = events + 1
  /\ log' = [log EXCEPT ![p] = Append(@, line)]
  /\ UNCHANGED <<pods, op, pc, now, readySince, todo, stream, verdict, history>>

-----------------------------------------------------------------------------
(* require.Eventually: one poll at a time, until the timeout. A poll whose *)
(* List fails leaves the goroutine of the condition and never answers.     *)

Tick ==
  /\ pc \in {"tick", "dead"} /\ now < Timeout
  /\ now' = now + 1
  /\ pc' = IF pc = "tick" THEN "poll" ELSE "dead"
  /\ UNCHANGED <<cluster, op, readySince, todo, stream, verdict, history>>

\* Mutant: a condition that never answers is waited for.
NeverTimesOut ==
  /\ pc = "tick" /\ now = Timeout
  /\ pc' = "failed"
  /\ UNCHANGED <<cluster, op, now, readySince, todo, stream, verdict, history>>

TimesOut ==
  /\ pc \in {"tick", "dead"} /\ now = Timeout
  /\ pc' = "failed"
  /\ UNCHANGED <<cluster, op, now, readySince, todo, stream, verdict, history>>

PollFails ==
  /\ pc = "poll" /\ pc' = "dead"
  /\ UNCHANGED <<cluster, op, now, readySince, todo, stream, verdict, history>>

AllReady == Present # {} /\ \A p \in Present : pods[p].phase = "Running" /\ pods[p].ready

\* Mutant: a poll that finds a pod not ready leaves the time as it is.
ReadySinceKept == IF AllReady /\ readySince = Never THEN now ELSE readySince

\* readySince after a poll.
ReadySince ==
  IF ~AllReady THEN Never ELSE IF readySince = Never THEN now ELSE readySince

CheckPodsReady ==
  /\ op = "ready" /\ pc = "poll"
  /\ readySince' = ReadySince
  /\ pc' = IF AllReady /\ now - readySince' >= MinReady THEN "passed" ELSE "tick"
  /\ lastBad' = IF AllReady THEN lastBad ELSE now
  /\ UNCHANGED <<cluster, op, now, todo, stream, verdict, listed, asked>>

\* The pods that WaitForTerminatingPods counts: not those in phase Running or Pending.
CountedTerminating == {p \in Present : pods[p].phase \notin {"Running", "Pending"} /\ pods[p].deleting}

WaitForTerminatingPods ==
  /\ op = "terminating" /\ pc = "poll"
  /\ pc' = IF CountedTerminating = {} THEN "passed" ELSE "tick"
  /\ UNCHANGED <<cluster, op, now, readySince, todo, stream, verdict, history>>

-----------------------------------------------------------------------------
(* The checks of logs: the pods are listed once, then read one by one.     *)

\* GetRunningAgentPods.
RunningAgents == Running \cap Collectors

\* CheckComponentHealth skips pods that are not running or have no collector;
\* CheckReceiverStarted gets the pods of GetControlPlaneAgentPods.
Chosen == IF op = "health" THEN RunningAgents ELSE RunningAgents \cap ControlPlane

\* No pod, or a List that fails.
ListFails ==
  /\ pc = "list" /\ pc' = "failed"
  /\ UNCHANGED <<cluster, op, now, readySince, todo, stream, verdict, history>>

List ==
  /\ pc = "list"
  /\ IF op = "health" THEN Present # {} ELSE Chosen # {}
  /\ todo' = Chosen /\ listed' = Chosen
  /\ pc' = "next"
  /\ UNCHANGED <<cluster, op, now, readySince, stream, verdict, asked, lastBad>>

Tail_(s, n) == SubSeq(s, IF Len(s) > n THEN Len(s) - n + 1 ELSE 1, Len(s))

\* GetLogs(...).Stream of the pod whose turn it is.
Current == CHOOSE p \in todo : TRUE

OpenStream ==
  /\ pc = "next" /\ todo # {} /\ ~(op = "started" /\ started)
  /\ Current \in Present
  /\ rest' = Tail_(log[Current], TailLines) /\ text' = <<>>
  /\ asked' = [asked EXCEPT ![Current] = rest']
  /\ pc' = "stream"
  /\ UNCHANGED <<cluster, op, now, readySince, todo, attempt, verdict, listed, lastBad>>

ReadStream ==
  /\ pc = "stream" /\ rest # <<>>
  /\ text' = Append(text, rest[1]) /\ rest' = Tail(rest)
  /\ UNCHANGED <<cluster, op, pc, now, readySince, todo, attempt, verdict, history>>

\* An attempt fails: no stream, or one that breaks. Its text is dropped, and
\* after three attempts a health check fails at once while CheckReceiverStarted
\* goes on with the next pod.
AttemptFails ==
  /\ \/ pc = "next" /\ todo # {} /\ ~(op = "started" /\ started)
     \/ pc = "stream"
  /\ rest' = <<>> /\ text' = <<>>
  /\ IF attempt < 2
       THEN pc' = "next" /\ attempt' = attempt + 1 /\ UNCHANGED todo
       ELSE /\ attempt' = 0
            /\ pc' = IF op = "health" THEN "failed" ELSE "next"
            /\ todo' = todo \ {Current}
  /\ UNCHANGED <<cluster, op, now, readySince, verdict, history>>

\* Mutant: warnings do not count.
ErrorsOnly(s) == {k \in DOMAIN s : s[k] = "error"}

\* The lines that findMatchingLogLines returns.
FindMatchingLogLines(s) == {k \in DOMAIN s : s[k] \in {"error", "warn"}}

ContainsReceiverStartLog(s) == \E k \in DOMAIN s : s[k] = "start"

\* readErr == io.EOF
StreamOver == pc = "stream" /\ rest = <<>>

\* CheckComponentHealthForPods reports the lines and goes on with the next pod.
Examine ==
  /\ StreamOver
  /\ IF op = "health"
       THEN unhealthy' = (unhealthy \/ FindMatchingLogLines(text) # {}) /\ UNCHANGED started
       ELSE started' = ContainsReceiverStartLog(text) /\ UNCHANGED unhealthy
  /\ todo' = todo \ {Current} /\ attempt' = 0 /\ rest' = <<>> /\ text' = <<>>
  /\ pc' = "next"
  /\ UNCHANGED <<cluster, op, now, readySince, history>>

LogsDone ==
  /\ pc = "next" /\ (todo = {} \/ (op = "started" /\ started))
  /\ pc' = IF (op = "health" /\ ~unhealthy) \/ (op = "started" /\ started) THEN "passed" ELSE "failed"
  /\ UNCHANGED <<cluster, op, now, readySince, todo, stream, verdict, history>>

-----------------------------------------------------------------------------

Check ==
  \/ Tick \/ TimesOut \/ PollFails \/ CheckPodsReady \/ WaitForTerminatingPods
  \/ ListFails \/ List \/ OpenStream \/ ReadStream \/ AttemptFails \/ Examine \/ LogsDone

Over == pc \in {"passed", "failed"} /\ UNCHANGED vars

Next ==
  \/ Check \/ Over
  \/ \E p \in Pods : \/ Starts(p) \/ Probed(p) \/ Deleted(p) \/ Stops(p) \/ Removed(p) \/ Created(p)
                     \/ \E line \in Lines : Logs(p, line)

\* The test runs and time passes.
Spec == Init /\ [][Next]_vars /\ WF_vars(Check)

-----------------------------------------------------------------------------
(* Properties.                                                             *)

\* CheckPodsReady succeeds only when every poll saw all pods ready for at least
\* minReadyTime: pods that vanish, restart or stop being ready in between start
\* the time anew.
ReadyThroughout == op = "ready" /\ pc = "passed" => now - lastBad > MinReady

\* The checks of logs judge whole logs, whatever breaks while they are read:
\* CheckComponentHealth succeeds only if no line that a running collector was
\* asked for is an error or a warning of the component, and CheckReceiverStarted
\* only if some control-plane agent's log has the receiver's start.
VerdictFromWholeLogs ==
  pc = "passed" =>
    /\ op = "health" =>
         \A p \in listed : \A k \in DOMAIN asked[p] : asked[p][k] \notin {"error", "warn"}
    /\ op = "started" => \E p \in listed \cap ControlPlane : \E k \in DOMAIN asked[p] : asked[p][k] = "start"

\* Every check ends, also when a List fails inside the condition of Eventually
\* and when streams keep breaking.
CheckEnds == <>(pc \in {"passed", "failed"})

\* WaitForTerminatingPods returns once no pod is terminating: "there are still
\* terminating pods after 2 minutes" is its failure.
NoneTerminating == op = "terminating" /\ pc = "passed" => \A p \in Present : ~pods[p].deleting
=============================================================================
