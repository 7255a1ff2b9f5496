--------------------------- MODULE PodWatchProofs ---------------------------
(***************************************************************************)
(* What a passed check says about the pods, for every number of pods,      *)
(* lines and polls and whatever happens to the pods meanwhile.             *)
(***************************************************************************)
EXTENDS PodWatch, TLAPS

-----------------------------------------------------------------------------
(* The invariant.                                                          *)

\* The pods that the test goes through have a log.
WatchTypes ==
  /\ now \in Nat /\ readySince \in Int /\ lastBad \in Int
  /\ log \in [Collectors -> Seq(Lines)] /\ asked \in [Collectors -> Seq(Lines)]
  /\ rest \in Seq(Lines) /\ text \in Seq(Lines)
  /\ todo \subseteq listed /\ listed \subseteq Collectors
  /\ unhealthy \in BOOLEAN /\ started \in BOOLEAN

\* The pods have been ready since a poll after the last one that saw one not ready.
ReadyPolls ==
  /\ lastBad <= now
  /\ pc = "poll" => lastBad < now
  /\ readySince # Never => lastBad < readySince /\ readySince <= now

\* The stream delivers what the pod was asked for, from its beginning.
Delivered ==
  pc = "stream" =>
    /\ Current \in todo
    /\ Len(asked[Current]) = Len(text) + Len(rest)
    /\ \A k \in 1..Len(text) : asked[Current][k] = text[k]
    /\ \A k \in 1..Len(rest) : asked[Current][Len(text) + k] = rest[k]

Clean(s) == \A k \in DOMAIN s : s[k] \notin {"error", "warn"}

\* The pods that CheckComponentHealth is done with.
HealthSoFar ==
  op = "health" /\ pc # "failed" =>
    /\ ~started
    /\ ~unhealthy => \A p \in listed \ todo : Clean(asked[p])
    /\ pc = "passed" => ~unhealthy /\ todo = {}

\* The pod that CheckReceiverStarted has found the start in.
StartedSoFar ==
  op = "started" =>
    /\ listed \subseteq ControlPlane
    /\ pc = "list" => ~started
    /\ started => \E p \in listed : \E k \in DOMAIN asked[p] : asked[p][k] = "start"
    /\ pc = "passed" => started

IInv == WatchTypes /\ ReadyPolls /\ ReadyThroughout /\ Delivered /\ HealthSoFar /\ StartedSoFar

\* Every step preserves the invariant.
LEMMA Step ==
  ASSUME IInv, [Next]_vars
  PROVE  IInv'
<1> USE DEF cluster, stream, verdict, history, Never
<1>1. ASSUME NEW p \in Pods, NEW pod, Change(p, pod) PROVE IInv'
  BY <1>1 DEF IInv, WatchTypes, ReadyPolls, ReadyThroughout, Delivered, HealthSoFar,
     StartedSoFar, Change, Current, Clean
<1>2. ASSUME NEW p \in Pods, NEW line \in Lines, Logs(p, line) PROVE IInv'
  BY <1>2 DEF IInv, WatchTypes, ReadyPolls, ReadyThroughout, Delivered, HealthSoFar,
     StartedSoFar, Logs, Current, Clean
<1>3. CASE Tick
  <2>1. WatchTypes' /\ ReadyThroughout' /\ Delivered' /\ HealthSoFar' /\ StartedSoFar'
    BY <1>3 DEF IInv, WatchTypes, ReadyThroughout, Delivered, HealthSoFar, StartedSoFar,
       Tick, Current, Clean
  <2>2. ReadyPolls'
    BY <1>3 DEF IInv, ReadyPolls, Tick, WatchTypes
  <2> QED BY <2>1, <2>2 DEF IInv
<1>4. CASE TimesOut
  BY <1>4 DEF IInv, WatchTypes, ReadyPolls, ReadyThroughout, Delivered, HealthSoFar,
     StartedSoFar, TimesOut, Current, Clean
<1>5. CASE PollFails
  BY <1>5 DEF IInv, WatchTypes, ReadyPolls, ReadyThroughout, Delivered, HealthSoFar,
     StartedSoFar, PollFails, Current, Clean
<1>6. CASE CheckPodsReady
  <2>1. WatchTypes' /\ Delivered' /\ HealthSoFar' /\ StartedSoFar'
    BY <1>6 DEF IInv, WatchTypes, Delivered, HealthSoFar, StartedSoFar, CheckPodsReady,
       Current, Clean, ReadySince
  <2>2. ReadyPolls'
    BY <1>6 DEF IInv, ReadyPolls, CheckPodsReady, ReadySince, WatchTypes
  <2>3. ReadyThroughout'
    BY <1>6, PodAssumption DEF IInv, ReadyThroughout, CheckPodsReady, ReadySince,
       WatchTypes, ReadyPolls
  <2> QED BY <2>1, <2>2, <2>3 DEF IInv
<1>7. CASE WaitForTerminatingPods
  BY <1>7 DEF IInv, WatchTypes, ReadyPolls, ReadyThroughout, Delivered, HealthSoFar,
     StartedSoFar, WaitForTerminatingPods, Current, Clean
<1>8. CASE ListFails
  BY <1>8 DEF IInv, WatchTypes, ReadyPolls, ReadyThroughout, Delivered, HealthSoFar,
     StartedSoFar, ListFails, Current, Clean
<1>9. CASE List
  BY <1>9 DEF IInv, WatchTypes, ReadyPolls, ReadyThroughout, Delivered, HealthSoFar,
     StartedSoFar, List, Current, Clean, Chosen, RunningAgents
<1>10. CASE OpenStream
  <2>1. ReadyPolls' /\ ReadyThroughout' /\ HealthSoFar' /\ StartedSoFar'
    BY <1>10 DEF IInv, ReadyPolls, ReadyThroughout, HealthSoFar, StartedSoFar, OpenStream,
       Clean, Current, Tail_
  <2>2. WatchTypes'
    BY <1>10, PodAssumption DEF IInv, WatchTypes, OpenStream, Current, Tail_
  <2>3. Delivered'
    <3>1. Current \in todo /\ Current' = Current /\ todo' = todo /\ todo \subseteq Collectors
      BY <1>10 DEF OpenStream, Current, IInv, WatchTypes
    <3>2. text' = <<>> /\ asked'[Current] = rest'
      BY <1>10, <3>1 DEF OpenStream, IInv, WatchTypes
    <3>3. Len(text') = 0 /\ Len(rest') \in Nat
      BY <2>2, <3>2 DEF WatchTypes
    <3> QED BY <3>1, <3>2, <3>3 DEF Delivered
  <2> QED BY <2>1, <2>2, <2>3 DEF IInv
<1>11. CASE ReadStream
  <2>1. WatchTypes' /\ ReadyPolls' /\ ReadyThroughout' /\ HealthSoFar' /\ StartedSoFar'
    BY <1>11 DEF IInv, WatchTypes, ReadyPolls, ReadyThroughout, HealthSoFar, StartedSoFar,
       ReadStream, Clean
  <2>2. Delivered'
    <3>1. Current' = Current /\ todo' = todo /\ asked' = asked /\ Current \in todo
      BY <1>11 DEF ReadStream, Current, IInv, Delivered
    <3>2. /\ Len(asked[Current]) = Len(text) + Len(rest)
          /\ \A k \in 1..Len(text) : asked[Current][k] = text[k]
          /\ \A k \in 1..Len(rest) : asked[Current][Len(text) + k] = rest[k]
      BY <1>11 DEF ReadStream, IInv, Delivered
    <3>3. /\ Len(text) \in Nat /\ Len(rest) \in Nat /\ Len(rest) > 0
          /\ Len(text') = Len(text) + 1 /\ Len(rest') = Len(rest) - 1
          /\ \A k \in 1..Len(text) : text'[k] = text[k]
          /\ text'[Len(text) + 1] = rest[1]
          /\ \A k \in 1..(Len(rest) - 1) : rest'[k] = rest[k + 1]
      BY <1>11 DEF ReadStream, IInv, WatchTypes
    <3>4. ASSUME NEW k \in 1..Len(text') PROVE asked[Current][k] = text'[k]
      <4>1. k \in 1..Len(text) \/ k = Len(text) + 1
        BY <3>3
      <4>2. asked[Current][Len(text) + 1] = rest[1]
        BY <3>2, <3>3
      <4> QED BY <3>2, <3>3, <4>1, <4>2
    <3>5. ASSUME NEW k \in 1..Len(rest') PROVE asked[Current][Len(text') + k] = rest'[k]
      <4>1. k \in Nat /\ k \in 1..(Len(rest) - 1) /\ k + 1 \in 1..Len(rest)
        BY <3>3
      <4>2. asked[Current][Len(text) + (k + 1)] = rest[k + 1]
        BY <3>2, <4>1
      <4>3. Len(text') + k = Len(text) + (k + 1)
        BY <3>3, <4>1
      <4> QED BY <3>3, <4>1, <4>2, <4>3
    <3>6. Len(asked[Current]) = Len(text') + Len(rest')
      BY <3>2, <3>3
    <3> QED BY <3>1, <3>4, <3>5, <3>6 DEF Delivered
  <2> QED BY <2>1, <2>2 DEF IInv
<1>12. CASE AttemptFails
  BY <1>12 DEF IInv, WatchTypes, ReadyPolls, ReadyThroughout, Delivered, HealthSoFar,
     StartedSoFar, AttemptFails, Current, Clean
<1>13. CASE Examine
  <2>1. WatchTypes' /\ ReadyPolls' /\ ReadyThroughout' /\ Delivered'
    BY <1>13 DEF IInv, WatchTypes, ReadyPolls, ReadyThroughout, Delivered, Examine,
       Current, StreamOver, FindMatchingLogLines, ContainsReceiverStartLog
  <2>2. HealthSoFar'
    <3> SUFFICES ASSUME op = "health", ~unhealthy'
                 PROVE  \A p \in listed \ todo' : Clean(asked[p])
      BY <1>13 DEF Examine, IInv, HealthSoFar, StreamOver, Clean
    <3>1. /\ pc = "stream" /\ rest = <<>> /\ todo' = todo \ {Current}
          /\ ~unhealthy /\ FindMatchingLogLines(text) = {}
      BY <1>13 DEF Examine, StreamOver, IInv, WatchTypes
    <3>2. \A k \in 1..Len(text) : text[k] \notin {"error", "warn"}
      BY <3>1 DEF FindMatchingLogLines, IInv, WatchTypes
    <3>3. /\ Current \in todo /\ Len(asked[Current]) = Len(text)
          /\ \A k \in 1..Len(text) : asked[Current][k] = text[k]
      BY <3>1 DEF IInv, Delivered, WatchTypes
    <3>4. Clean(asked[Current])
      BY <3>2, <3>3 DEF Clean, IInv, WatchTypes
    <3>5. \A p \in listed \ todo : Clean(asked[p])
      BY <3>1 DEF IInv, HealthSoFar
    <3> QED BY <3>1, <3>4, <3>5
  <2>3. StartedSoFar'
    <3> SUFFICES ASSUME op = "started" PROVE StartedSoFar'
      BY <1>13 DEF Examine, StartedSoFar
    <3>1. /\ pc = "stream" /\ pc' = "next" /\ rest = <<>>
          /\ started' = ContainsReceiverStartLog(text) /\ UNCHANGED <<listed, asked>>
      BY <1>13 DEF Examine, StreamOver
    <3>2. /\ Current \in listed /\ asked[Current] \in Seq(Lines) /\ Len(asked[Current]) = Len(text)
          /\ \A k \in 1..Len(text) : asked[Current][k] = text[k]
      BY <3>1 DEF IInv, Delivered, WatchTypes
    <3>3. started' => \E k \in DOMAIN asked[Current] : asked[Current][k] = "start"
      <4> SUFFICES ASSUME started' PROVE \E k \in DOMAIN asked[Current] : asked[Current][k] = "start"
        OBVIOUS
      <4>1. DOMAIN text = 1..Len(text) /\ DOMAIN asked[Current] = 1..Len(text)
        BY <3>2 DEF IInv, WatchTypes
      <4>2. PICK k \in DOMAIN text : text[k] = "start"
        BY <3>1 DEF ContainsReceiverStartLog
      <4>3. k \in DOMAIN asked[Current] /\ asked[Current][k] = "start"
        BY <3>2, <4>1, <4>2
      <4> QED BY <4>3
    <3> HIDE DEF Current
    <3> QED BY <3>1, <3>2, <3>3 DEF StartedSoFar, IInv
  <2> QED BY <2>1, <2>2, <2>3 DEF IInv
<1>14. CASE LogsDone
  BY <1>14 DEF IInv, WatchTypes, ReadyPolls, ReadyThroughout, Delivered, HealthSoFar,
     StartedSoFar, LogsDone, Current, Clean
<1>15. CASE UNCHANGED vars
  BY <1>15 DEF vars, IInv, WatchTypes, ReadyPolls, ReadyThroughout, Delivered,
     HealthSoFar, StartedSoFar, Current, Clean
<1> QED BY <1>1, <1>2, <1>3, <1>4, <1>5, <1>6, <1>7, <1>8, <1>9, <1>10, <1>11, <1>12,
           <1>13, <1>14, <1>15
        DEF Next, Check, Over, Starts, Probed, Deleted, Stops, Removed, Created

\* The invariant holds in every state.
THEOREM Invariant == Spec => []IInv
<1>1. Init => IInv
  <2> SUFFICES ASSUME Init PROVE IInv
    OBVIOUS
  <2>1. log \in [Collectors -> Seq(Lines)]
    <3>1. \A line \in Lines : <<line>> \in Seq(Lines)
      OBVIOUS
    <3>2. <<>> \in Seq(Lines)
      OBVIOUS
    <3>3. {<<>>} \cup {<<line>> : line \in Lines} \subseteq Seq(Lines)
      BY <3>1, <3>2
    <3>4. \/ log = [p \in Collectors |-> <<>>]
          \/ log \in [Collectors -> {<<>>} \cup {<<line>> : line \in Lines}]
      BY DEF Init
    <3> QED BY <3>2, <3>3, <3>4
  <2>2. WatchTypes
    <3>1. <<>> \in Seq(Lines)
      OBVIOUS
    <3>2. asked \in [Collectors -> Seq(Lines)] /\ rest \in Seq(Lines) /\ text \in Seq(Lines)
      BY <3>1 DEF Init
    <3>3. now \in Nat /\ readySince \in Int /\ lastBad \in Int
      <4>1. now = 0 /\ readySince = -1 /\ lastBad = -1
        BY DEF Init, Never
      <4> QED BY <4>1
    <3>4. todo = {} /\ listed = {} /\ unhealthy = FALSE /\ started = FALSE
      BY DEF Init
    <3> QED BY <2>1, <3>2, <3>3, <3>4 DEF WatchTypes
  <2>3. ReadyPolls /\ ReadyThroughout /\ Delivered /\ HealthSoFar /\ StartedSoFar
    BY DEF Init, ReadyPolls, ReadyThroughout, Delivered, HealthSoFar, StartedSoFar, Never
  <2> QED BY <2>2, <2>3 DEF IInv
<1>2. IInv /\ [Next]_vars => IInv'
  BY Step
<1> QED BY <1>1, <1>2, PTL DEF Spec

-----------------------------------------------------------------------------
(* What the tests rely on.                                                 *)

\* CheckPodsReady passes only after a whole minReadyTime of polls that saw every
\* pod ready.
THEOREM ReadyMeansThroughout == Spec => []ReadyThroughout
<1>1. IInv => ReadyThroughout
  BY DEF IInv
<1> QED BY <1>1, Invariant, PTL

\* CheckComponentHealth and CheckReceiverStarted judge the whole of the logs they
\* asked for, whatever breaks while they read.
THEOREM VerdictsFromWholeLogs == Spec => []VerdictFromWholeLogs
<1>1. IInv => VerdictFromWholeLogs
  <2> SUFFICES ASSUME IInv, pc = "passed" PROVE VerdictFromWholeLogs
    BY DEF VerdictFromWholeLogs
  <2>1. op = "health" => \A p \in listed : Clean(asked[p])
    BY DEF IInv, HealthSoFar
  <2>2. op = "started" => \E p \in listed \cap ControlPlane : \E k \in DOMAIN asked[p] : asked[p][k] = "start"
    BY DEF IInv, StartedSoFar
  <2> QED BY <2>1, <2>2 DEF VerdictFromWholeLogs, Clean
<1> QED BY <1>1, Invariant, PTL
=============================================================================
