--------------------------- MODULE TestSinksProofs ---------------------------
(***************************************************************************)
(* TestSinks proved for every choice of tests, gateways and metrics: the   *)
(* ports come back, a bind failure is reported, and a subtest that started *)
(* with no collector left sees the telemetry of its own release only.      *)
(***************************************************************************)
EXTENDS TestSinks, TLAPS

\* The sinks of the current level, and how many of them were reached.
List == IF level = "parent" THEN suite.parent ELSE OwnSinks
Made == IF pc = "setup" THEN Len(List) - Len(todo) ELSE Len(List)

Levels  == {"parent", "sub"}
Entry   == [level : Levels, what : DOMAIN PortsOf \cup {"chart"}]
Payload == [gen : Nat, name : Names, token : BOOLEAN]

\* The types of the variables, and which steps belong to which level.
SinkTypes ==
  /\ suite \in Suites /\ sub \in 0..Len(suite.subs)
  /\ level \in Levels /\ (level = "sub" => sub # 0)
  /\ pc \in {"reset", "install", "wait", "passed"} => level = "sub"
  /\ pc \in {"subs", "ended"} => level = "parent"
  /\ stack \in Seq(Entry)
  /\ todo \in Seq(DOMAIN PortsOf)
  /\ bound \in [Ports -> DOMAIN PortsOf \cup {"free", "foreign"}]
  /\ pods \in Seq({"running", "terminating", "gone"})
  /\ received \in Seq(Payload)

\* The cleanups of a subtest are above those of the test, and none is left
\* when the subtest, or the test, has ended.
StackOrder ==
  /\ \A i \in DOMAIN stack : stack[i].level = "sub" => level = "sub"
  /\ \A i, j \in DOMAIN stack : i < j /\ stack[i].level = "sub" => stack[j].level = "sub"
  /\ pc = "ended" => stack = <<>>

\* What is still to be set up is the rest of the list.
TodoIsRest ==
  pc = "setup" =>
    /\ Len(todo) <= Len(List)
    /\ \A k \in DOMAIN todo : todo[k] = List[Len(List) - Len(todo) + k]

\* A cleanup belongs to a sink of its level that was already set up.
StackIsMade ==
  \A i \in DOMAIN stack : stack[i].what # "chart" =>
    /\ stack[i].level = "parent" => \E k \in DOMAIN suite.parent : suite.parent[k] = stack[i].what
    /\ stack[i].level = level => \E k \in 1..Made : List[k] = stack[i].what

\* A port that a sink or the server holds is one of its own, and its cleanup
\* is still to come. A port of another process is none of theirs.
Owners ==
  /\ \A p \in Ports : bound[p] \in Sinks =>
       p \in PortsOf[bound[p]] /\ \E i \in DOMAIN stack : stack[i].what = bound[p]
  /\ \A p \in Ports : bound[p] = "apiServer" <=> (p = 8881 /\ api = "serving")
  /\ \A i \in DOMAIN stack : stack[i].what \in Sinks =>
       \A p \in PortsOf[stack[i].what] : bound[p] # "foreign"

\* The goroutine of the server is awaited as long as it may have an error.
ServerAwaited ==
  api \in {"starting", "serving", "error", "closed", "nil"} =>
    \E i \in DOMAIN stack : stack[i].what = "apiServer"

\* A port that could not be bound is another process's, and the failure is
\* recorded or on its way.
BindFailure ==
  bindFailed => /\ \E p \in Ports : bound[p] = "foreign"
                /\ failed = TRUE \/ api = "error"

\* No collector was left when the sink was made or reset, so that there is none
\* before the installation and only the new ones after it.
Fresh ==
  left = {} =>
    /\ \/ pc = "install"
       \/ pc = "setup" /\ level = "sub" /\ \E k \in 1..Made : List[k] # "apiServer"
       => Alive = {} /\ received = <<>>
    /\ pc \in {"wait", "passed"} =>
         /\ Alive \subseteq {Len(pods)}
         /\ \A k \in DOMAIN received :
              received[k].gen = Len(pods) /\ (NeedsToken(Watched) => received[k].token)

IInv ==
  /\ SinkTypes /\ StackOrder /\ TodoIsRest /\ StackIsMade /\ Owners
  /\ ServerAwaited /\ BindFailure /\ Fresh

\* The ports of the sinks: 8881 is the server's alone, and no sink has a name
\* that means something else.
LEMMA PortFacts ==
  /\ "apiServer" \in DOMAIN PortsOf /\ PortsOf["apiServer"] = {8881} /\ 8881 \in Ports
  /\ Sinks \subseteq DOMAIN PortsOf /\ DOMAIN PortsOf \subseteq Sinks \cup {"apiServer"}
  /\ {"free", "foreign", "chart", "apiServer"} \cap Sinks = {}
  /\ \A s \in DOMAIN PortsOf : PortsOf[s] \subseteq Ports
  /\ \A s \in Sinks : 8881 \notin PortsOf[s]
<1>1. /\ "apiServer" \in DOMAIN PortsOf /\ PortsOf["apiServer"] = {8881}
      /\ {"free", "foreign", "chart", "apiServer"} \cap Sinks = {}
  BY DEF PortsOf, Sinks
<1>2. \A s \in Sinks : 8881 \notin PortsOf[s]
  BY DEF PortsOf, Sinks
<1>3. Sinks \subseteq DOMAIN PortsOf /\ DOMAIN PortsOf \subseteq Sinks \cup {"apiServer"}
  BY DEF Sinks
<1>4. \A s \in DOMAIN PortsOf : PortsOf[s] \subseteq Ports
  BY DEF Ports
<1> QED BY <1>1, <1>2, <1>3, <1>4

\* The sinks of a test, as sequences.
LEMMA ListTypes ==
  ASSUME SinkTypes
  PROVE  /\ suite.parent \in Seq(DOMAIN PortsOf) /\ suite.subs \in Seq(Seq(DOMAIN PortsOf))
         /\ List \in Seq(DOMAIN PortsOf)
         /\ level = "sub" => sub \in DOMAIN suite.subs /\ List = suite.subs[sub]
<1>1. /\ suite.parent \in Seq(DOMAIN PortsOf) /\ suite.subs \in Seq(Seq(DOMAIN PortsOf))
  BY SinkAssumption DEF SinkTypes
<1>2. level = "sub" => sub \in DOMAIN suite.subs /\ List = suite.subs[sub]
  BY <1>1 DEF SinkTypes, List, OwnSinks
<1> QED BY <1>1, <1>2 DEF SinkTypes, List, Levels

\* No sink of the list shares a port with one that is already set up.
LEMMA NextIsApart ==
  ASSUME SinkTypes, StackOrder, TodoIsRest, StackIsMade, pc = "setup", todo # <<>>,
         NEW i \in DOMAIN stack, stack[i].what # "chart"
  PROVE  PortsOf[todo[1]] \cap PortsOf[stack[i].what] = {}
<1>1. /\ List \in Seq(DOMAIN PortsOf) /\ suite \in Suites
      /\ level = "sub" => sub \in DOMAIN suite.subs /\ List = suite.subs[sub]
      /\ level = "parent" => List = suite.parent
  BY ListTypes DEF SinkTypes, List
<1>2. todo \in Seq(DOMAIN PortsOf) /\ 1 \in DOMAIN todo /\ Len(todo) \in Nat /\ Len(todo) >= 1
  BY DEF SinkTypes
<1>3. PICK n \in DOMAIN List : n = Made + 1 /\ todo[1] = List[n]
  BY <1>1, <1>2 DEF TodoIsRest, Made
<1>4. stack[i] \in Entry
  BY DEF SinkTypes
<1>5. CASE stack[i].level = level
  <2>1. PICK k \in 1..Made : List[k] = stack[i].what
    BY <1>5 DEF StackIsMade
  <2>2. k \in DOMAIN List /\ k # n
    BY <1>1, <1>2, <1>3, <2>1 DEF Made
  <2>3. Apart(List)
    BY <1>1, SinkAssumption DEF SinkTypes, Levels
  <2> QED BY <1>3, <2>1, <2>2, <2>3 DEF Apart
<1>6. CASE stack[i].level # level
  <2>1. stack[i].level = "parent" /\ level = "sub"
    BY <1>4, <1>6 DEF StackOrder, SinkTypes, Entry, Levels
  <2>2. PICK k \in DOMAIN suite.parent : suite.parent[k] = stack[i].what
    BY <2>1 DEF StackIsMade
  <2>3. \A j \in DOMAIN suite.parent, l \in DOMAIN suite.subs[sub] :
          PortsOf[suite.parent[j]] \cap PortsOf[suite.subs[sub][l]] = {}
    BY <1>1, <2>1, SinkAssumption
  <2> QED BY <1>1, <1>3, <2>1, <2>2, <2>3
<1> QED BY <1>5, <1>6

\* What Register does to the stack.
LEMMA RegisterFacts ==
  ASSUME SinkTypes, NEW what \in DOMAIN PortsOf \cup {"chart"}, Register(what)
  PROVE  /\ stack' \in Seq(Entry) /\ DOMAIN stack' = 1..(Len(stack) + 1)
         /\ stack'[Len(stack) + 1].what = what /\ stack'[Len(stack) + 1].level = level
         /\ \A i \in DOMAIN stack : i \in DOMAIN stack' /\ stack'[i] = stack[i]
         /\ DOMAIN stack = 1..Len(stack) /\ Len(stack) \in Nat
<1>1. [level |-> level, what |-> what] \in Entry
  BY DEF Entry, SinkTypes
<1> QED BY <1>1 DEF Register, SinkTypes

\* A function on the stack belongs to the test or to the subtest.
LEMMA StackLevels ==
  ASSUME SinkTypes, NEW i \in DOMAIN stack
  PROVE  stack[i].level \in {"parent", "sub"}
<1>1. stack[i] \in Entry
  BY DEF SinkTypes
<1> QED BY <1>1 DEF Entry, Levels

\* What the end of a cleanup does to the stack.
LEMMA PopFacts ==
  ASSUME SinkTypes, NEW what, Cleaning(what), Pop
  PROVE  /\ stack' \in Seq(Entry) /\ DOMAIN stack' = 1..(Len(stack) - 1)
         /\ Len(stack) \in DOMAIN stack /\ stack[Len(stack)].what = what
         /\ \A i \in DOMAIN stack' : i \in DOMAIN stack /\ stack'[i] = stack[i]
         /\ \A i \in DOMAIN stack : i # Len(stack) => i \in DOMAIN stack'
  BY DEF Cleaning, Pop, Newest, SinkTypes

\* What depends only on where the test is.
LEMMA Frame ==
  ASSUME UNCHANGED <<suite, sub, level>>
  PROVE  List' = List /\ Watched' = Watched
  BY DEF List, OwnSinks, Watched

\* A sink that was set up: the list of the rest gets shorter, and the cleanup
\* is that of the sink it began with.
LEMMA SetUp ==
  ASSUME SinkTypes, StackOrder, TodoIsRest, StackIsMade, pc = "setup", todo # <<>>,
         Register(todo[1]), todo' = Tail(todo), UNCHANGED <<suite, sub, level, pc>>
  PROVE  /\ todo' \in Seq(DOMAIN PortsOf) /\ Made \in Nat /\ Made' = Made + 1
         /\ List' = List /\ List[Made + 1] = todo[1]
         /\ StackOrder' /\ TodoIsRest' /\ StackIsMade'
<1>1. /\ List \in Seq(DOMAIN PortsOf) /\ List' = List /\ level \in Levels
      /\ level = "parent" => List = suite.parent
  BY ListTypes, Frame DEF SinkTypes, List
<1>2. /\ todo \in Seq(DOMAIN PortsOf) /\ Len(todo) \in Nat /\ Len(todo) >= 1 /\ todo[1] \in DOMAIN PortsOf
  BY DEF SinkTypes
<1>3. /\ todo' \in Seq(DOMAIN PortsOf) /\ Len(todo') = Len(todo) - 1
      /\ \A k \in DOMAIN todo' : k + 1 \in DOMAIN todo /\ todo'[k] = todo[k + 1]
  BY <1>2
<1>4. /\ Made \in Nat /\ Made' = Made + 1 /\ Made + 1 \in DOMAIN List /\ List[Made + 1] = todo[1]
  BY <1>1, <1>2, <1>3 DEF TodoIsRest, Made
<1>5. TodoIsRest'
  <2>1. Len(todo') <= Len(List)
    BY <1>1, <1>2, <1>3 DEF TodoIsRest
  <2>2. ASSUME NEW k \in DOMAIN todo' PROVE todo'[k] = List[Len(List) - Len(todo') + k]
    <3>1. todo'[k] = List[Len(List) - Len(todo) + (k + 1)]
      BY <1>3, <2>2 DEF TodoIsRest
    <3>2. k \in Nat
      BY <1>3, <2>2
    <3>3. Len(List) - Len(todo) + (k + 1) = Len(List) - Len(todo') + k
      BY <1>1, <1>2, <1>3, <3>2
    <3> QED BY <3>1, <3>3
  <2> QED BY <1>1, <2>1, <2>2 DEF TodoIsRest
<1>6. /\ stack' \in Seq(Entry) /\ DOMAIN stack' = 1..(Len(stack) + 1)
      /\ stack'[Len(stack) + 1].what = todo[1] /\ stack'[Len(stack) + 1].level = level
      /\ \A k \in DOMAIN stack : k \in DOMAIN stack' /\ stack'[k] = stack[k]
      /\ DOMAIN stack = 1..Len(stack) /\ Len(stack) \in Nat
  BY <1>2, RegisterFacts
<1>7. StackOrder'
  BY <1>6 DEF StackOrder
<1>8. StackIsMade'
  <2>1. ASSUME NEW i \in DOMAIN stack', stack'[i].what # "chart"
        PROVE  /\ stack'[i].level = "parent" =>
                    \E k \in DOMAIN suite.parent : suite.parent[k] = stack'[i].what
               /\ stack'[i].level = level => \E k \in 1..(Made + 1) : List[k] = stack'[i].what
    <3>1. CASE i = Len(stack) + 1
      BY <1>1, <1>4, <1>6, <3>1
    <3>2. CASE i \in DOMAIN stack
      BY <1>4, <1>6, <2>1, <3>2 DEF StackIsMade
    <3> QED BY <1>6, <2>1, <3>1, <3>2
  <2> QED BY <1>1, <1>4, <2>1 DEF StackIsMade
<1> QED BY <1>1, <1>3, <1>4, <1>5, <1>7, <1>8

\* A receiver that starts takes free ports; one that does not meets a port that
\* no sink of the test has.
LEMMA StartReceiverStep ==
  ASSUME IInv, NEW s \in Sinks, StartReceiver(s)
  PROVE  IInv'
<1> USE DEF place, held, seen, fate
<1>1. SinkTypes /\ StackOrder /\ TodoIsRest /\ StackIsMade /\ Owners /\ BindFailure
  BY DEF IInv
<1>2. pc = "setup" /\ todo # <<>> /\ todo[1] = s /\ s \in DOMAIN PortsOf
  BY PortFacts DEF StartReceiver
<1>3. ServerAwaited'
  BY DEF IInv, ServerAwaited, StartReceiver, Bind, Register, FailNow, Alive
<1>4. Fresh'
  BY DEF IInv, Fresh, StartReceiver, Made, List, Alive, Bind, Register, FailNow, OwnSinks
<1>5. CASE \A p \in PortsOf[s] : bound[p] = "free"
  <2>1. /\ Register(todo[1]) /\ todo' = Tail(todo) /\ UNCHANGED <<suite, sub, level, pc>>
        /\ UNCHANGED <<pods, api, fate>> /\ Bind(PortsOf[s], s) /\ received' = <<>>
    BY <1>2, <1>5 DEF StartReceiver
  <2>2. todo' \in Seq(DOMAIN PortsOf) /\ StackOrder' /\ TodoIsRest' /\ StackIsMade'
    BY <1>1, <1>2, <2>1, SetUp
  <2>3. /\ stack' \in Seq(Entry) /\ DOMAIN stack' = 1..(Len(stack) + 1)
        /\ stack'[Len(stack) + 1].what = s /\ Len(stack) \in Nat
        /\ \A k \in DOMAIN stack : k \in DOMAIN stack' /\ stack'[k] = stack[k]
        /\ DOMAIN stack = 1..Len(stack)
    BY <1>1, <1>2, <2>1, RegisterFacts
  <2>4. bound' = [p \in Ports |-> IF p \in PortsOf[s] THEN s ELSE bound[p]]
    BY <2>1 DEF Bind
  <2>5. SinkTypes'
    BY <1>1, <1>2, <2>1, <2>2, <2>3, <2>4 DEF SinkTypes
  <2>6. Owners'
    <3>1. ASSUME NEW p \in Ports, bound'[p] \in Sinks
          PROVE  p \in PortsOf[bound'[p]] /\ \E i \in DOMAIN stack' : stack'[i].what = bound'[p]
      <4>1. CASE p \in PortsOf[s]
        BY <2>3, <2>4, <4>1
      <4>2. CASE p \notin PortsOf[s]
        <5>1. bound'[p] = bound[p]
          BY <2>4, <4>2
        <5>2. p \in PortsOf[bound[p]] /\ \E i \in DOMAIN stack : stack[i].what = bound[p]
          BY <1>1, <3>1, <5>1 DEF Owners
        <5> QED BY <2>3, <5>1, <5>2
      <4> QED BY <4>1, <4>2
    <3>2. \A p \in Ports : bound'[p] = "apiServer" <=> (p = 8881 /\ api' = "serving")
      BY <1>1, <2>1, <2>4, PortFacts DEF Owners
    <3>3. ASSUME NEW i \in DOMAIN stack', stack'[i].what \in Sinks, NEW p \in PortsOf[stack'[i].what]
          PROVE  bound'[p] # "foreign"
      <4>1. p \in Ports
        BY <3>3, PortFacts
      <4>2. CASE p \in PortsOf[s]
        BY <2>4, <4>1, <4>2, PortFacts
      <4>3. CASE p \notin PortsOf[s]
        <5>1. i \in DOMAIN stack /\ stack'[i] = stack[i]
          BY <2>3, <3>3, <4>3
        <5> QED BY <1>1, <2>4, <3>3, <4>1, <4>3, <5>1 DEF Owners
      <4> QED BY <4>2, <4>3
    <3> QED BY <3>1, <3>2, <3>3 DEF Owners
  <2>7. BindFailure'
    BY <1>1, <1>5, <2>1, <2>4 DEF BindFailure
  <2> QED BY <1>3, <1>4, <2>2, <2>5, <2>6, <2>7 DEF IInv
<1>6. CASE ~ \A p \in PortsOf[s] : bound[p] = "free"
  <2>1. /\ FailNow /\ bindFailed' = TRUE /\ UNCHANGED <<bound, stack, todo>>
        /\ UNCHANGED <<suite, sub, level, pods, api>> /\ received' = <<>>
    BY <1>6 DEF StartReceiver
  <2>2. SinkTypes'
    BY <1>1, <1>2, <2>1 DEF SinkTypes, FailNow
  <2>3. StackOrder' /\ TodoIsRest' /\ Owners'
    BY <1>1, <2>1 DEF StackOrder, TodoIsRest, Owners, FailNow
  <2>4. StackIsMade'
    <3>1. List \in Seq(DOMAIN PortsOf) /\ List' = List
      BY <1>1, <2>1, ListTypes, Frame
    <3>2. 1..Made \subseteq 1..(Made')
      BY <1>1, <1>2, <2>1, <3>1 DEF Made, FailNow, SinkTypes
    <3> QED BY <1>1, <2>1, <3>1, <3>2 DEF StackIsMade
  <2>5. PICK p \in PortsOf[s] : bound[p] # "free"
    BY <1>6
  <2>6. p \in Ports /\ bound[p] \in Sinks \cup {"apiServer", "foreign"}
    BY <1>1, <1>2, <2>5, PortFacts DEF SinkTypes
  <2>7. bound[p] # "apiServer"
    BY <1>1, <2>6, PortFacts DEF Owners
  <2>8. bound[p] \notin Sinks
    <3>1. SUFFICES ASSUME bound[p] \in Sinks PROVE FALSE
      OBVIOUS
    <3>2. PICK i \in DOMAIN stack : stack[i].what = bound[p]
      BY <1>1, <2>6, <3>1 DEF Owners
    <3>3. p \in PortsOf[stack[i].what] /\ stack[i].what # "chart"
      BY <1>1, <2>6, <3>1, <3>2, PortFacts DEF Owners
    <3> QED BY <1>1, <1>2, <2>5, <3>3, NextIsApart
  <2>9. BindFailure'
    BY <2>1, <2>6, <2>7, <2>8 DEF BindFailure, FailNow
  <2> QED BY <1>3, <1>4, <2>2, <2>3, <2>4, <2>9 DEF IInv
<1> QED BY <1>5, <1>6

\* The server is set up when none is there: its port is the list's only once.
LEMMA SetupServerStep ==
  ASSUME IInv, SetupSignalFxAPIServer
  PROVE  IInv'
<1> USE DEF place, held, seen, fate
<1>1. SinkTypes /\ StackOrder /\ TodoIsRest /\ StackIsMade /\ Owners /\ ServerAwaited /\ BindFailure /\ Fresh
  BY DEF IInv
<1>2. /\ pc = "setup" /\ todo # <<>> /\ todo[1] = "apiServer" /\ Register(todo[1])
      /\ api' = "starting" /\ todo' = Tail(todo)
      /\ UNCHANGED <<suite, sub, level, pc, bound, pods, seen, fate>>
  BY DEF SetupSignalFxAPIServer
<1>3. /\ todo' \in Seq(DOMAIN PortsOf) /\ Made \in Nat /\ Made' = Made + 1
      /\ List' = List /\ List[Made + 1] = "apiServer"
      /\ StackOrder' /\ TodoIsRest' /\ StackIsMade'
  BY <1>1, <1>2, SetUp
<1>4. /\ stack' \in Seq(Entry) /\ DOMAIN stack' = 1..(Len(stack) + 1)
      /\ stack'[Len(stack) + 1].what = "apiServer" /\ Len(stack) \in Nat
      /\ \A k \in DOMAIN stack : k \in DOMAIN stack' /\ stack'[k] = stack[k]
      /\ DOMAIN stack = 1..Len(stack)
  BY <1>1, <1>2, RegisterFacts, PortFacts
<1>5. \A i \in DOMAIN stack : stack[i].what # "apiServer"
  BY <1>1, <1>2, NextIsApart, PortFacts
<1>6. api # "serving" /\ api # "error"
  BY <1>1, <1>5 DEF ServerAwaited
<1>7. SinkTypes'
  BY <1>1, <1>2, <1>3, <1>4 DEF SinkTypes
<1>8. Owners'
  <2>1. \A p \in Ports : bound[p] \in Sinks =>
          p \in PortsOf[bound[p]] /\ \E i \in DOMAIN stack' : stack'[i].what = bound[p]
    BY <1>1, <1>4 DEF Owners
  <2>2. \A p \in Ports : bound[p] = "apiServer" <=> (p = 8881 /\ api' = "serving")
    BY <1>1, <1>2, <1>6 DEF Owners
  <2>3. ASSUME NEW i \in DOMAIN stack', stack'[i].what \in Sinks
        PROVE  \A p \in PortsOf[stack'[i].what] : bound[p] # "foreign"
    <3>1. i \in DOMAIN stack /\ stack'[i] = stack[i]
      BY <1>4, <2>3, PortFacts
    <3> QED BY <1>1, <2>3, <3>1 DEF Owners
  <2> QED BY <1>2, <2>1, <2>2, <2>3 DEF Owners
<1>9. ServerAwaited'
  BY <1>4 DEF ServerAwaited
<1>10. BindFailure'
  BY <1>1, <1>2, <1>6 DEF BindFailure
<1>11. Fresh'
  <2>1. Alive' = Alive /\ Watched' = Watched
    BY <1>2, Frame DEF Alive
  <2>2. (\E k \in 1..(Made + 1) : List[k] # "apiServer") => \E k \in 1..Made : List[k] # "apiServer"
    BY <1>3
  <2> QED BY <1>1, <1>2, <1>3, <2>1, <2>2 DEF Fresh
<1> QED BY <1>3, <1>7, <1>8, <1>9, <1>10, <1>11 DEF IInv

\* What a cleanup other than the server's leaves as it was.
LEMMA PopKeeps ==
  ASSUME SinkTypes, StackOrder, TodoIsRest, StackIsMade, ServerAwaited,
         NEW what, Cleaning(what), Pop, what # "apiServer", UNCHANGED <<place, pc, api>>
  PROVE  StackOrder' /\ TodoIsRest' /\ StackIsMade' /\ ServerAwaited'
<1> USE DEF place
<1>1. /\ stack' \in Seq(Entry) /\ DOMAIN stack' = 1..(Len(stack) - 1)
      /\ Len(stack) \in DOMAIN stack /\ stack[Len(stack)].what = what
      /\ \A i \in DOMAIN stack' : i \in DOMAIN stack /\ stack'[i] = stack[i]
      /\ \A i \in DOMAIN stack : i # Len(stack) => i \in DOMAIN stack'
  BY PopFacts
<1>2. List' = List /\ Made' = Made
  BY Frame DEF Made
<1>3. StackOrder'
  BY <1>1 DEF StackOrder, Cleaning
<1>4. TodoIsRest'
  BY <1>2 DEF TodoIsRest
<1>5. StackIsMade'
  BY <1>1, <1>2 DEF StackIsMade
<1>6. ServerAwaited'
  BY <1>1 DEF ServerAwaited
<1> QED BY <1>3, <1>4, <1>5, <1>6

\* The cleanup of a sink frees its ports, which are nobody else's.
LEMMA CleanupSinkStep ==
  ASSUME IInv, NEW s \in Sinks, CleanupSink(s)
  PROVE  IInv'
<1> USE DEF place, held, seen, fate
<1>1. SinkTypes /\ StackOrder /\ TodoIsRest /\ StackIsMade /\ Owners /\ ServerAwaited /\ BindFailure /\ Fresh
  BY DEF IInv
<1>2. /\ Cleaning(s) /\ Pop /\ Bind(PortsOf[s], "free") /\ failed' \in {failed, TRUE}
      /\ UNCHANGED <<place, pc, api, pods, seen, bindFailed>>
  BY DEF CleanupSink
<1>3. s # "apiServer" /\ s \in DOMAIN PortsOf /\ PortsOf[s] \subseteq Ports /\ 8881 \notin PortsOf[s]
  BY PortFacts
<1>4. StackOrder' /\ TodoIsRest' /\ StackIsMade' /\ ServerAwaited'
  BY <1>1, <1>2, <1>3, PopKeeps
<1>5. /\ stack' \in Seq(Entry) /\ Len(stack) \in DOMAIN stack /\ stack[Len(stack)].what = s
      /\ \A i \in DOMAIN stack' : i \in DOMAIN stack /\ stack'[i] = stack[i]
      /\ \A i \in DOMAIN stack : i # Len(stack) => i \in DOMAIN stack'
  BY <1>1, <1>2, PopFacts
<1>6. bound' = [p \in Ports |-> IF p \in PortsOf[s] THEN "free" ELSE bound[p]]
  BY <1>2 DEF Bind
<1>7. SinkTypes'
  BY <1>1, <1>2, <1>5, <1>6 DEF SinkTypes
<1>8. Owners'
  <2>1. ASSUME NEW p \in Ports, bound'[p] \in Sinks
        PROVE  p \in PortsOf[bound'[p]] /\ \E i \in DOMAIN stack' : stack'[i].what = bound'[p]
    <3>1. p \notin PortsOf[s] /\ bound'[p] = bound[p]
      BY <1>6, <2>1, PortFacts
    <3>2. p \in PortsOf[bound[p]] /\ \E i \in DOMAIN stack : stack[i].what = bound[p]
      BY <1>1, <2>1, <3>1 DEF Owners
    <3> QED BY <1>5, <3>1, <3>2
  <2>2. \A p \in Ports : bound'[p] = "apiServer" <=> (p = 8881 /\ api' = "serving")
    BY <1>1, <1>2, <1>3, <1>6 DEF Owners
  <2>3. ASSUME NEW i \in DOMAIN stack', stack'[i].what \in Sinks, NEW p \in PortsOf[stack'[i].what]
        PROVE  bound'[p] # "foreign"
    BY <1>1, <1>5, <1>6, <2>3, PortFacts DEF Owners
  <2> QED BY <2>1, <2>2, <2>3 DEF Owners
<1>9. BindFailure'
  <2>1. \A p \in Ports : bound[p] = "foreign" => bound'[p] = "foreign"
    BY <1>1, <1>5, <1>6 DEF Owners
  <2> QED BY <1>1, <1>2, <2>1 DEF BindFailure
<1>10. Fresh'
  BY <1>2 DEF Fresh, Cleaning
<1> QED BY <1>4, <1>7, <1>8, <1>9, <1>10 DEF IInv

\* Every step preserves the invariant.
LEMMA Step ==
  ASSUME IInv, [Next]_vars
  PROVE  IInv'
<1> USE DEF place, held, seen, fate
<1>0. SinkTypes /\ StackOrder /\ TodoIsRest /\ StackIsMade /\ Owners /\ ServerAwaited /\ BindFailure /\ Fresh
  BY DEF IInv
<1>1. ASSUME NEW s \in Sinks, StartReceiver(s) PROVE IInv'
  BY <1>1, StartReceiverStep
<1>2. CASE SetupSignalFxAPIServer
  BY <1>2, SetupServerStep
<1>3. CASE ListenAndServe
  <2>1. StackOrder' /\ TodoIsRest' /\ StackIsMade' /\ ServerAwaited'
    BY <1>3 DEF IInv, StackOrder, TodoIsRest, StackIsMade, ServerAwaited, ListenAndServe,
       List, Made, Bind, OwnSinks, Newest
  <2>2. SinkTypes'
    <3>1. bound' \in [Ports -> DOMAIN PortsOf \cup {"free", "foreign"}]
      BY <1>3, <1>0, PortFacts DEF SinkTypes, ListenAndServe, Bind
    <3> QED BY <1>3, <1>0, <3>1 DEF SinkTypes, ListenAndServe
  <2>3. Owners'
    BY <1>3, SinkAssumption, PortFacts DEF IInv, Owners, ListenAndServe, Bind
  <2>4. BindFailure'
    <3>1. CASE bound[8881] = "free"
      <4>1. /\ bound' = [p \in Ports |-> IF p \in {8881} THEN "apiServer" ELSE bound[p]]
            /\ UNCHANGED fate /\ api # "error"
        BY <1>3, <3>1 DEF ListenAndServe, Bind
      <4> QED BY <1>0, <3>1, <4>1 DEF BindFailure
    <3>2. CASE bound[8881] # "free"
      <4>1. bound[8881] = "foreign"
        <5>1. 8881 \in Ports /\ bound[8881] \in Sinks \cup {"apiServer", "foreign"} /\ api # "serving"
          BY <1>0, <1>3, <3>2, PortFacts DEF SinkTypes, ListenAndServe
        <5> QED BY <1>0, <5>1, PortFacts DEF Owners
      <4> QED BY <1>3, <3>2, <4>1, PortFacts DEF ListenAndServe, BindFailure
    <3> QED BY <3>1, <3>2
  <2>5. Fresh'
    <3>1. List' = List /\ Watched' = Watched /\ Alive' = Alive
      BY <1>3, Frame DEF ListenAndServe, Alive
    <3> QED BY <1>0, <1>3, <3>1 DEF Fresh, Made, ListenAndServe
  <2> QED BY <2>1, <2>2, <2>3, <2>4, <2>5 DEF IInv
<1>4. CASE SetupDone
  <2>1. StackOrder' /\ TodoIsRest' /\ StackIsMade' /\ Owners' /\ ServerAwaited' /\ BindFailure'
    BY <1>4 DEF IInv, StackOrder, TodoIsRest, StackIsMade, Owners, ServerAwaited,
       BindFailure, SetupDone, List, Made, OwnSinks, Newest
  <2>2. SinkTypes'
    BY <1>0, <1>4 DEF SinkTypes, SetupDone, Levels
  <2>3. Fresh'
    <3>1. List' = List /\ Watched' = Watched /\ Alive' = Alive
      BY <1>4, Frame DEF SetupDone, Alive
    <3>2. ASSUME pc' = "install" PROVE level = "sub" /\ \E k \in 1..Made : List[k] # "apiServer"
      <4>1. level = "sub" /\ OwnSinks # <<>> /\ todo = <<>> /\ pc = "setup"
        BY <1>0, <1>4, <3>2 DEF SetupDone, SinkTypes, Levels
      <4>2. List \in Seq(DOMAIN PortsOf) /\ sub \in DOMAIN suite.subs /\ List = suite.subs[sub] /\ suite \in Suites
        BY <1>0, <4>1, ListTypes DEF SinkTypes
      <4>3. \E k \in DOMAIN List : List[k] # "apiServer"
        BY <4>1, <4>2, SinkAssumption DEF OwnSinks
      <4> QED BY <4>1, <4>2, <4>3 DEF Made
    <3> QED BY <1>0, <1>4, <3>1, <3>2 DEF Fresh, SetupDone
  <2> QED BY <2>1, <2>2, <2>3 DEF IInv
<1>5. CASE NextSub
  <2>1. StackOrder'
    BY <1>5 DEF IInv, StackOrder, NextSub
  <2>2. TodoIsRest'
    BY <1>5 DEF IInv, TodoIsRest, NextSub, List, OwnSinks, Newest
  <2>3. Owners'
    BY <1>5 DEF IInv, Owners, NextSub
  <2>4. ServerAwaited'
    BY <1>5 DEF IInv, ServerAwaited, NextSub
  <2>5. BindFailure'
    BY <1>5 DEF IInv, BindFailure, NextSub
  <2>6. Fresh'
    BY <1>5 DEF IInv, Fresh, NextSub, Made, List, Alive, OwnSinks, Newest
  <2>7. SinkTypes'
    <3>1. suite.subs \in Seq(Seq(DOMAIN PortsOf))
      BY <1>0, ListTypes
    <3> QED BY <1>0, <1>5, <3>1 DEF SinkTypes, NextSub, Levels
  <2>8. StackIsMade'
    <3>1. pc = "subs" /\ level = "parent" /\ List = suite.parent /\ Made = Len(List)
      BY <1>0, <1>5 DEF NextSub, SinkTypes, List, Made
    <3>2. \A i \in DOMAIN stack : stack[i].level = "parent"
      BY <1>0, <3>1, StackLevels DEF StackOrder
    <3>3. CASE sub < Len(suite.subs)
      BY <1>0, <1>5, <3>2, <3>3 DEF NextSub, StackIsMade
    <3>4. CASE ~ (sub < Len(suite.subs))
      <4>1. List' = List /\ Made' = Made
        BY <1>5, <3>1, <3>4, Frame DEF NextSub, Made
      <4> QED BY <1>0, <1>5, <3>4, <4>1 DEF NextSub, StackIsMade
    <3> QED BY <3>3, <3>4
  <2> QED BY <2>1, <2>2, <2>3, <2>4, <2>5, <2>6, <2>7, <2>8 DEF IInv
<1>6. CASE Reset
  BY <1>6 DEF IInv, SinkTypes, StackOrder, TodoIsRest, StackIsMade, Owners, ServerAwaited,
     BindFailure, Fresh, Reset, Payload, List, Made, Alive, Emptied, OwnSinks, Newest
<1>7. CASE BasicCollectorChartInstall
  <2>1. StackOrder'
    <3>1. CASE endpoint' = "none"
      BY <1>0, <1>7, <3>1 DEF StackOrder, BasicCollectorChartInstall, FailNow
    <3>2. CASE endpoint' # "none"
      <4>1. /\ DOMAIN stack' = 1..(Len(stack) + 1) /\ stack'[Len(stack) + 1].level = level
            /\ \A i \in DOMAIN stack : i \in DOMAIN stack' /\ stack'[i] = stack[i]
            /\ DOMAIN stack = 1..Len(stack) /\ Len(stack) \in Nat
        BY <1>0, <1>7, <3>2, RegisterFacts DEF BasicCollectorChartInstall
      <4>2. level = "sub" /\ pc' = "wait" /\ level' = level
        BY <1>0, <1>7, <3>2 DEF BasicCollectorChartInstall, SinkTypes
      <4> QED BY <1>0, <4>1, <4>2 DEF StackOrder
    <3> QED BY <3>1, <3>2
  <2>2. TodoIsRest'
    BY <1>7 DEF IInv, TodoIsRest, BasicCollectorChartInstall, List, FailNow, Register,
       OwnSinks, Newest
  <2>3. StackIsMade'
    BY <1>7 DEF IInv, StackIsMade, BasicCollectorChartInstall, Made, List, FailNow,
       Register, OwnSinks, Newest
  <2>4. ServerAwaited'
    BY <1>7 DEF IInv, ServerAwaited, BasicCollectorChartInstall, FailNow, Register
  <2>5. BindFailure'
    BY <1>7 DEF IInv, BindFailure, BasicCollectorChartInstall, FailNow, Register
  <2>6. Fresh'
    BY <1>7 DEF IInv, Fresh, BasicCollectorChartInstall, Made, List, Alive, FailNow,
       Register, OwnSinks, Newest
  <2>7. SinkTypes'
    <3>1. CASE endpoint' = "none"
      BY <1>0, <1>7, <3>1 DEF SinkTypes, BasicCollectorChartInstall, FailNow
    <3>2. CASE endpoint' # "none"
      <4>1. stack' \in Seq(Entry)
        BY <1>0, <1>7, <3>2, RegisterFacts DEF BasicCollectorChartInstall
      <4>2. pods' \in Seq({"running", "terminating", "gone"})
        <5>1. pods \in Seq({"running", "terminating", "gone"}) /\ pods' = Append(pods, "running")
          BY <1>0, <1>7, <3>2 DEF SinkTypes, BasicCollectorChartInstall
        <5> QED BY <5>1
      <4>3. pc' = "wait" /\ level = "sub" /\ UNCHANGED <<place, bound, received>>
        BY <1>0, <1>7, <3>2 DEF SinkTypes, BasicCollectorChartInstall
      <4> QED BY <1>0, <4>1, <4>2, <4>3 DEF SinkTypes
    <3> QED BY <3>1, <3>2
  <2>8. Owners'
    <3>1. CASE endpoint' = "none"
      BY <1>0, <1>7, <3>1 DEF Owners, BasicCollectorChartInstall
    <3>2. CASE endpoint' # "none"
      <4>1. /\ DOMAIN stack' = 1..(Len(stack) + 1) /\ stack'[Len(stack) + 1].what = "chart"
            /\ \A i \in DOMAIN stack : i \in DOMAIN stack' /\ stack'[i] = stack[i]
            /\ DOMAIN stack = 1..Len(stack) /\ Len(stack) \in Nat
        BY <1>0, <1>7, <3>2, RegisterFacts DEF BasicCollectorChartInstall
      <4>2. \A i \in DOMAIN stack' : stack'[i].what \in Sinks => i \in DOMAIN stack
        BY <4>1, PortFacts
      <4> QED BY <1>0, <1>7, <4>1, <4>2 DEF Owners, BasicCollectorChartInstall
    <3> QED BY <3>1, <3>2
  <2> QED BY <2>1, <2>2, <2>3, <2>4, <2>5, <2>6, <2>7, <2>8 DEF IInv
<1>8. ASSUME NEW g \in DOMAIN pods, NEW name \in Names, NEW token \in BOOLEAN, Send(g, name, token) PROVE IInv'
  <2>1. SinkTypes' /\ StackOrder' /\ TodoIsRest' /\ StackIsMade' /\ Owners' /\ ServerAwaited' /\ BindFailure'
    BY <1>8 DEF IInv, SinkTypes, StackOrder, TodoIsRest, StackIsMade, Owners,
       ServerAwaited, BindFailure, Send, Payload, List, Made, Alive, OwnSinks, Newest
  <2>2. Fresh'
    <3>1. List' = List /\ Watched' = Watched /\ Alive' = Alive /\ g \in Alive
      BY <1>8, Frame DEF Send, Alive
    <3>2. /\ DOMAIN received' = 1..(Len(received) + 1) /\ DOMAIN received = 1..Len(received)
          /\ Len(received) \in Nat
          /\ received'[Len(received) + 1] = [gen |-> g, name |-> name, token |-> token]
          /\ \A k \in DOMAIN received : received'[k] = received[k]
      BY <1>0, <1>8 DEF Send, SinkTypes
    <3>3. left' = left /\ pc' = pc /\ level' = level /\ Made' = Made /\ (NeedsToken(Watched) => token)
      BY <1>8, <3>1 DEF Send, Made
    <3>4. ASSUME left = {}, pc \in {"wait", "passed"}, NEW k \in DOMAIN received'
          PROVE  received'[k].gen = Len(pods) /\ (NeedsToken(Watched) => received'[k].token)
      <4>1. CASE k = Len(received) + 1
        BY <1>0, <3>1, <3>2, <3>3, <3>4, <4>1 DEF Fresh
      <4>2. CASE k \in DOMAIN received
        BY <1>0, <3>2, <3>4, <4>2 DEF Fresh
      <4> QED BY <3>2, <3>4, <4>1, <4>2
    <3>5. pods' = pods
      BY <1>8 DEF Send
    <3> QED BY <1>0, <3>1, <3>3, <3>4, <3>5 DEF Fresh
  <2> QED BY <2>1, <2>2 DEF IInv
<1>9. ASSUME NEW g \in DOMAIN pods, Terminated(g) PROVE IInv'
  <2>1. SinkTypes' /\ StackOrder' /\ TodoIsRest' /\ StackIsMade' /\ Owners' /\ ServerAwaited' /\ BindFailure'
    BY <1>9 DEF IInv, SinkTypes, StackOrder, TodoIsRest, StackIsMade, Owners,
       ServerAwaited, BindFailure, Terminated, Payload, List, Made, OwnSinks, Newest
  <2>2. Fresh'
    <3>1. List' = List /\ Watched' = Watched /\ Made' = Made
      BY <1>9, Frame DEF Terminated, Made
    <3>2. Alive' \subseteq Alive /\ Len(pods') = Len(pods)
      BY <1>0, <1>9 DEF Terminated, SinkTypes, Alive
    <3> QED BY <1>0, <1>9, <3>1, <3>2 DEF Fresh, Terminated
  <2> QED BY <2>1, <2>2 DEF IInv
<1>10. CASE CheckMetrics
  <2>1. SinkTypes' /\ StackOrder' /\ TodoIsRest' /\ StackIsMade' /\ Owners' /\ ServerAwaited' /\ BindFailure'
    BY <1>10 DEF IInv, SinkTypes, StackOrder, TodoIsRest, StackIsMade, Owners,
       ServerAwaited, BindFailure, CheckMetrics, Payload, List, Made, OwnSinks, Newest
  <2>2. Fresh'
    <3>1. List' = List /\ Watched' = Watched /\ Alive' = Alive
      BY <1>10, Frame DEF CheckMetrics, Alive
    <3> QED BY <1>0, <1>10, <3>1 DEF Fresh, Made, CheckMetrics
  <2> QED BY <2>1, <2>2 DEF IInv
<1>11. CASE WaitFor
  <2>1. SinkTypes' /\ StackOrder' /\ TodoIsRest' /\ StackIsMade' /\ Owners' /\ ServerAwaited' /\ BindFailure'
    BY <1>11 DEF IInv, SinkTypes, StackOrder, TodoIsRest, StackIsMade, Owners,
       ServerAwaited, BindFailure, WaitFor, Payload, List, Made, OwnSinks, Newest
  <2>2. Fresh'
    <3>1. List' = List /\ Watched' = Watched /\ Alive' = Alive
      BY <1>11, Frame DEF WaitFor, Alive
    <3> QED BY <1>0, <1>11, <3>1 DEF Fresh, Made, WaitFor
  <2> QED BY <2>1, <2>2 DEF IInv
<1>12. CASE WaitTimesOut
  BY <1>12 DEF IInv, SinkTypes, StackOrder, TodoIsRest, StackIsMade, Owners,
     ServerAwaited, BindFailure, Fresh, WaitTimesOut, Payload, List, Made, Alive, FailNow,
     OwnSinks, Newest
<1>13. CASE CheckNoReceived
  BY <1>13 DEF IInv, SinkTypes, StackOrder, TodoIsRest, StackIsMade, Owners,
     ServerAwaited, BindFailure, Fresh, CheckNoReceived, Payload, List, Made, Alive, FailNow,
     OwnSinks, Newest
<1>14. CASE Passed
  BY <1>14 DEF IInv, SinkTypes, StackOrder, TodoIsRest, StackIsMade, Owners,
     ServerAwaited, BindFailure, Fresh, Passed, Payload, List, Made, Alive, OwnSinks, Newest
<1>15. CASE CleanupChart
  <2>1. Cleaning("chart") /\ Pop /\ UNCHANGED <<place, pc, bound, api, seen, fate>>
    BY <1>15 DEF CleanupChart
  <2>2. /\ stack' \in Seq(Entry) /\ Len(stack) \in DOMAIN stack /\ stack[Len(stack)].what = "chart"
        /\ \A i \in DOMAIN stack' : i \in DOMAIN stack /\ stack'[i] = stack[i]
        /\ \A i \in DOMAIN stack : i # Len(stack) => i \in DOMAIN stack'
    BY <1>0, <2>1, PopFacts
  <2>3. StackOrder' /\ TodoIsRest' /\ StackIsMade' /\ ServerAwaited'
    BY <1>0, <2>1, PopKeeps
  <2>4. SinkTypes'
    <3>1. pods' \in Seq({"running", "terminating", "gone"})
      <4>1. pods \in Seq({"running", "terminating", "gone"})
        BY <1>0 DEF SinkTypes
      <4>2. pods' = [g \in 1..Len(pods) |-> IF pods[g] = "running" THEN "terminating" ELSE pods[g]]
        BY <1>15, <4>1 DEF CleanupChart
      <4> QED BY <4>1, <4>2
    <3> QED BY <1>0, <2>1, <2>2, <3>1 DEF SinkTypes
  <2>5. Owners'
    BY <1>0, <2>1, <2>2, PortFacts DEF Owners
  <2>6. BindFailure'
    BY <1>0, <2>1 DEF BindFailure
  <2>7. Fresh'
    BY <2>1 DEF Fresh, Cleaning
  <2> QED BY <2>3, <2>4, <2>5, <2>6, <2>7 DEF IInv
<1>16. ASSUME NEW s \in Sinks, CleanupSink(s) PROVE IInv'
  BY <1>16, CleanupSinkStep
<1>17. CASE CloseAPIServer
  <2>1. SinkTypes' /\ StackOrder' /\ TodoIsRest' /\ StackIsMade' /\ ServerAwaited' /\ Fresh'
    BY <1>17 DEF IInv, SinkTypes, StackOrder, TodoIsRest, StackIsMade, ServerAwaited,
       Fresh, CloseAPIServer, Payload, List, Made, Alive, Cleaning, Bind, OwnSinks, Newest
  <2>2. Owners'
    <3>1. CASE api = "serving"
      <4>1. /\ bound' = [p \in Ports |-> IF p \in {8881} THEN "free" ELSE bound[p]]
            /\ stack' = stack /\ api' = "closed"
        BY <1>17, <3>1 DEF CloseAPIServer, Bind
      <4>2. \A p \in Ports : bound'[p] \in Sinks => bound'[p] = bound[p]
        BY <4>1, PortFacts
      <4> QED BY <1>0, <4>1, <4>2, PortFacts DEF Owners
    <3>2. CASE api # "serving"
      BY <1>0, <1>17, <3>2 DEF CloseAPIServer, Owners
    <3> QED BY <3>1, <3>2
  <2>3. BindFailure'
    BY <1>17 DEF IInv, BindFailure, CloseAPIServer, Cleaning, Bind, Newest, Owners
  <2> QED BY <2>1, <2>2, <2>3 DEF IInv
<1>18. CASE ServeEnds
  <2>1. SinkTypes' /\ StackOrder' /\ TodoIsRest' /\ StackIsMade' /\ Owners' /\ ServerAwaited' /\ BindFailure'
    BY <1>18 DEF IInv, SinkTypes, StackOrder, TodoIsRest, StackIsMade, Owners,
       ServerAwaited, BindFailure, ServeEnds, Payload, List, Made, ClosedSends, OwnSinks,
       Newest
  <2>2. Fresh'
    <3>1. List' = List /\ Watched' = Watched /\ Alive' = Alive
      BY <1>18, Frame DEF ServeEnds, Alive
    <3> QED BY <1>0, <1>18, <3>1 DEF Fresh, Made, ServeEnds
  <2> QED BY <2>1, <2>2 DEF IInv
<1>19. CASE ReceiveErr
  <2>1. SinkTypes'
    BY <1>19 DEF IInv, SinkTypes, ReceiveErr, Payload, Cleaning, Pop, ErrorFails, Newest
  <2>2. StackOrder'
    BY <1>19 DEF IInv, StackOrder, ReceiveErr, Cleaning, Pop, ErrorFails, Newest
  <2>3. TodoIsRest'
    BY <1>19 DEF IInv, TodoIsRest, ReceiveErr, List, Cleaning, Pop, ErrorFails, OwnSinks,
       Newest
  <2>4. StackIsMade'
    BY <1>19 DEF IInv, StackIsMade, ReceiveErr, Made, List, Cleaning, Pop, ErrorFails,
       OwnSinks, Newest
  <2>5. ServerAwaited'
    BY <1>19 DEF IInv, ServerAwaited, ReceiveErr, Cleaning, Pop, ErrorFails, Newest
  <2>6. BindFailure'
    BY <1>19 DEF IInv, BindFailure, ReceiveErr, Cleaning, Pop, ErrorFails, Newest
  <2>7. Fresh'
    BY <1>19 DEF IInv, Fresh, ReceiveErr, Made, List, Alive, Cleaning, Pop, ErrorFails,
       OwnSinks, Newest
  <2>8. Owners'
    <3>1. Cleaning("apiServer") /\ Pop /\ api # "serving" /\ api' # "serving" /\ bound' = bound
      BY <1>19 DEF ReceiveErr
    <3>2. /\ Len(stack) \in DOMAIN stack /\ stack[Len(stack)].what = "apiServer"
          /\ \A i \in DOMAIN stack' : i \in DOMAIN stack /\ stack'[i] = stack[i]
          /\ \A i \in DOMAIN stack : i # Len(stack) => i \in DOMAIN stack'
      BY <1>0, <3>1, PopFacts
    <3> QED BY <1>0, <3>1, <3>2, PortFacts DEF Owners
  <2> QED BY <2>1, <2>2, <2>3, <2>4, <2>5, <2>6, <2>7, <2>8 DEF IInv
<1>20. CASE LevelEnds
  <2>1. TodoIsRest' /\ StackIsMade' /\ Owners' /\ ServerAwaited' /\ BindFailure' /\ Fresh'
    BY <1>20 DEF IInv, TodoIsRest, StackIsMade, Owners, ServerAwaited, BindFailure, Fresh,
       LevelEnds, List, Made, Alive, Newest, OwnSinks
  <2>2. SinkTypes'
    BY <1>0, <1>20 DEF SinkTypes, LevelEnds, Levels
  <2>3. StackOrder'
    <3>1. \A i \in DOMAIN stack : stack[i].level = "parent" \/ level = "sub"
      BY <1>0, StackLevels DEF StackOrder
    <3>2. stack # <<>> => Len(stack) \in DOMAIN stack /\ stack[Len(stack)].level # level
      BY <1>0, <1>20 DEF SinkTypes, LevelEnds, Newest
    <3>3. CASE level = "sub"
      <4>1. \A i \in DOMAIN stack : stack[i].level # "sub"
        BY <1>0, <3>2, <3>3 DEF StackOrder, SinkTypes
      <4> QED BY <1>20, <3>3, <4>1 DEF StackOrder, LevelEnds
    <3>4. CASE level = "parent"
      <4>1. stack = <<>>
        BY <1>0, <3>1, <3>2, <3>4
      <4> QED BY <1>20, <4>1 DEF StackOrder, LevelEnds
    <3> QED BY <1>0, <3>3, <3>4 DEF SinkTypes, Levels
  <2> QED BY <2>1, <2>2, <2>3 DEF IInv
<1>21. CASE UNCHANGED vars
  <2>1. List' = List /\ Watched' = Watched /\ Alive' = Alive /\ Made' = Made
    BY <1>21, Frame DEF vars, Alive, Made
  <2>2. SinkTypes' /\ StackOrder' /\ TodoIsRest' /\ StackIsMade'
    BY <1>0, <1>21, <2>1 DEF vars, SinkTypes, StackOrder, TodoIsRest, StackIsMade
  <2>3. Owners' /\ ServerAwaited' /\ BindFailure'
    BY <1>0, <1>21 DEF vars, Owners, ServerAwaited, BindFailure
  <2>4. Fresh'
    BY <1>0, <1>21, <2>1 DEF vars, Fresh
  <2> QED BY <2>2, <2>3, <2>4 DEF IInv
<1>22. CASE SetupHECSink \/ SetupOTLPTracesSink \/ SetupOTLPLogsSink \/ SetupSignalfxReceiver
  <2>1. PICK s : s \in Sinks /\ StartReceiver(s)
    BY <1>22 DEF SetupHECSink, SetupOTLPTracesSink, SetupOTLPLogsSink, SetupSignalfxReceiver, Sinks, PortsOf
  <2> QED BY <1>1, <2>1
<1>23. CASE Test
  BY <1>2, <1>4, <1>5, <1>6, <1>7, <1>11, <1>13, <1>14, <1>15, <1>16, <1>17, <1>19, <1>20,
     <1>22, <1>23 DEF Test
<1>24. CASE Ended
  BY <1>21, <1>24 DEF Ended
<1> QED BY <1>3, <1>8, <1>9, <1>10, <1>12, <1>18, <1>21, <1>23, <1>24 DEF Next

\* The test starts in the invariant.
LEMMA Start ==
  ASSUME Init
  PROVE  IInv
<1>1. /\ suite \in Suites /\ sub = 0 /\ level = "parent" /\ pc = "setup" /\ todo = suite.parent
      /\ stack = <<>> /\ api = "none" /\ pods = <<>> /\ received = <<>> /\ bindFailed = FALSE
  BY DEF Init
<1>2. PICK taken : bound = [p \in Ports |-> IF p \in taken THEN "foreign" ELSE "free"]
  BY DEF Init
<1>3. suite.parent \in Seq(DOMAIN PortsOf) /\ suite.subs \in Seq(Seq(DOMAIN PortsOf))
  BY <1>1, SinkAssumption
<1>4. SinkTypes
  <2>1. bound \in [Ports -> DOMAIN PortsOf \cup {"free", "foreign"}]
    BY <1>2
  <2>2. sub \in 0..Len(suite.subs)
    BY <1>1, <1>3
  <2>3. stack \in Seq(Entry) /\ pods \in Seq({"running", "terminating", "gone"}) /\ received \in Seq(Payload)
    BY <1>1
  <2> QED BY <1>1, <1>3, <2>1, <2>2, <2>3 DEF SinkTypes, Levels
<1>5. StackOrder /\ StackIsMade /\ ServerAwaited
  BY <1>1 DEF StackOrder, StackIsMade, ServerAwaited
<1>6. TodoIsRest
  BY <1>1, <1>3 DEF TodoIsRest, List
<1>7. Owners
  BY <1>1, <1>2, PortFacts DEF Owners
<1>8. BindFailure /\ Fresh
  BY <1>1 DEF BindFailure, Fresh
<1> QED BY <1>4, <1>5, <1>6, <1>7, <1>8 DEF IInv

\* The invariant holds throughout, in every test: the set-up of the sinks, the
\* stack of the cleanups, the owners of the ports and what the sinks hold agree.
THEOREM Invariant == Spec => []IInv
<1>1. IInv /\ [Next]_vars => IInv'
  BY Step
<1> QED BY Start, <1>1, PTL DEF Spec

\* The ports that the sinks and the API server take are free again when the test
\* has ended, whichever step failed, and a set-up fails to bind a port only if
\* another process has one: every cleanup that is owed is on the stack.
THEOREM PortsComeBack == Spec => []PortsReleased
<1>1. IInv => PortsReleased
  <2>1. SUFFICES ASSUME IInv PROVE PortsReleased
    OBVIOUS
  <2>2. ASSUME pc = "ended", NEW p \in Ports PROVE bound[p] \in {"free", "foreign"}
    <3>1. stack = <<>> /\ bound[p] \in Sinks \cup {"apiServer", "free", "foreign"}
      BY <2>1, <2>2, PortFacts DEF IInv, StackOrder, SinkTypes
    <3>2. bound[p] \notin Sinks
      BY <2>1, <3>1 DEF IInv, Owners
    <3>3. bound[p] # "apiServer"
      BY <2>1, <3>1 DEF IInv, Owners, ServerAwaited
    <3> QED BY <3>1, <3>2, <3>3
  <2> QED BY <2>1, <2>2 DEF IInv, BindFailure, PortsReleased
<1> QED BY Invariant, <1>1, PTL

\* A port that could not be bound fails the test, though the API server binds
\* its port after its set-up returned: the cleanup reads errCh before the end.
THEOREM BindFailuresAreReported == Spec => []BindFailureFails
<1>1. IInv => BindFailureFails
  BY DEF IInv, BindFailureFails, BindFailure, ServerAwaited, StackOrder
<1> QED BY Invariant, <1>1, PTL

\* A subtest whose sinks were made or reset when no collector was left passes on
\* the telemetry of its own release, with the token where one is demanded.
THEOREM PassesOnOwnTelemetry == Spec => []OwnTelemetry
<1>1. IInv => OwnTelemetry
  BY DEF IInv, OwnTelemetry, Fresh
<1> QED BY Invariant, <1>1, PTL
=============================================================================
