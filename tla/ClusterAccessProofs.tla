------------------------ MODULE ClusterAccessProofs ------------------------
(***************************************************************************)
(* Updates, deletions and copies on a shared cluster, for every sequence   *)
(* of calls, every file, every set of mounts and every number of failing   *)
(* requests.                                                               *)
(***************************************************************************)
EXTENDS ClusterAccess, WellFoundedInduction, TLAPS

-----------------------------------------------------------------------------
(* The invariant.                                                          *)

Namespaces ==
  [state : {"none", "active", "terminating"}, labels : SUBSET (Others \cup {"test"}), version : Nat]

AccessTypes ==
  /\ script \in Seq(STRING)
  /\ ns \in Namespaces /\ copy \in Namespaces
  /\ source = Content /\ target \in Seq(STRING) /\ sent \in 0..Len(Content)
  /\ windows \in BOOLEAN /\ cut \in BOOLEAN

\* Where the test is in the call that it makes.
CallInProgress ==
  /\ at = "poll" => script # <<>>
  /\ at = "update" => script # <<>> /\ script[1] = "label"
  /\ at \in {"helper", "stream", "copying", "copied"} =>
       script # <<>> /\ script[1] \in {"copyTo", "copyFrom"}

\* The object that the test has read is an older one, or has the same labels.
CopyIsOld ==
  /\ copy.version <= ns.version
  /\ copy.version = ns.version => copy.labels = ns.labels

\* The attempt has copied the first chunks of the file, and no others.
CopyInProgress ==
  at \in {"copying", "copied"} =>
    /\ Len(target) = sent
    /\ \A k \in 1..sent : target[k] = Content[k]
    /\ at = "copied" => sent > 0 /\ (~cut => sent = Len(Content))

\* The volume that the helper mounts.
HelperMount ==
  /\ mounts \subseteq Mounts
  /\ ~Backing(mounts).subPath /\ \A m, n \in mounts : m.path = n.path => m = n
  /\ at \in {"helper", "stream", "copying", "copied"} /\ ~NoHelper => mount = Backing(mounts)

\* A pod that the test has yet to create will be accepted.
PodToCome ==
  /\ sa => ns.state # "none"
  /\ \A j \in DOMAIN script :
       script[j] = "createPod" /\ ~(j = 1 /\ at # "call") =>
         /\ pod = "none" /\ ns.state # "terminating"
         /\ sa \/ \E i \in 1..(j - 1) : script[i] = "waitForServiceAccount"
         /\ \A i \in 1..(j - 1) : script[i] \notin {"createPod", "deleteNamespace"}

IInv ==
  /\ AccessTypes /\ CallInProgress /\ CopyIsOld /\ CopyInProgress /\ HelperMount
  /\ PodToCome /\ PodAccepted

-----------------------------------------------------------------------------
(* The mount that findVolumeMountForPath chooses.                          *)

\* Every nonempty set of natural numbers up to n has a largest element.
LEMMA LargestExists ==
  ASSUME NEW n \in Nat, NEW S, S \subseteq 0..n, S # {}
  PROVE  \E x \in S : \A y \in S : y <= x
<1> DEFINE R == {p \in Nat \X Nat : p[1] < p[2]}
           T == {n - i : i \in S}
<1>1. IsWellFoundedOn(R, Nat)
  BY NatLessThanWellFounded DEF OpToRel
<1>2. T \subseteq Nat /\ T # {}
  <2>1. \A i \in S : n - i \in Nat
    OBVIOUS
  <2> QED BY <2>1
<1>3. \A x, y \in Nat : x < y => <<x, y>> \in R
  OBVIOUS
<1>4. PICK t \in T : \A u \in T : <<u, t>> \notin R
  <2> HIDE DEF T, R
  <2> QED BY <1>1, <1>2, WFMin
<1>5. PICK x \in S : t = n - x
  OBVIOUS
<1>6. \A y \in S : ~(n - y < n - x)
  <2> HIDE DEF R
  <2> QED BY <1>2, <1>3, <1>4, <1>5
<1> QED BY <1>6

\* Two beginnings of one path that are equally long are the same.
LEMMA PrefixUnique ==
  ASSUME NEW s \in Seq(STRING), NEW t \in Seq(STRING), IsPrefix(s, Path), IsPrefix(t, Path),
         Len(s) = Len(t)
  PROVE  s = t
BY DEF IsPrefix

\* Of mounts above the file, one has the longest path.
LEMMA LongestExists ==
  ASSUME NEW B, B # {}, \A m \in B : m.path \in Seq(STRING) /\ IsPrefix(m.path, Path)
  PROVE  \E m \in B : \A n \in B : Len(n.path) <= Len(m.path)
<1> DEFINE S == {Len(m.path) : m \in B}
<1>1. Len(Path) \in Nat
  BY AccessAssumption
<1>2. S \subseteq 0..Len(Path) /\ S # {}
  <2>1. \A m \in B : Len(m.path) \in Nat /\ Len(m.path) <= Len(Path)
    BY DEF IsPrefix
  <2>2. \A m \in B : Len(m.path) \in 0..Len(Path)
    BY <1>1, <2>1
  <2> QED BY <2>2
<1>3. PICK x \in S : \A y \in S : y <= x
  <2> HIDE DEF S
  <2> QED BY <1>1, <1>2, LargestExists
<1>4. PICK m \in B : x = Len(m.path)
  OBVIOUS
<1>5. \A n \in B : Len(n.path) <= Len(m.path)
  BY <1>3, <1>4
<1> QED BY <1>5

\* findVolumeMountForPath ignores the mounts with a subPath and a mount on "/",
\* and yet chooses the mount that the file is on, if that one has no subPath.
LEMMA FindIsBacking ==
  ASSUME mounts \subseteq Mounts, ~Backing(mounts).subPath,
         \A m, n \in mounts : m.path = n.path => m = n,
         FindVolumeMountForPath(mounts) # None
  PROVE  FindVolumeMountForPath(mounts) = Backing(mounts)
<1> DEFINE B == {m \in mounts : IsPrefix(m.path, Path)}
           F == {m \in mounts : ~m.subPath /\ m.path # <<>> /\ IsPrefix(m.path, Path)}
           f == FindVolumeMountForPath(mounts)
           b == Backing(mounts)
<1>1. \A m \in mounts : m.path \in Seq(STRING) /\ Len(m.path) \in Nat
  BY AccessAssumption
<1>2. F # {} /\ F \subseteq B /\ B \subseteq mounts
  BY DEF FindVolumeMountForPath
<1>3. f \in F /\ \A n \in F : Len(n.path) <= Len(f.path)
  <2>1. \E m \in F : \A n \in F : Len(n.path) <= Len(m.path)
    BY <1>1, <1>2, LongestExists
  <2>2. f = CHOOSE m \in F : \A n \in F : Len(n.path) <= Len(m.path)
    BY <1>2 DEF FindVolumeMountForPath
  <2> HIDE DEF F, f
  <2> QED BY <2>1, <2>2
<1>4. b \in B /\ \A n \in B : Len(n.path) <= Len(b.path)
  <2>1. \E m \in B : \A n \in B : Len(n.path) <= Len(m.path)
    BY <1>1, <1>2, LongestExists
  <2>2. b = CHOOSE m \in B : \A n \in B : Len(n.path) <= Len(m.path)
    BY <1>2 DEF Backing
  <2> HIDE DEF B, b
  <2> QED BY <2>1, <2>2
<1>5. f \in mounts /\ b \in mounts /\ IsPrefix(f.path, Path) /\ IsPrefix(b.path, Path) /\ f.path # <<>>
  BY <1>3, <1>4
<1>6. Len(f.path) <= Len(b.path)
  BY <1>2, <1>3, <1>4
<1> HIDE DEF f, b
<1>7. Len(f.path) > 0
  BY <1>1, <1>5
<1>8. b.path # <<>>
  BY <1>1, <1>5, <1>6, <1>7
<1>9. b \in F
  BY <1>5, <1>8 DEF b
<1>10. Len(b.path) = Len(f.path)
  BY <1>1, <1>3, <1>5, <1>6, <1>9
<1>11. f.path = b.path
  BY <1>1, <1>5, <1>10, PrefixUnique
<1>12. f = b
  BY <1>5, <1>11
<1> QED BY <1>12 DEF f, b

-----------------------------------------------------------------------------
(* Every step preserves the invariant.                                     *)

\* What is left of a sequence of calls is another one.
LEMMA TailShorter ==
  ASSUME NEW s \in Seq(STRING), s # <<>>
  PROVE  Tail(s) # s
<1>1. Len(Tail(s)) = Len(s) - 1 /\ Len(s) \in Nat
  OBVIOUS
<1>2. Len(Tail(s)) # Len(s)
  <2>1. \A n \in Nat : n - 1 # n
    OBVIOUS
  <2> QED BY <1>1, <2>1, Zenon
<1>3. Tail(s) = s => Len(Tail(s)) = Len(s)
  OBVIOUS
<1> QED BY <1>2, <1>3

\* A call returns: the pod that is still to come will be accepted.
LEMMA ReturnKeepsPod ==
  ASSUME IInv, script # <<>>, script' = Tail(script), at' = "call",
         sa' = sa, ns'.state = ns.state, pod = "none" => pod' = "none",
         script[1] = "waitForServiceAccount" => sa
  PROVE  PodToCome'
<1>1. /\ script \in Seq(STRING) /\ Len(script) \in Nat /\ Len(script') = Len(script) - 1
      /\ DOMAIN script = 1..Len(script) /\ DOMAIN script' = 1..(Len(script) - 1)
      /\ \A j \in 1..(Len(script) - 1) : script'[j] = script[j + 1]
  BY DEF IInv, AccessTypes
<1>2. ASSUME NEW j \in DOMAIN script', script'[j] = "createPod"
      PROVE  /\ pod' = "none" /\ ns'.state # "terminating"
             /\ sa' \/ \E i \in 1..(j - 1) : script'[i] = "waitForServiceAccount"
             /\ \A i \in 1..(j - 1) : script'[i] \notin {"createPod", "deleteNamespace"}
  <2>1. j \in Nat /\ j + 1 \in DOMAIN script /\ script[j + 1] = "createPod" /\ j + 1 # 1
    BY <1>1, <1>2
  <2>2. /\ pod = "none" /\ ns.state # "terminating"
        /\ sa \/ \E i \in 1..(j + 1 - 1) : script[i] = "waitForServiceAccount"
        /\ \A i \in 1..(j + 1 - 1) : script[i] \notin {"createPod", "deleteNamespace"}
    BY <2>1 DEF IInv, PodToCome
  <2>3. ASSUME NEW i \in 1..(j - 1)
        PROVE  script'[i] \notin {"createPod", "deleteNamespace"}
    <3>1. i + 1 \in 1..(j + 1 - 1) /\ i \in 1..(Len(script) - 1)
      BY <1>1, <2>1
    <3> QED BY <1>1, <2>2, <3>1
  <2>4. ASSUME ~sa PROVE \E i \in 1..(j - 1) : script'[i] = "waitForServiceAccount"
    <3>1. PICK i \in 1..(j + 1 - 1) : script[i] = "waitForServiceAccount"
      BY <2>2, <2>4
    <3>2. i # 1
      BY <2>4, <3>1
    <3>3. i - 1 \in 1..(j - 1) /\ i - 1 \in 1..(Len(script) - 1) /\ (i - 1) + 1 = i
      BY <1>1, <2>1, <3>2
    <3>4. script'[i - 1] = script[(i - 1) + 1]
      BY <1>1, <3>3
    <3> QED BY <3>1, <3>3, <3>4
  <2> QED BY <2>2, <2>3, <2>4
<1> QED BY <1>2 DEF PodToCome, IInv

\* One step of the test, of a controller or of another client.
LEMMA Step ==
  ASSUME IInv, [Next]_vars
  PROVE  IInv'
<1> USE DEF object, file
<1>1. CASE CreateNamespace
  <2>1. AccessTypes' /\ CallInProgress' /\ CopyInProgress' /\ HelperMount' /\ PodToCome' /\ PodAccepted'
    BY <1>1 DEF IInv, AccessTypes, CallInProgress, CopyInProgress, HelperMount, PodToCome,
       PodAccepted, CreateNamespace, Namespaces, NoHelper, Call, Written, Enter
  <2>2. CopyIsOld'
    BY <1>1 DEF IInv, CopyIsOld, CreateNamespace, Call, Written, Enter, AccessTypes,
       Namespaces
  <2> QED BY <2>1, <2>2 DEF IInv
<1>2. CASE CreatePod
  <2>1. AccessTypes' /\ CallInProgress' /\ CopyIsOld' /\ CopyInProgress' /\ HelperMount'
    BY <1>2 DEF IInv, AccessTypes, CallInProgress, CopyIsOld, CopyInProgress, HelperMount,
       CreatePod, Namespaces, NoHelper, Call, Enter
  <2>2. PodToCome'
    BY <1>2 DEF IInv, PodToCome, CreatePod, Call, Enter, AccessTypes, Namespaces
  <2>3. PodAccepted'
    BY <1>2 DEF IInv, PodAccepted, CreatePod, Call, Enter, AccessTypes, PodToCome,
       Namespaces
  <2> QED BY <2>1, <2>2, <2>3 DEF IInv
<1>3. CASE WaitForDefaultServiceAccount
  BY <1>3 DEF IInv, AccessTypes, CallInProgress, CopyIsOld, CopyInProgress, HelperMount,
     PodToCome, PodAccepted, WaitForDefaultServiceAccount, Namespaces, NoHelper, Call, Enter
<1>4. CASE DeletePod
  BY <1>4 DEF IInv, AccessTypes, CallInProgress, CopyIsOld, CopyInProgress, HelperMount,
     PodToCome, PodAccepted, DeletePod, Namespaces, NoHelper, Call, Enter
<1>5. CASE DeleteNamespace
  <2>1. AccessTypes' /\ CallInProgress' /\ CopyIsOld' /\ CopyInProgress' /\ HelperMount' /\ PodAccepted'
    BY <1>5 DEF IInv, AccessTypes, CallInProgress, CopyIsOld, CopyInProgress, HelperMount,
       PodAccepted, DeleteNamespace, Namespaces, NoHelper, Call, Enter
  <2>2. PodToCome'
    <3>1. /\ at = "call" /\ script # <<>> /\ script[1] = "deleteNamespace"
          /\ UNCHANGED <<script, sa, pod>>
      BY <1>5 DEF DeleteNamespace, Call, Enter
    <3>2. ns'.state = "none" <=> ns.state = "none"
      BY <1>5 DEF DeleteNamespace, IInv, AccessTypes, Namespaces
    <3>3. ASSUME NEW j \in DOMAIN script PROVE script[j] # "createPod"
      <4>1. j \in 1..Len(script) /\ Len(script) \in Nat
        BY DEF IInv, AccessTypes
      <4>2. CASE j = 1
        BY <3>1, <4>2
      <4>3. CASE j # 1
        <5>1. 1 \in 1..(j - 1)
          BY <4>1, <4>3
        <5> QED BY <3>1, <5>1 DEF IInv, PodToCome
      <4> QED BY <4>2, <4>3
    <3> QED BY <3>1, <3>2, <3>3 DEF IInv, PodToCome
  <2> QED BY <2>1, <2>2 DEF IInv
<1>6. CASE DeleteObject
  <2>1. AccessTypes' /\ CallInProgress' /\ CopyIsOld' /\ CopyInProgress' /\ HelperMount' /\ PodAccepted'
    BY <1>6 DEF IInv, AccessTypes, CallInProgress, CopyIsOld, CopyInProgress, HelperMount,
       PodAccepted, DeleteObject, Namespaces, NoHelper, Call, Return
  <2>2. PodToCome'
    <3>1. /\ script # <<>> /\ script' = Tail(script) /\ at' = "call"
          /\ UNCHANGED <<ns, sa>> /\ (pod = "none" => pod' = "none")
          /\ script[1] # "waitForServiceAccount"
      BY <1>6 DEF DeleteObject, Call, Return
    <3> QED BY <3>1, ReturnKeepsPod
  <2> QED BY <2>1, <2>2 DEF IInv
<1>7. CASE GetNamespace
  <2>1. AccessTypes' /\ CallInProgress' /\ CopyInProgress' /\ HelperMount' /\ PodToCome' /\ PodAccepted'
    BY <1>7 DEF IInv, AccessTypes, CallInProgress, CopyInProgress, HelperMount, PodToCome,
       PodAccepted, GetNamespace, Namespaces, NoHelper, Call, Enter
  <2>2. CopyIsOld'
    BY <1>7 DEF IInv, CopyIsOld, GetNamespace, Call, Enter, AccessTypes, Namespaces
  <2> QED BY <2>1, <2>2 DEF IInv
<1>8. CASE UpdateNamespace
  <2>1. CallInProgress' /\ CopyInProgress' /\ HelperMount' /\ PodAccepted'
    BY <1>8 DEF IInv, CallInProgress, CopyInProgress, HelperMount, PodAccepted,
       UpdateNamespace, NoHelper, Unchanged, Written, Return
  <2>2. AccessTypes'
    <3>1. ns' \in Namespaces
      BY <1>8 DEF UpdateNamespace, IInv, AccessTypes, Namespaces, Written
    <3>2. script' \in Seq(STRING)
      <4>1. script \in Seq(STRING) /\ script # <<>>
        BY <1>8 DEF UpdateNamespace, IInv, AccessTypes, CallInProgress
      <4>2. script' \in {script, Tail(script)}
        BY <1>8 DEF UpdateNamespace, Return
      <4> QED BY <4>1, <4>2
    <3>3. UNCHANGED <<copy, source, target, sent, windows, cut>>
      BY <1>8 DEF UpdateNamespace
    <3> QED BY <3>1, <3>2, <3>3 DEF IInv, AccessTypes
  <2>3. CopyIsOld'
    BY <1>8 DEF IInv, CopyIsOld, UpdateNamespace, Unchanged, Written, Return, AccessTypes,
       Namespaces
  <2>4. PodToCome'
    <3>1. CASE script' = script
      <4>1. at' = "failed" /\ UNCHANGED <<ns, sa, pod>> /\ script # <<>> /\ script[1] = "label"
        <5>1. script # <<>> /\ script \in Seq(STRING) /\ script[1] = "label"
          BY <1>8 DEF UpdateNamespace, IInv, CallInProgress, AccessTypes
        <5>2. Tail(script) # script
          BY <5>1, TailShorter
        <5> QED BY <1>8, <3>1, <5>1, <5>2 DEF UpdateNamespace, Return
      <4> QED BY <3>1, <4>1 DEF IInv, PodToCome
    <3>2. CASE script' # script
      <4>1. /\ script # <<>> /\ script' = Tail(script) /\ at' = "call"
            /\ UNCHANGED <<sa, pod>> /\ script[1] # "waitForServiceAccount"
        BY <1>8, <3>2 DEF UpdateNamespace, Return, IInv, CallInProgress
      <4>2. ns'.state = ns.state
        BY <1>8 DEF UpdateNamespace, Written
      <4> QED BY <4>1, <4>2, ReturnKeepsPod DEF IInv, PodToCome
    <3> QED BY <3>1, <3>2
  <2> QED BY <2>1, <2>2, <2>3, <2>4 DEF IInv
<1>9. CASE RequestFails
  BY <1>9 DEF IInv, AccessTypes, CallInProgress, CopyIsOld, CopyInProgress, HelperMount,
     PodToCome, PodAccepted, RequestFails, Namespaces, NoHelper, Fault
<1>10. ASSUME NEW c \in Waits, Poll(c) PROVE IInv'
  <2>1. CallInProgress' /\ CopyIsOld' /\ CopyInProgress' /\ HelperMount' /\ PodAccepted'
    BY <1>10 DEF IInv, CallInProgress, CopyIsOld, CopyInProgress, HelperMount,
       PodAccepted, Poll, NoHelper, Polling, Return, Again
  <2>2. AccessTypes'
    <3>1. script \in Seq(STRING) /\ script # <<>>
      BY <1>10 DEF Poll, Polling, IInv, AccessTypes, CallInProgress
    <3>2. script' \in {script, Tail(script)}
      BY <1>10 DEF Poll, Return, Again
    <3>3. script' \in Seq(STRING)
      BY <3>1, <3>2
    <3> QED BY <1>10, <3>3 DEF Poll, IInv, AccessTypes
  <2>3. PodToCome'
    <3>1. at = "poll" /\ script # <<>> /\ script[1] = c /\ UNCHANGED <<ns, sa, pod>>
      BY <1>10 DEF Poll, Polling, IInv, CallInProgress
    <3>2. CASE script' = Tail(script) /\ at' = "call"
      <4>1. script[1] = "waitForServiceAccount" => sa
        BY <1>10, <3>1, <3>2, TailShorter DEF Poll, WaitedFor, Again, IInv, AccessTypes
      <4> QED BY <3>1, <3>2, <4>1, ReturnKeepsPod
    <3>3. CASE script' = script /\ at' \in {"poll", "failed"}
      BY <1>10, <3>1, <3>3 DEF IInv, PodToCome
    <3> QED BY <1>10, <3>2, <3>3 DEF Poll, Return, Again
  <2> QED BY <2>1, <2>2, <2>3 DEF IInv
<1>11. ASSUME NEW c \in Waits, PollFails(c) PROVE IInv'
  <2>1. CallInProgress' /\ CopyIsOld' /\ CopyInProgress' /\ HelperMount' /\ PodAccepted'
    BY <1>11 DEF IInv, CallInProgress, CopyIsOld, CopyInProgress, HelperMount,
       PodAccepted, PollFails, NoHelper, Polling, Fault, Again
  <2>2. AccessTypes'
    <3>1. script \in Seq(STRING) /\ script # <<>>
      BY <1>11 DEF PollFails, Polling, IInv, AccessTypes, CallInProgress
    <3>2. script' \in {script, Tail(script)}
      BY <1>11 DEF PollFails, Return, Again
    <3>3. script' \in Seq(STRING)
      BY <3>1, <3>2
    <3> QED BY <1>11, <3>3 DEF PollFails, IInv, AccessTypes
  <2>3. PodToCome'
    <3>1. at = "poll" /\ script # <<>> /\ script[1] = c /\ UNCHANGED <<ns, sa, pod>>
      BY <1>11 DEF PollFails, Polling, IInv, CallInProgress
    <3>2. CASE script' = Tail(script) /\ at' = "call"
      <4>1. script[1] = "waitForServiceAccount" => sa
        BY <1>11, <3>1, <3>2, TailShorter DEF PollFails, WaitedFor, Again, IInv, AccessTypes
      <4> QED BY <3>1, <3>2, <4>1, ReturnKeepsPod
    <3>3. CASE script' = script /\ at' \in {"poll", "failed"}
      BY <1>11, <3>1, <3>3 DEF IInv, PodToCome
    <3> QED BY <1>11, <3>2, <3>3 DEF PollFails, Return, Again
  <2> QED BY <2>1, <2>2, <2>3 DEF IInv
<1>12. CASE StartFileCopyHelper
  <2>1. AccessTypes' /\ CallInProgress' /\ CopyIsOld' /\ CopyInProgress' /\ PodToCome' /\ PodAccepted'
    BY <1>12 DEF IInv, AccessTypes, CallInProgress, CopyIsOld, CopyInProgress, PodToCome,
       PodAccepted, StartFileCopyHelper, Namespaces, Copying, NoHelper, Enter
  <2>2. HelperMount'
    <3>1. UNCHANGED <<mounts, script, windows>>
      BY <1>12 DEF StartFileCopyHelper, Enter
    <3>2. CASE NoHelper
      BY <1>12, <3>1, <3>2 DEF StartFileCopyHelper, IInv, HelperMount, NoHelper
    <3>3. CASE ~NoHelper
      <4>1. mount' = FindVolumeMountForPath(mounts) /\ (mount' = None => at' = "failed")
        BY <1>12, <3>3 DEF StartFileCopyHelper
      <4>2. mount' # None => mount' = Backing(mounts)
        BY <4>1, FindIsBacking DEF IInv, HelperMount
      <4> QED BY <3>1, <4>1, <4>2 DEF IInv, HelperMount, NoHelper
    <3> QED BY <3>2, <3>3
  <2> QED BY <2>1, <2>2 DEF IInv
<1>13. CASE PollHelper
  BY <1>13 DEF IInv, AccessTypes, CallInProgress, CopyIsOld, CopyInProgress, HelperMount,
     PodToCome, PodAccepted, PollHelper, Namespaces, NoHelper, Enter
<1>14. CASE OpenCopy
  BY <1>14 DEF IInv, AccessTypes, CallInProgress, CopyIsOld, CopyInProgress, HelperMount,
     PodToCome, PodAccepted, OpenCopy, Namespaces, NoHelper, Truncated
<1>15. CASE Chunk
  <2>1. CallInProgress' /\ CopyIsOld' /\ HelperMount' /\ PodToCome' /\ PodAccepted'
    BY <1>15 DEF IInv, CallInProgress, CopyIsOld, HelperMount, PodToCome, PodAccepted,
       Chunk, NoHelper
  <2>2. AccessTypes'
    BY <1>15, AccessAssumption DEF IInv, AccessTypes, Chunk, Namespaces
  <2>3. CopyInProgress'
    BY <1>15 DEF IInv, CopyInProgress, Chunk, AccessTypes, Namespaces
  <2> QED BY <2>1, <2>2, <2>3 DEF IInv
<1>16. CASE StreamEnds
  <2>1. AccessTypes' /\ CallInProgress' /\ CopyIsOld' /\ HelperMount' /\ PodToCome' /\ PodAccepted'
    BY <1>16 DEF IInv, AccessTypes, CallInProgress, CopyIsOld, HelperMount, PodToCome,
       PodAccepted, StreamEnds, Namespaces, NoHelper, RetryCopy, Enter
  <2>2. CopyInProgress'
    BY <1>16, AccessAssumption DEF IInv, CopyInProgress, StreamEnds, RetryCopy, Enter,
       AccessTypes, Namespaces
  <2> QED BY <2>1, <2>2 DEF IInv
<1>17. CASE StreamBreaks
  <2>1. AccessTypes'
    BY <1>17 DEF IInv, AccessTypes, StreamBreaks, Namespaces, Fault, RetryCopy, Enter
  <2>2. CallInProgress'
    BY <1>17 DEF IInv, CallInProgress, StreamBreaks, Fault, RetryCopy, Enter
  <2>3. CopyIsOld'
    BY <1>17 DEF IInv, CopyIsOld, StreamBreaks, Fault, RetryCopy, Enter
  <2>4. CopyInProgress'
    BY <1>17 DEF IInv, CopyInProgress, StreamBreaks, Fault, RetryCopy, Enter
  <2>5. HelperMount'
    BY <1>17 DEF IInv, HelperMount, StreamBreaks, NoHelper, Fault, RetryCopy, Enter
  <2>6. PodToCome'
    BY <1>17 DEF IInv, PodToCome, StreamBreaks, Fault, RetryCopy, Enter
  <2>7. PodAccepted'
    BY <1>17 DEF IInv, PodAccepted, StreamBreaks, Fault, RetryCopy, Enter
  <2> QED BY <2>1, <2>2, <2>3, <2>4, <2>5, <2>6, <2>7 DEF IInv
<1>18. CASE Copied
  <2>1. CallInProgress' /\ CopyIsOld' /\ CopyInProgress' /\ HelperMount' /\ PodAccepted'
    BY <1>18 DEF IInv, CallInProgress, CopyIsOld, CopyInProgress, HelperMount,
       PodAccepted, Copied, NoHelper, Return
  <2>2. AccessTypes'
    BY <1>18 DEF IInv, AccessTypes, Copied, Namespaces, Return, CallInProgress
  <2>3. PodToCome'
    <3>1. /\ script # <<>> /\ script' = Tail(script) /\ at' = "call"
          /\ UNCHANGED <<ns, sa>> /\ (pod = "none" => pod' = "none")
          /\ script[1] # "waitForServiceAccount"
      BY <1>18 DEF Copied, Return, IInv, CallInProgress
    <3> QED BY <3>1, ReturnKeepsPod
  <2> QED BY <2>1, <2>2, <2>3 DEF IInv
<1>19. ASSUME NEW l \in Others, OtherLabels(l) PROVE IInv'
  <2>1. AccessTypes' /\ CallInProgress' /\ CopyInProgress' /\ HelperMount' /\ PodToCome' /\ PodAccepted'
    BY <1>19 DEF IInv, AccessTypes, CallInProgress, CopyInProgress, HelperMount,
       PodToCome, PodAccepted, OtherLabels, Namespaces, NoHelper, Written
  <2>2. CopyIsOld'
    BY <1>19 DEF IInv, CopyIsOld, OtherLabels, Written, AccessTypes, Namespaces
  <2> QED BY <2>1, <2>2 DEF IInv
<1>20. CASE ServiceAccountAppears
  BY <1>20 DEF IInv, AccessTypes, CallInProgress, CopyIsOld, CopyInProgress, HelperMount,
     PodToCome, PodAccepted, ServiceAccountAppears, Namespaces, NoHelper
<1>21. CASE PodGone
  BY <1>21 DEF IInv, AccessTypes, CallInProgress, CopyIsOld, CopyInProgress, HelperMount,
     PodToCome, PodAccepted, PodGone, Namespaces, NoHelper
<1>22. CASE NamespaceGone
  <2>1. AccessTypes' /\ CallInProgress' /\ CopyInProgress' /\ HelperMount' /\ PodToCome' /\ PodAccepted'
    BY <1>22 DEF IInv, AccessTypes, CallInProgress, CopyInProgress, HelperMount,
       PodToCome, PodAccepted, NamespaceGone, Namespaces, NoHelper, Written
  <2>2. CopyIsOld'
    BY <1>22 DEF IInv, CopyIsOld, NamespaceGone, Written, AccessTypes, Namespaces
  <2> QED BY <2>1, <2>2 DEF IInv
<1>23. ASSUME NEW s, HelperState(s) PROVE IInv'
  BY <1>23 DEF IInv, AccessTypes, CallInProgress, CopyIsOld, CopyInProgress, HelperMount,
     PodToCome, PodAccepted, HelperState, Namespaces, NoHelper
<1>24. CASE UNCHANGED vars
  BY <1>24 DEF vars, IInv, AccessTypes, CallInProgress, CopyIsOld, CopyInProgress,
     HelperMount, PodToCome, PodAccepted, Namespaces, NoHelper
<1> QED
  BY <1>1, <1>2, <1>3, <1>4, <1>5, <1>6, <1>7, <1>8, <1>9, <1>10, <1>11, <1>12, <1>13,
     <1>14, <1>15, <1>16, <1>17, <1>18, <1>19, <1>20, <1>21, <1>22, <1>23, <1>24
     DEF Next, TestStep, Over

\* The invariant holds in every state.
THEOREM Invariant == Spec => []IInv
<1>1. Init => IInv
  <2> SUFFICES ASSUME Init PROVE IInv
    OBVIOUS
  <2>1. AccessTypes
    <3>1. ns \in Namespaces /\ copy \in Namespaces
      <4>1. [state |-> "none", labels |-> {}, version |-> 0] \in Namespaces
        BY DEF Namespaces
      <4> QED BY <4>1 DEF Init
    <3>2. script \in Seq(STRING) /\ source = Content /\ target \in Seq(STRING)
      BY AccessAssumption DEF Init
    <3>3. sent \in 0..Len(Content)
      <4>1. Len(Content) \in Nat /\ sent = 0
        BY AccessAssumption DEF Init
      <4> QED BY <4>1
    <3>4. windows \in BOOLEAN /\ cut \in BOOLEAN
      BY DEF Init
    <3> QED BY <3>1, <3>2, <3>3, <3>4 DEF AccessTypes
  <2>2. CallInProgress /\ CopyIsOld /\ CopyInProgress /\ HelperMount /\ PodAccepted
    BY <2>1 DEF Init, CallInProgress, CopyIsOld, CopyInProgress, HelperMount, PodAccepted, AccessTypes,
       Namespaces
  <2>3. PodToCome
    BY AccessAssumption DEF Init, PodToCome
  <2> QED BY <2>1, <2>2, <2>3 DEF IInv
<1>2. IInv /\ [Next]_vars => IInv'
  BY Step
<1> QED BY <1>1, <1>2, PTL DEF Spec

-----------------------------------------------------------------------------
(* What the tests rely on.                                                 *)

\* A pod that is created after WaitForDefaultServiceAccount is not refused.
THEOREM CreatedPodAccepted == Spec => []PodAccepted
<1>1. IInv => PodAccepted
  BY DEF IInv
<1> QED BY <1>1, Invariant, PTL

\* LabelNamespace and AnnotateNamespace overwrite nothing that they have not read.
THEOREM UpdatesKeepLabels == Spec => NoLostUpdate
<1> DEFINE Kept == ns.state = "active" /\ ns'.state = "active" => ns.labels \subseteq ns'.labels
<1>1. IInv /\ [Next]_vars => [Kept]_vars
  <2> SUFFICES ASSUME IInv, Next, ns' # ns, ns.state = "active", ns'.state = "active"
               PROVE  ns.labels \subseteq ns'.labels
    BY DEF vars, object
  <2>1. UpdateNamespace \/ \E l \in Others : OtherLabels(l)
    BY DEF Next, TestStep, Over, vars, object, file, CreateNamespace, CreatePod,
       WaitForDefaultServiceAccount, DeletePod, DeleteNamespace, DeleteObject, GetNamespace,
       RequestFails, Poll, PollFails, StartFileCopyHelper, PollHelper, OpenCopy, Chunk,
       StreamEnds, StreamBreaks, Copied, ServiceAccountAppears, PodGone, NamespaceGone,
       HelperState, Written, IInv, AccessTypes, Namespaces
  <2>2. CASE UpdateNamespace
    BY <2>2 DEF UpdateNamespace, Written, Unchanged, IInv, CopyIsOld, AccessTypes, Namespaces
  <2>3. CASE \E l \in Others : OtherLabels(l)
    BY <2>3 DEF OtherLabels, Written, IInv, AccessTypes, Namespaces
  <2> QED BY <2>1, <2>2, <2>3
<1> QED BY <1>1, Invariant, PTL DEF Spec, NoLostUpdate

\* DeleteNamespace and DeletePod return when the object is gone, unless a read of
\* theirs failed.
THEOREM DeletedIsGone == Spec => GoneWhenDeleted
<1> DEFINE Gone == script # <<>> /\ script' # script /\ ~blind' =>
                     /\ script[1] = "deleteNamespace" => ns.state = "none"
                     /\ script[1] = "deletePod" => pod = "none"
<1>1. IInv /\ [Next]_vars => [Gone]_vars
  <2> SUFFICES ASSUME IInv, Next, script' # script, ~blind',
                      script[1] \in {"deleteNamespace", "deletePod"}
               PROVE  /\ script[1] = "deleteNamespace" => ns.state = "none"
                      /\ script[1] = "deletePod" => pod = "none"
    OBVIOUS
  <2>1. PICK c \in Waits : Poll(c)
    BY DEF Next, TestStep, Over, vars, Call, Enter, Again, RetryCopy, CreateNamespace, CreatePod,
       WaitForDefaultServiceAccount, DeletePod, DeleteNamespace, DeleteObject, GetNamespace,
       UpdateNamespace, RequestFails, PollFails, StartFileCopyHelper, PollHelper, OpenCopy, Chunk,
       StreamEnds, StreamBreaks, Copied, OtherLabels, ServiceAccountAppears, PodGone,
       NamespaceGone, HelperState, IInv, CallInProgress
  <2>2. script[1] = c /\ WaitedFor(c)
    BY <2>1 DEF Poll, Polling, Again
  <2> QED BY <2>2 DEF WaitedFor
<1> QED BY <1>1, Invariant, PTL DEF Spec, GoneWhenDeleted

\* A copy that the test goes on with is the whole file, from the volume it is on.
THEOREM CopiesAreWhole == Spec => []CopiedWhole
<1>1. IInv => CopiedWhole
  <2> SUFFICES ASSUME IInv, at = "copied" PROVE CopiedWhole
    BY DEF CopiedWhole
  <2>1. /\ target \in Seq(STRING) /\ Content \in Seq(STRING) /\ sent \in Nat /\ sent > 0
        /\ Len(target) = sent /\ sent <= Len(Content)
        /\ \A k \in 1..sent : target[k] = Content[k]
        /\ ~cut => sent = Len(Content)
    BY AccessAssumption DEF IInv, AccessTypes, CopyInProgress
  <2>2. ~cut => target = Content
    BY <2>1
  <2>3. IsPrefix(target, Content) /\ target # <<>>
    BY <2>1 DEF IsPrefix
  <2>4. ~NoHelper => mount = Backing(mounts)
    BY DEF IInv, HelperMount
  <2> QED BY <2>2, <2>3, <2>4 DEF CopiedWhole
<1> QED BY <1>1, Invariant, PTL
=============================================================================
