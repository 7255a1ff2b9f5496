------------------------ MODULE VersionMatrixProofs ------------------------
(***************************************************************************)
(* What the updater leaves in ci-matrix.json, for every set of cycles,     *)
(* every order of endoflife.date's answer and every number of images,      *)
(* publications and runs.                                                  *)
(***************************************************************************)
EXTENDS VersionMatrix, FiniteSetTheorems, WellFoundedInduction, TLAPS

-----------------------------------------------------------------------------
(* Listings, and numbers compared by their digits.                         *)

\* A listing of a finite set is a sequence that names every element once.
LEMMA ListingFacts ==
  ASSUME NEW S, IsFiniteSet(S), NEW o \in Orders(S)
  PROVE  /\ o \in Seq(S) /\ Len(o) \in Nat /\ Len(o) = Cardinality(S) /\ DOMAIN o = 1..Len(o)
         /\ \A k \in DOMAIN o : o[k] \in S
         /\ \A x \in S : \E k \in DOMAIN o : o[k] = x
         /\ \A k, l \in DOMAIN o : o[k] = o[l] => k = l
<1>1. Cardinality(S) \in Nat
  BY FS_CardinalityType
<1>2. o \in [1..Cardinality(S) -> S]
  BY DEF Orders, Bijection, Injection
<1>3. o \in Seq(S) /\ Len(o) = Cardinality(S)
  BY <1>1, <1>2
<1>4. \A x \in S : \E k \in DOMAIN o : o[k] = x
  BY <1>2 DEF Orders, Bijection, Surjection
<1>5. \A k, l \in DOMAIN o : o[k] = o[l] => k = l
  BY <1>2 DEF Orders, Bijection, Injection, IsInjective
<1> QED BY <1>1, <1>2, <1>3, <1>4, <1>5

\* On two-digit numbers the comparison of the digits is that of the numbers.
LEMMA TwoDigits ==
  /\ \A a, b \in 10..99 : a # b /\ ~DigitsGreater(b, a) => a > b
  /\ \A a \in 10..99 : \A b \in 0..99 : DigitsBegin(a, b) => a = b
<1>1. \A a \in 10..99 : ~(a < 10)
  OBVIOUS
<1>2. \A a \in 0..99 : a \div 10 \in Nat /\ 10 * (a \div 10) <= a /\ a < 10 * (a \div 10) + 10
  OBVIOUS
<1>3. \A a, b \in 10..99 : a \div 10 > b \div 10 => a > b
  BY <1>2
<1>4. \A a, b \in 10..99 : a > b => a \div 10 > b \div 10 \/ a \div 10 = b \div 10
  BY <1>2
<1>5. \A a, b \in 10..99 : a # b /\ ~DigitsGreater(b, a) => a > b
  <2>1. \A a, b \in 10..99 : DigitsGreater(b, a) <=> b > a
    BY <1>1, <1>3, <1>4 DEF DigitsGreater
  <2>2. \A a, b \in 10..99 : a # b => a > b \/ b > a
    OBVIOUS
  <2> QED BY <2>1, <2>2, Zenon
<1>6. \A a \in 10..99 : \A b \in 0..99 : DigitsBegin(a, b) => a = b
  BY <1>2 DEF DigitsBegin
<1> QED BY <1>5, <1>6

\* The digits of a number begin no smaller number.
LEMMA LongerIsGreater ==
  \A a, b \in Nat : DigitsBegin(a, b) => a <= b
<1>1. \A b \in Nat : b \div 10 \in Nat /\ 10 * (b \div 10) <= b
  OBVIOUS
<1> QED BY <1>1 DEF DigitsBegin

-----------------------------------------------------------------------------
(* The invariant.                                                          *)

\* No patch of any cycle gets as high as the number of a cycle: "1.34" is then
\* part of no name like "v1.31.34".
PatchesBelowCycles == \A c, d \in Cycles : FirstLatest[c] < d /\ MaxLatest[c] < d

\* What is published: patches up to the latest of a cycle, minikube's newest first.
WorldOK ==
  /\ latest \in [Cycles -> 0..99]
  /\ \A c \in Cycles : latest[c] <= FirstLatest[c] \/ latest[c] <= MaxLatest[c]
  /\ over \in SUBSET Cycles
  /\ \A v \in images : v \in Version /\ v.minor \in Cycles /\ v.patch <= latest[v.minor]
  /\ valid \in Seq(Version) /\ NewestFirst(valid)
  /\ \A k \in DOMAIN valid : valid[k].minor \in Cycles /\ valid[k].patch <= latest[valid[k].minor]

\* The entries of the file keep their keys.
FileOK ==
  file # Torn => DOMAIN file = DOMAIN Jobs /\ \A j \in DOMAIN Jobs : DOMAIN file[j] = Jobs[j]

\* An entry of k8sVersions.
Entry == [cycle : Cycles, latest : Nat]

\* The walk over the cycles and their patches.
WalkTypes ==
  /\ pc = "supported" => kind = <<>>
  /\ pc \in {"kind", "minikube"} => supported \in Seq(Entry)
  /\ pc = "kind" => i \in 1..(Len(supported) + 1) /\ patch \in Nat /\ kind \in Seq(Version)
  /\ pc \in {"minikube", "update"} => kind # <<>>
  /\ pc = "update" => minikube # <<>>

\* supported lists the cycles before their end of life, each once, with its latest patch.
SupportedCurrent ==
  /\ \A k \in DOMAIN supported :
       supported[k].cycle \in Cycles \ over /\ supported[k].latest = latest[supported[k].cycle]
  /\ \A c \in Cycles \ over : \E k \in DOMAIN supported : supported[k].cycle = c
  /\ \A k, l \in DOMAIN supported : supported[k].cycle = supported[l].cycle => k = l

\* No image of the cycle is newer than the patch asked for, and the versions
\* found are the newest images of the cycles before it, one for each.
WalkCurrent ==
  /\ i <= Len(supported) => \A v \in images : v.minor = supported[i].cycle => v.patch <= patch
  /\ Range(kind) = UNION {NewestImage(supported[k].cycle) : k \in 1..(i - 1)}
  /\ \A k, l \in DOMAIN kind : kind[k].minor = kind[l].minor => k = l

\* While nothing is published, what the run has found so far is current.
FoundCurrent ==
  /\ pc \in {"kind", "minikube"} => SupportedCurrent
  /\ pc = "kind" => WalkCurrent
  /\ pc \in {"minikube", "update"} => KindCurrent(kind)
  /\ pc = "update" /\ PatchesBelowCycles => MinikubeCurrent(minikube)

\* What the finished run leaves in the file.
FileCurrent ==
  pc = "done" => \A j \in DOMAIN Jobs :
    /\ "kind" \in Jobs[j] => KindCurrent(file[j]["kind"])
    /\ Jobs[j] = {"minikube"} /\ PatchesBelowCycles => MinikubeCurrent(file[j]["minikube"])

MatrixInv ==
  /\ WorldOK /\ FileOK /\ WalkTypes
  /\ quiet => FoundCurrent /\ FileCurrent

-----------------------------------------------------------------------------
(* What is published.                                                      *)

\* The values of a sequence are a finite set.
LEMMA FiniteRange ==
  ASSUME NEW S, NEW t \in Seq(S)
  PROVE  IsFiniteSet(Range(t))
<1>1. Len(t) \in Nat /\ DOMAIN t = 1..Len(t)
  OBVIOUS
<1>2. IsFiniteSet(1..Len(t))
  BY <1>1, FS_Interval
<1>3. t \in [1..Len(t) -> Range(t)] /\ \A x \in Range(t) : \E k \in 1..Len(t) : t[k] = x
  BY <1>1 DEF Range
<1>4. t \in Surjection(1..Len(t), Range(t))
  BY <1>3 DEF Surjection
<1> QED BY <1>2, <1>4, FS_Surjection

\* minikube's first list is newest first and names published versions only.
LEMMA InitWorld ==
  ASSUME Init PROVE WorldOK
<1>1. latest \in [Cycles -> 0..99] /\ latest = FirstLatest /\ over \in SUBSET Cycles
  BY VersionAssumption DEF Init
<1>2. \A v \in images : v \in Version /\ v.minor \in Cycles /\ v.patch <= latest[v.minor]
  BY VersionAssumption DEF Init
<1>3. \A c \in Cycles : latest[c] <= FirstLatest[c]
  BY <1>1, VersionAssumption
<1> DEFINE S == {Ver(c, latest[c]) : c \in Cycles}
           f == [c \in Cycles |-> Ver(c, latest[c])]
<1>4. IsFiniteSet(S)
  <2>1. f \in Surjection(Cycles, S)
    BY DEF Surjection
  <2> HIDE DEF S, f
  <2> QED BY <2>1, VersionAssumption, FS_Surjection
<1>5. \A v \in S : v \in Version /\ v.minor \in Cycles /\ v.patch <= latest[v.minor]
  BY <1>1, VersionAssumption DEF Ver, Version
<1>6. valid \in Orders(S) /\ NewestFirst(valid)
  BY DEF Init
<1> HIDE DEF S
<1>7. valid \in Seq(S) /\ DOMAIN valid = 1..Len(valid) /\ Len(valid) \in Nat
       /\ \A k \in DOMAIN valid : valid[k] \in S
  BY <1>4, <1>6, ListingFacts
<1>8. valid \in Seq(Version)
  BY <1>5, <1>7
<1> QED BY <1>1, <1>2, <1>3, <1>5, <1>6, <1>7, <1>8 DEF WorldOK

\* Whatever is published, minikube's list stays newest first and no image and
\* no version is ahead of the latest patch of its cycle.
LEMMA WorldStep ==
  ASSUME WorldOK, Next PROVE WorldOK'
<1>1. CASE UNCHANGED world
  BY <1>1 DEF WorldOK, world, NewestFirst, Newer
<1>2. ASSUME NEW c \in Cycles, PublishPatch(c) PROVE WorldOK'
  <2>1. /\ latest' = [latest EXCEPT ![c] = @ + 1] /\ latest[c] < MaxLatest[c]
        /\ over' = over /\ images' = images /\ valid' = valid
    BY <1>2 DEF PublishPatch
  <2>2. latest[c] \in 0..99 /\ MaxLatest[c] \in 0..99 /\ latest \in [Cycles -> 0..99]
    BY VersionAssumption DEF WorldOK
  <2>3. latest' \in [Cycles -> 0..99] /\ latest'[c] = latest[c] + 1 /\ latest'[c] <= MaxLatest[c]
    BY <2>1, <2>2
  <2>4. \A d \in Cycles : latest[d] \in Int /\ latest'[d] \in Int /\ latest[d] <= latest'[d] /\ (d # c => latest'[d] = latest[d])
    BY <2>1, <2>2
  <2>5. \A d \in Cycles : latest'[d] <= FirstLatest[d] \/ latest'[d] <= MaxLatest[d]
    BY <2>3, <2>4 DEF WorldOK
  <2>6. \A v \in images : v \in Version /\ v.minor \in Cycles /\ v.patch <= latest'[v.minor]
    BY <2>4 DEF WorldOK, Version
  <2>7. \A k \in DOMAIN valid : valid[k] \in Version /\ valid[k].minor \in Cycles
            /\ valid[k].patch <= latest[valid[k].minor]
    BY DEF WorldOK
  <2>8. \A k \in DOMAIN valid : valid[k].minor \in Cycles /\ valid[k].patch <= latest'[valid[k].minor]
    BY <2>4, <2>7 DEF Version
  <2> QED BY <2>1, <2>3, <2>5, <2>6, <2>8 DEF WorldOK, NewestFirst, Newer
<1>3. ASSUME NEW c \in Cycles, PublishImage(c) PROVE WorldOK'
  <2>1. latest[c] \in Nat /\ c \in Nat
    <3>1. latest[c] \in 0..99 /\ c \in 10..99
      BY VersionAssumption DEF WorldOK
    <3> QED BY <3>1
  <2>2. Ver(c, latest[c]) \in Version /\ Ver(c, latest[c]).minor = c /\ Ver(c, latest[c]).patch = latest[c]
    BY <2>1 DEF Ver, Version
  <2>3. \A v \in images' : v \in Version /\ v.minor \in Cycles /\ v.patch <= latest[v.minor]
    BY <1>3, <2>1, <2>2 DEF PublishImage, WorldOK
  <2>4. latest' = latest /\ over' = over /\ valid' = valid
    BY <1>3 DEF PublishImage
  <2> QED BY <2>3, <2>4 DEF WorldOK, NewestFirst, Newer
<1>4. ASSUME NEW c \in Cycles, PublishMinikube(c) PROVE WorldOK'
  <2> DEFINE S == Range(valid) \cup {Ver(c, latest[c])}
  <2>1. latest[c] \in Nat /\ c \in Nat
    <3>1. latest[c] \in 0..99 /\ c \in 10..99
      BY VersionAssumption DEF WorldOK
    <3> QED BY <3>1
  <2>2. Ver(c, latest[c]) \in Version /\ Ver(c, latest[c]).minor = c /\ Ver(c, latest[c]).patch = latest[c]
    BY <2>1 DEF Ver, Version
  <2>3. \A v \in S : v \in Version /\ v.minor \in Cycles /\ v.patch <= latest[v.minor]
    BY <2>1, <2>2 DEF WorldOK, Range
  <2>4. IsFiniteSet(S)
    <3>1. IsFiniteSet(Range(valid))
      BY FiniteRange DEF WorldOK
    <3> QED BY <3>1, FS_AddElement
  <2>5. valid' \in Orders(S) /\ NewestFirst(valid')
    BY <1>4 DEF PublishMinikube
  <2>6. latest' = latest /\ over' = over /\ images' = images
    BY <1>4 DEF PublishMinikube
  <2> HIDE DEF S
  <2>7. valid' \in Seq(S) /\ DOMAIN valid' = 1..Len(valid') /\ Len(valid') \in Nat
         /\ \A k \in DOMAIN valid' : valid'[k] \in S
    BY <2>4, <2>5, ListingFacts
  <2>8. valid' \in Seq(Version)
    BY <2>3, <2>7
  <2>9. \A k \in DOMAIN valid' : valid'[k].minor \in Cycles /\ valid'[k].patch <= latest[valid'[k].minor]
    BY <2>3, <2>7
  <2> QED BY <2>5, <2>6, <2>8, <2>9 DEF WorldOK, NewestFirst
<1>5. ASSUME NEW c \in Cycles, EndOfLife(c) PROVE WorldOK'
  <2>1. over' \in SUBSET Cycles /\ latest' = latest /\ images' = images /\ valid' = valid
    BY <1>5 DEF EndOfLife, WorldOK
  <2> QED BY <2>1 DEF WorldOK, NewestFirst, Newer
<1>6. CASE Start \/ Run \/ Finished
  <2>1. UNCHANGED world
    BY <1>6 DEF Start, Run, Finished, GetSupported, CheckTag, KindFound, GetMinikube, UpdateMatrix, Fatal, vars
  <2> QED BY <1>1, <2>1
<1> QED BY <1>2, <1>3, <1>4, <1>5, <1>6 DEF Next

\* The entries of the file keep their keys.
LEMMA FileStep ==
  ASSUME FileOK, Next PROVE FileOK'
<1>1. CASE UNCHANGED file
  BY <1>1 DEF FileOK, Torn
<1>2. CASE UpdateMatrix /\ file' # Torn
  <2>1. file' = [j \in DOMAIN file |-> Updated(file[j])] /\ file # Torn
    BY <1>2 DEF UpdateMatrix
  <2>2. \A e : DOMAIN Updated(e) = DOMAIN e
    BY DEF Updated
  <2> QED BY <2>1, <2>2 DEF FileOK
<1>3. CASE UpdateMatrix /\ file' = Torn
  BY <1>3 DEF FileOK, Torn
<1>4. CASE Start \/ Finished \/ GetSupported \/ CheckTag \/ KindFound \/ GetMinikube \/ Fatal
  BY <1>1, <1>4 DEF Start, Finished, GetSupported, CheckTag, KindFound, GetMinikube, Fatal, vars
<1>5. ASSUME NEW c \in Cycles, PublishPatch(c) \/ PublishImage(c) \/ PublishMinikube(c) \/ EndOfLife(c)
      PROVE  FileOK'
  BY <1>1, <1>5 DEF PublishPatch, PublishImage, PublishMinikube, EndOfLife, Published
<1> QED BY <1>2, <1>3, <1>4, <1>5 DEF Next, Run

-----------------------------------------------------------------------------
(* The walk over the cycles and their patches.                             *)

\* getSupportedKubernetesVersions answers with every cycle before its end of
\* life, each once, in some order.
LEMMA SupportedFacts ==
  ASSUME WorldOK, NEW s \in Supported
  PROVE  /\ s \in Seq(Entry)
         /\ \A k \in DOMAIN s : s[k].cycle \in Cycles \ over /\ s[k].latest = latest[s[k].cycle]
         /\ \A c \in Cycles \ over : \E k \in DOMAIN s : s[k].cycle = c
         /\ \A k, l \in DOMAIN s : s[k].cycle = s[l].cycle => k = l
<1>1. IsFiniteSet(Cycles \ over)
  BY VersionAssumption, FS_Subset
<1>2. PICK o \in Orders(Cycles \ over) :
        s = [k \in DOMAIN o |-> [cycle |-> o[k], latest |-> latest[o[k]]]]
  BY DEF Supported
<1>3. /\ Len(o) \in Nat /\ DOMAIN o = 1..Len(o)
      /\ \A k \in DOMAIN o : o[k] \in Cycles \ over
      /\ \A x \in Cycles \ over : \E k \in DOMAIN o : o[k] = x
      /\ \A k, l \in DOMAIN o : o[k] = o[l] => k = l
  BY <1>1, ListingFacts
<1>4. \A c \in Cycles : latest[c] \in 0..99
  BY DEF WorldOK
<1>5. \A k \in DOMAIN s : s[k] = [cycle |-> o[k], latest |-> latest[o[k]]]
  BY <1>2
<1>6. \A c \in Cycles : [cycle |-> c, latest |-> latest[c]] \in Entry
  BY <1>4 DEF Entry
<1>7. s \in Seq(Entry)
  <2>1. s \in [1..Len(o) -> Entry]
    BY <1>2, <1>3, <1>6
  <2> QED BY <1>3, <2>1
<1> QED BY <1>2, <1>3, <1>5, <1>7

\* What sort.Slice leaves: the same versions at other positions, none twice.
LEMMA SortedFacts ==
  ASSUME NEW S, NEW s \in Seq(S), NEW t \in SortVersions(s)
  PROVE  /\ t \in Seq(S) /\ DOMAIN t = DOMAIN s /\ Range(t) = Range(s)
         /\ \A k, l \in DOMAIN t : k < l => ~SortsBefore(t[l], t[k])
         /\ \E o \in [DOMAIN s -> DOMAIN s] :
              /\ \A k, l \in DOMAIN s : o[k] = o[l] => k = l
              /\ \A k \in DOMAIN s : t[k] = s[o[k]]
<1>1. Len(s) \in Nat /\ DOMAIN s = 1..Len(s) /\ \A k \in DOMAIN s : s[k] \in S
  OBVIOUS
<1>2. IsFiniteSet(DOMAIN s) /\ Cardinality(DOMAIN s) = Len(s)
  BY <1>1, FS_Interval
<1>3. PICK o \in Orders(DOMAIN s) : t = [k \in DOMAIN s |-> s[o[k]]]
  BY DEF SortVersions
<1>4. /\ DOMAIN o = DOMAIN s /\ o \in Seq(DOMAIN s)
      /\ \A k \in DOMAIN o : o[k] \in DOMAIN s
      /\ \A x \in DOMAIN s : \E k \in DOMAIN o : o[k] = x
      /\ \A k, l \in DOMAIN o : o[k] = o[l] => k = l
  BY <1>1, <1>2, ListingFacts
<1>5. DOMAIN t = DOMAIN s /\ \A k \in DOMAIN s : t[k] = s[o[k]]
  BY <1>3
<1>6. t \in [1..Len(s) -> S]
  BY <1>1, <1>3, <1>4
<1>7. t \in Seq(S)
  BY <1>1, <1>6
<1>8. Range(t) = Range(s)
  BY <1>4, <1>5 DEF Range
<1>9. \A k, l \in DOMAIN t : k < l => ~SortsBefore(t[l], t[k])
  BY <1>5 DEF SortVersions
<1>10. o \in [DOMAIN s -> DOMAIN s]
  BY <1>4
<1> QED BY <1>4, <1>5, <1>7, <1>8, <1>9, <1>10

\* The walk stays within the cycles and asks for patches that are numbers.
LEMMA TypesStep ==
  ASSUME WorldOK, WalkTypes, Next PROVE WalkTypes'
<1>1. CASE GetSupported
  <2>1. supported' \in Seq(Entry)
    BY <1>1, SupportedFacts DEF GetSupported
  <2>2. CASE supported' = <<>>
    BY <1>1, <2>2 DEF GetSupported, WalkTypes
  <2>3. CASE supported' # <<>>
    <3>1. Len(supported') \in Nat /\ Len(supported') > 0 /\ supported'[1] \in Entry
      BY <2>1, <2>3
    <3>2. supported'[1].latest \in Nat
      BY <3>1 DEF Entry
    <3>3. pc' = "kind" /\ i' = 1 /\ patch' = supported'[1].latest /\ kind' = kind
      BY <1>1, <2>3 DEF GetSupported
    <3>4. kind' \in Seq(Version)
      BY <1>1, <3>3 DEF GetSupported, WalkTypes
    <3>5. 1 \in 1..(Len(supported') + 1)
      BY <3>1
    <3> QED BY <2>1, <3>2, <3>3, <3>4, <3>5 DEF WalkTypes
  <2> QED BY <2>2, <2>3
<1>2. CASE CheckTag
  <2>1. /\ supported' = supported /\ supported \in Seq(Entry)
        /\ i \in 1..(Len(supported) + 1) /\ i <= Len(supported) /\ patch \in Nat /\ kind \in Seq(Version)
        /\ pc' = "kind"
    BY <1>2 DEF CheckTag, WalkTypes
  <2>2. supported[i].cycle \in Nat /\ Ver(supported[i].cycle, patch) \in Version
    <3>1. supported[i] \in Entry
      BY <2>1
    <3>2. supported[i].cycle \in 10..99
      BY <3>1, VersionAssumption DEF Entry
    <3>3. supported[i].cycle \in Nat
      BY <3>2
    <3> QED BY <2>1, <3>3 DEF Ver, Version
  <2>3. NextCycle => i' \in 1..(Len(supported) + 1) /\ patch' \in Nat
    <3>1. ASSUME i < Len(supported) PROVE supported[i + 1].latest \in Nat
      <4>1. i + 1 \in 1..Len(supported)
        BY <2>1, <3>1
      <4>2. supported[i + 1] \in Entry
        BY <2>1, <4>1
      <4> QED BY <4>2 DEF Entry
    <3>2. Len(supported) \in Nat
      BY <2>1
    <3> QED BY <2>1, <3>1, <3>2 DEF NextCycle
  <2>4. Decrement => i' \in 1..(Len(supported) + 1) /\ patch' \in Nat
    BY <2>1, <2>3 DEF Decrement
  <2>5. i' \in 1..(Len(supported) + 1) /\ patch' \in Nat
    BY <1>2, <2>3, <2>4 DEF CheckTag
  <2>6. kind' \in Seq(Version)
    <3>1. kind' = kind \/ kind' = Append(kind, Ver(supported[i].cycle, patch))
      BY <1>2 DEF CheckTag
    <3> QED BY <2>1, <2>2, <3>1
  <2> QED BY <2>1, <2>5, <2>6 DEF WalkTypes
<1>3. CASE KindFound
  <2>1. kind \in Seq(Version) /\ kind' \in SortVersions(kind) /\ supported' = supported
        /\ supported \in Seq(Entry)
        /\ pc' = IF kind = <<>> THEN "fatal" ELSE "minikube"
    BY <1>3 DEF KindFound, WalkTypes
  <2>2. DOMAIN kind' = DOMAIN kind
    BY <2>1, SortedFacts
  <2>3. kind # <<>> => kind' # <<>>
    BY <2>1, <2>2
  <2> QED BY <2>1, <2>3 DEF WalkTypes
<1>4. CASE GetMinikube
  BY <1>4 DEF GetMinikube, WalkTypes
<1>5. CASE UpdateMatrix \/ Fatal \/ Start
  BY <1>5 DEF UpdateMatrix, Fatal, Start, WalkTypes
<1>6. CASE UNCHANGED updater
  BY <1>6 DEF WalkTypes, updater
<1>7. CASE Finished
  BY <1>6, <1>7 DEF Finished, vars
<1>8. ASSUME NEW c \in Cycles, PublishPatch(c) \/ PublishImage(c) \/ PublishMinikube(c) \/ EndOfLife(c)
      PROVE  WalkTypes'
  BY <1>6, <1>8 DEF PublishPatch, PublishImage, PublishMinikube, EndOfLife, Published
<1> QED BY <1>1, <1>2, <1>3, <1>4, <1>5, <1>7, <1>8 DEF Next, Run

-----------------------------------------------------------------------------
(* The walk down the patches of a cycle.                                   *)

\* The walk begins with the latest patch of the first cycle, which no image exceeds.
LEMMA WalkBegins ==
  ASSUME WorldOK, WalkTypes, GetSupported, pc' = "kind"
  PROVE  SupportedCurrent' /\ WalkCurrent'
<1>1. /\ supported' \in Seq(Entry)
      /\ \A k \in DOMAIN supported' :
            supported'[k].cycle \in Cycles \ over /\ supported'[k].latest = latest[supported'[k].cycle]
      /\ \A c \in Cycles \ over : \E k \in DOMAIN supported' : supported'[k].cycle = c
      /\ \A k, l \in DOMAIN supported' : supported'[k].cycle = supported'[l].cycle => k = l
  BY SupportedFacts DEF GetSupported
<1>2. i' = 1 /\ patch' = supported'[1].latest /\ kind' = <<>>
      /\ latest' = latest /\ over' = over /\ images' = images
  BY DEF GetSupported, WalkTypes, world
<1>3. SupportedCurrent'
  BY <1>1, <1>2 DEF SupportedCurrent
<1>4. ASSUME 1 <= Len(supported'), NEW v \in images, v.minor = supported'[1].cycle
      PROVE  v.patch <= supported'[1].latest
  <2>1. 1 \in DOMAIN supported'
    BY <1>1, <1>4
  <2> QED BY <1>1, <1>4, <2>1 DEF WorldOK
<1>5. Range(kind') = {}
  BY <1>2 DEF Range
<1>6. UNION {NewestImage(supported[k].cycle)' : k \in 1..(1 - 1)} = {}
  OBVIOUS
<1> QED BY <1>2, <1>3, <1>4, <1>5, <1>6 DEF WalkCurrent

\* The newest image of a cycle is the one whose patch no image of the cycle exceeds.
LEMMA NewestIsLargest ==
  ASSUME WorldOK, NEW c, NEW p \in Nat,
         \A v \in images : v.minor = c => v.patch <= p
  PROVE  /\ Ver(c, p) \in images => NewestImage(c) = {Ver(c, p)}
         /\ Ver(c, p) \in images \/ (\A v \in images : v.minor = c => v.patch < p)
<1>1. \A v \in images : v = Ver(v.minor, v.patch) /\ v.minor \in Nat /\ v.patch \in Nat
  BY DEF WorldOK, Ver, Version
<1>2. \A v \in images : v.minor = c /\ v.patch = p => v = Ver(c, p)
  BY <1>1
<1>3. Ver(c, p).minor = c /\ Ver(c, p).patch = p
  BY DEF Ver
<1>4. Ver(c, p) \in images => Ver(c, p) \in NewestImage(c)
  BY <1>1, <1>3 DEF NewestImage, Newer
<1>5. ASSUME Ver(c, p) \in images, NEW v \in NewestImage(c) PROVE v = Ver(c, p)
  <2>1. v \in images /\ v.minor = c /\ ~Newer(Ver(c, p), v)
    BY <1>3, <1>5 DEF NewestImage
  <2>2. v.patch = p
    BY <1>1, <1>3, <2>1 DEF Newer
  <2> QED BY <1>2, <2>1, <2>2
<1>6. Ver(c, p) \notin images => \A v \in images : v.minor = c => v.patch < p
  BY <1>1, <1>2
<1> QED BY <1>4, <1>5, <1>6

\* The hub finds the name of a tag that no longer name of the cycle begins:
\* the tag itself.
LEMMA TagIsExact ==
  ASSUME WorldOK, NEW c, NEW p \in Nat,
         \A v \in images : v.minor = c => v.patch <= p
  PROVE  ImageTagExists(c, p) <=> Ver(c, p) \in images
<1>1. \A v \in images : v = Ver(v.minor, v.patch) /\ v.patch \in Nat
  BY DEF WorldOK, Ver, Version
<1>2. \A v \in images : v.minor = c /\ DigitsBegin(p, v.patch) => v.patch = p
  BY <1>1, LongerIsGreater
<1>3. Ver(c, p).minor = c /\ DigitsBegin(p, Ver(c, p).patch)
  BY DEF Ver, DigitsBegin
<1> QED BY <1>1, <1>2, <1>3 DEF ImageTagExists

\* With the next cycle the walk begins again at a patch that no image exceeds.
LEMMA NextCycleBegins ==
  ASSUME WorldOK, supported \in Seq(Entry), SupportedCurrent, i \in 1..Len(supported), NextCycle
  PROVE  /\ i' = i + 1
         /\ i' <= Len(supported) =>
              \A v \in images : v.minor = supported[i'].cycle => v.patch <= patch'
<1>1. i' = i + 1 /\ patch' = IF i < Len(supported) THEN supported[i + 1].latest ELSE 0
  BY DEF NextCycle
<1>2. Len(supported) \in Nat /\ DOMAIN supported = 1..Len(supported)
  OBVIOUS
<1>3. ASSUME i + 1 <= Len(supported), NEW v \in images, v.minor = supported[i + 1].cycle
      PROVE  v.patch <= patch'
  <2>1. i < Len(supported) /\ i + 1 \in DOMAIN supported
    BY <1>2, <1>3
  <2> QED BY <1>1, <1>3, <2>1 DEF SupportedCurrent, WorldOK
<1> QED BY <1>1, <1>3

\* One turn of the loop: the tag found is the newest of its cycle, and a cycle
\* given up has none.
LEMMA WalkStep ==
  ASSUME WorldOK, supported \in Seq(Entry), i \in 1..Len(supported), patch \in Nat, kind \in Seq(Version),
         SupportedCurrent, WalkCurrent, CheckTag
  PROVE  WalkCurrent'
<1> DEFINE c == supported[i].cycle
           Found(n) == UNION {NewestImage(supported[k].cycle) : k \in 1..(n - 1)}
<1>1. images' = images /\ supported' = supported /\ Len(supported) \in Nat /\ DOMAIN supported = 1..Len(supported)
  BY DEF CheckTag, world
<1>2. \A v \in images : v.minor = c => v.patch <= patch
  BY <1>1 DEF WalkCurrent
<1>3. Range(kind) = Found(i) /\ \A k, l \in DOMAIN kind : kind[k].minor = kind[l].minor => k = l
  BY DEF WalkCurrent
<1>4. Found(i + 1) = Found(i) \cup NewestImage(c)
  <2>1. 1..(i + 1 - 1) = 1..(i - 1) \cup {i}
    BY <1>1
  <2> QED BY <2>1
<1>5. (Range(kind) = UNION {NewestImage(supported[k].cycle) : k \in 1..(i - 1)})' <=> Range(kind') = Found(i')
  BY <1>1 DEF NewestImage
<1>6. CASE ImageTagExists(c, patch)
  <2>1. kind' = Append(kind, Ver(c, patch)) /\ NextCycle
    BY <1>6 DEF CheckTag
  <2>2. NewestImage(c) = {Ver(c, patch)}
    BY <1>2, <1>6, TagIsExact, NewestIsLargest
  <2>3. Len(kind) \in Nat /\ DOMAIN kind = 1..Len(kind) /\ DOMAIN kind' = 1..(Len(kind) + 1)
        /\ kind'[Len(kind) + 1] = Ver(c, patch) /\ \A k \in DOMAIN kind : kind'[k] = kind[k]
    BY <2>1
  <2>4. Range(kind') = Range(kind) \cup {Ver(c, patch)}
    BY <2>3 DEF Range
  <2>5. \A v \in Range(kind) : v.minor # c
    <3>1. SUFFICES ASSUME NEW v \in Range(kind), v.minor = c PROVE FALSE
      OBVIOUS
    <3>2. PICK k \in 1..(i - 1) : v \in NewestImage(supported[k].cycle)
      BY <1>3, <3>1
    <3>3. supported[k].cycle = c
      BY <3>1, <3>2 DEF NewestImage
    <3>4. k \in DOMAIN supported /\ i \in DOMAIN supported /\ k # i
      BY <1>1, <3>2
    <3> QED BY <3>3, <3>4 DEF SupportedCurrent
  <2>6. \A k \in DOMAIN kind : kind[k].minor # c
    BY <2>5 DEF Range
  <2>7. Ver(c, patch).minor = c
    BY DEF Ver
  <2>8. \A k, l \in DOMAIN kind' : kind'[k].minor = kind'[l].minor => k = l
    BY <1>3, <2>3, <2>6, <2>7
  <2>9. i' = i + 1 /\ (i' <= Len(supported) =>
          \A v \in images : v.minor = supported[i'].cycle => v.patch <= patch')
    BY <2>1, NextCycleBegins
  <2>10. Range(kind') = Found(i')
    BY <1>3, <1>4, <2>2, <2>4, <2>9
  <2> QED BY <1>1, <1>5, <2>8, <2>9, <2>10 DEF WalkCurrent
<1>7. CASE ~ImageTagExists(c, patch)
  <2>1. Decrement /\ kind' = kind
    BY <1>7 DEF CheckTag
  <2>2. \A v \in images : v.minor = c => v.patch < patch /\ v.patch \in Nat
    BY <1>2, <1>7, TagIsExact, NewestIsLargest DEF WorldOK, Version
  <2>3. CASE patch = 0
    <3>1. NextCycle
      BY <2>1, <2>3 DEF Decrement
    <3>2. NewestImage(c) = {}
      BY <2>2, <2>3 DEF NewestImage
    <3>3. i' = i + 1 /\ (i' <= Len(supported) =>
            \A v \in images : v.minor = supported[i'].cycle => v.patch <= patch')
      BY <3>1, NextCycleBegins
    <3>4. Range(kind') = Found(i')
      BY <1>3, <1>4, <2>1, <3>2, <3>3
    <3> QED BY <1>1, <1>3, <1>5, <2>1, <3>3, <3>4 DEF WalkCurrent
  <2>4. CASE patch # 0
    <3>1. patch' = patch - 1 /\ i' = i
      BY <2>1, <2>4 DEF Decrement
    <3>2. \A v \in images : v.minor = c => v.patch <= patch'
      BY <2>2, <3>1
    <3>3. Range(kind') = Found(i')
      BY <1>3, <2>1, <3>1
    <3> QED BY <1>1, <1>3, <1>5, <2>1, <3>1, <3>2, <3>3 DEF WalkCurrent
  <2> QED BY <2>3, <2>4
<1> QED BY <1>6, <1>7

-----------------------------------------------------------------------------
(* The two lists.                                                          *)

\* At the end of the walk every cycle was visited, and the sort by digits puts
\* the newest cycle first.
LEMMA SortedIsCurrent ==
  ASSUME WorldOK, supported \in Seq(Entry), i \in 1..(Len(supported) + 1), kind \in Seq(Version),
         SupportedCurrent, WalkCurrent, KindFound
  PROVE  KindCurrent(kind)'
<1>1. /\ images' = images /\ over' = over /\ kind' \in SortVersions(kind) /\ i > Len(supported)
      /\ Len(supported) \in Nat /\ DOMAIN supported = 1..Len(supported)
  BY DEF KindFound, world
<1>2. i = Len(supported) + 1 /\ 1..(i - 1) = DOMAIN supported
  BY <1>1
<1>3. Range(kind) = UNION {NewestImage(c) : c \in Cycles \ over}
  <2>1. {supported[k].cycle : k \in DOMAIN supported} = Cycles \ over
    BY DEF SupportedCurrent
  <2> QED BY <1>2, <2>1 DEF WalkCurrent
<1>4. /\ kind' \in Seq(Version) /\ DOMAIN kind' = DOMAIN kind /\ Range(kind') = Range(kind)
      /\ \A k, l \in DOMAIN kind' : k < l => ~SortsBefore(kind'[l], kind'[k])
      /\ \E o \in [DOMAIN kind -> DOMAIN kind] :
           /\ \A k, l \in DOMAIN kind : o[k] = o[l] => k = l
           /\ \A k \in DOMAIN kind : kind'[k] = kind[o[k]]
  BY <1>1, SortedFacts
<1>5. Len(kind') \in Nat /\ DOMAIN kind' = 1..Len(kind') /\ \A k \in DOMAIN kind' : kind'[k] \in Range(kind')
  BY <1>4 DEF Range
<1>6. \A v \in Range(kind') : v \in images
  BY <1>3, <1>4 DEF NewestImage
<1>7. kind' \in Seq(images)
  BY <1>4, <1>5, <1>6
<1>8. \A v \in images : v.minor \in 10..99
  BY VersionAssumption DEF WorldOK
<1>9. \A k, l \in DOMAIN kind' : kind'[k].minor = kind'[l].minor => k = l
  BY <1>4 DEF WalkCurrent
<1>10. NewestFirst(kind')
  <2>1. SUFFICES ASSUME NEW k \in DOMAIN kind', NEW l \in DOMAIN kind', k < l
                 PROVE  kind'[k].minor > kind'[l].minor
    BY DEF NewestFirst, Newer
  <2>2. kind'[k].minor \in 10..99 /\ kind'[l].minor \in 10..99
    BY <1>5, <1>6, <1>8
  <2>3. kind'[k].minor # kind'[l].minor
    BY <1>5, <1>9, <2>1
  <2>4. ~DigitsGreater(kind'[l].minor, kind'[k].minor)
    BY <1>4, <2>1, <2>3 DEF SortsBefore
  <2> QED BY <2>2, <2>3, <2>4, TwoDigits, Zenon
<1>11. \A c : NewestImage(c)' = NewestImage(c)
  BY <1>1 DEF NewestImage
<1> QED BY <1>1, <1>3, <1>4, <1>7, <1>10, <1>11 DEF KindCurrent, NewestFirst

\* Every nonempty set of natural numbers has a smallest element.
LEMMA SmallestExists ==
  ASSUME NEW S, S \subseteq Nat, S # {}
  PROVE  \E x \in S : \A y \in S : x <= y
<1> DEFINE R == {p \in Nat \X Nat : p[1] < p[2]}
<1>1. IsWellFoundedOn(R, Nat)
  BY NatLessThanWellFounded DEF OpToRel
<1>2. \A x, y \in Nat : x < y => <<x, y>> \in R
  OBVIOUS
<1> HIDE DEF R
<1>3. PICK x \in S : \A y \in S : <<y, x>> \notin R
  BY <1>1, WFMin
<1>4. \A y \in S : ~(y < x)
  BY <1>2, <1>3
<1> QED BY <1>3, <1>4

\* Below the cycles' numbers a name of minikube contains a cycle only as its own.
LEMMA MatchIsExact ==
  ASSUME WorldOK, PatchesBelowCycles, NEW c \in Cycles
  PROVE  Matches(c) = {k \in DOMAIN valid : valid[k].minor = c}
<1>1. SUFFICES ASSUME NEW k \in DOMAIN valid PROVE InCycle(valid[k], c) <=> valid[k].minor = c
  BY DEF Matches
<1>2. valid[k] \in Version /\ valid[k].minor \in Cycles /\ valid[k].patch <= latest[valid[k].minor]
  BY DEF WorldOK
<1>3. c \in 10..99 /\ valid[k].minor \in 10..99 /\ valid[k].minor \in 0..99
  <2>1. c \in 10..99 /\ valid[k].minor \in 10..99
    BY <1>2, VersionAssumption
  <2> QED BY <2>1
<1>4. latest[valid[k].minor] \in 0..99 /\ valid[k].patch \in Nat
  BY <1>2 DEF WorldOK, Version
<1>5. latest[valid[k].minor] < c
  <2>1. FirstLatest[valid[k].minor] \in 0..99 /\ MaxLatest[valid[k].minor] \in 0..99
    BY <1>2, VersionAssumption
  <2>2. FirstLatest[valid[k].minor] < c /\ MaxLatest[valid[k].minor] < c
    BY <1>2 DEF PatchesBelowCycles
  <2>3. latest[valid[k].minor] <= FirstLatest[valid[k].minor] \/ latest[valid[k].minor] <= MaxLatest[valid[k].minor]
    BY <1>2 DEF WorldOK
  <2>4. \A x, y, z \in 0..99 : \A d \in 10..99 : (x <= y \/ x <= z) /\ y < d /\ z < d => x < d
    OBVIOUS
  <2> QED BY <1>3, <1>4, <2>1, <2>2, <2>3, <2>4, Zenon
<1>6. valid[k].patch \in 0..99 /\ valid[k].patch < c
  BY <1>2, <1>3, <1>4, <1>5
<1>7. ~DigitsBegin(c, valid[k].patch)
  <2>1. c # valid[k].patch
    BY <1>3, <1>6
  <2> QED BY <1>3, <1>6, <2>1, TwoDigits, Zenon
<1>8. DigitsBegin(c, valid[k].minor) <=> c = valid[k].minor
  BY <1>3, TwoDigits DEF DigitsBegin
<1> QED BY <1>7, <1>8 DEF InCycle

\* The first match of a cycle is its newest version, the list being newest first.
LEMMA FirstIsNewest ==
  ASSUME WorldOK, PatchesBelowCycles, NEW c \in Cycles, Matches(c) # {}
  PROVE  \A v \in Range(valid) :
           v.minor = c /\ (\A w \in Range(valid) : w.minor = c => ~Newer(w, v)) <=> v = FirstMatch(c)
<1> DEFINE first == CHOOSE k \in Matches(c) : \A l \in Matches(c) : k <= l
<1>1. Len(valid) \in Nat /\ DOMAIN valid = 1..Len(valid) /\ Matches(c) \subseteq Nat
  BY DEF WorldOK, Matches
<1>2. first \in Matches(c) /\ \A l \in Matches(c) : first <= l
  BY <1>1, SmallestExists
<1>3. FirstMatch(c) = valid[first]
  BY DEF FirstMatch
<1> HIDE DEF first
<1>4. first \in DOMAIN valid /\ valid[first].minor = c
  BY <1>2, MatchIsExact
<1>5. \A l \in DOMAIN valid : valid[l].minor = c => l = first \/ Newer(valid[first], valid[l])
  <2>1. SUFFICES ASSUME NEW l \in DOMAIN valid, valid[l].minor = c, l # first
                 PROVE  Newer(valid[first], valid[l])
    OBVIOUS
  <2>2. l \in Matches(c)
    BY <2>1, MatchIsExact
  <2>3. first <= l /\ first \in Nat /\ l \in Nat
    BY <1>1, <1>2, <2>2
  <2>4. first < l
    BY <2>1, <2>3
  <2> QED BY <1>4, <2>1, <2>4 DEF WorldOK, NewestFirst
<1>6. \A v, w \in Version : Newer(v, w) => ~Newer(w, v)
  BY DEF Newer, Version
<1>7. \A l \in DOMAIN valid : valid[l] \in Version
  BY DEF WorldOK
<1>8. ASSUME NEW w \in Range(valid), w.minor = c PROVE ~Newer(w, valid[first])
  <2>1. PICK l \in DOMAIN valid : w = valid[l]
    BY <1>8 DEF Range
  <2>2. CASE l = first
    BY <1>4, <1>7, <2>1, <2>2 DEF Newer, Version
  <2>3. CASE Newer(valid[first], valid[l])
    BY <1>4, <1>6, <1>7, <2>1, <2>3
  <2> QED BY <1>5, <1>8, <2>1, <2>2, <2>3
<1>9. ASSUME NEW v \in Range(valid), v.minor = c, \A w \in Range(valid) : w.minor = c => ~Newer(w, v)
      PROVE  v = valid[first]
  <2>1. PICK l \in DOMAIN valid : v = valid[l]
    BY <1>9 DEF Range
  <2>2. valid[first] \in Range(valid)
    BY <1>4 DEF Range
  <2> QED BY <1>4, <1>5, <1>9, <2>1, <2>2
<1> QED BY <1>3, <1>4, <1>8, <1>9

\* One version for every cycle with a match: the list of the minikube versions
\* holds the newest of each, and nothing else.
LEMMA MinikubeIsCurrent ==
  ASSUME WorldOK, PatchesBelowCycles, supported \in Seq(Entry), SupportedCurrent, GetMinikube
  PROVE  MinikubeCurrent(minikube)'
<1> DEFINE H == {k \in DOMAIN supported : Matches(supported[k].cycle) # {}}
<1>1. valid' = valid /\ over' = over
  BY DEF GetMinikube, world
<1>2. PICK o \in Orders(H) : minikube' = [k \in DOMAIN o |-> FirstMatch(supported[o[k]].cycle)]
  BY DEF GetMinikube
<1>3. IsFiniteSet(H)
  <2>1. Len(supported) \in Nat /\ DOMAIN supported = 1..Len(supported)
    OBVIOUS
  <2>2. IsFiniteSet(DOMAIN supported)
    BY <2>1, FS_Interval
  <2> QED BY <2>2, FS_Subset
<1>4. (\A k \in DOMAIN o : o[k] \in H) /\ \A h \in H : \E k \in DOMAIN o : o[k] = h
  <2> HIDE DEF H
  <2> QED BY <1>3, ListingFacts
<1>5. Range(minikube') = {FirstMatch(supported[h].cycle) : h \in H}
  <2> HIDE DEF H
  <2> QED BY <1>2, <1>4 DEF Range
<1> DEFINE Newest(v) == v.minor \in Cycles \ over /\ \A w \in Range(valid) : w.minor = v.minor => ~Newer(w, v)
<1>6. ASSUME NEW c \in Cycles, Matches(c) # {}
      PROVE  FirstMatch(c) \in Range(valid) /\ FirstMatch(c).minor = c
  <2>1. Matches(c) \subseteq Nat
    BY DEF Matches, WorldOK
  <2>2. \E k \in Matches(c) : \A l \in Matches(c) : k <= l
    BY <1>6, <2>1, SmallestExists
  <2>3. \E k \in Matches(c) : FirstMatch(c) = valid[k]
    BY <2>2 DEF FirstMatch
  <2> QED BY <2>3, MatchIsExact DEF Range
<1>7. ASSUME NEW h \in H PROVE FirstMatch(supported[h].cycle) \in Range(valid) /\ Newest(FirstMatch(supported[h].cycle))
  <2>1. supported[h].cycle \in Cycles \ over /\ Matches(supported[h].cycle) # {}
    BY DEF SupportedCurrent
  <2> QED BY <1>6, <2>1, FirstIsNewest
<1>8. ASSUME NEW v \in Range(valid), Newest(v) PROVE \E h \in H : v = FirstMatch(supported[h].cycle)
  <2>1. PICK h \in DOMAIN supported : supported[h].cycle = v.minor
    BY <1>8 DEF SupportedCurrent
  <2>2. Matches(v.minor) # {}
    BY <1>8, MatchIsExact DEF Range
  <2> QED BY <1>8, <2>1, <2>2, FirstIsNewest
<1>9. Range(minikube') = {v \in Range(valid) : Newest(v)}
  <2> HIDE DEF Newest, H
  <2> QED BY <1>5, <1>7, <1>8
<1> QED BY <1>1, <1>9 DEF MinikubeCurrent

-----------------------------------------------------------------------------
(* The file.                                                               *)

\* updateMatrixFile gives every kind entry the kind list and every entry with a
\* minikube list alone the minikube list.
LEMMA UpdateIsCurrent ==
  ASSUME FileOK, WalkTypes, FoundCurrent, UpdateMatrix
  PROVE  FileCurrent'
<1>1. SUFFICES ASSUME pc' = "done", NEW j \in DOMAIN Jobs
               PROVE  /\ "kind" \in Jobs[j] => KindCurrent(file[j]["kind"])'
                      /\ Jobs[j] = {"minikube"} /\ PatchesBelowCycles => MinikubeCurrent(file[j]["minikube"])'
  BY DEF FileCurrent
<1>2. /\ pc = "update" /\ file # Torn /\ file' = [e \in DOMAIN file |-> Updated(file[e])]
      /\ images' = images /\ over' = over /\ valid' = valid
  BY <1>1 DEF UpdateMatrix, world
<1>3. /\ kind # <<>> /\ minikube # <<>> /\ KindCurrent(kind)
      /\ PatchesBelowCycles => MinikubeCurrent(minikube)
  BY <1>2 DEF WalkTypes, FoundCurrent
<1>4. file'[j] = Updated(file[j]) /\ DOMAIN file[j] = Jobs[j]
  BY <1>2 DEF FileOK
<1>5. "kind" \in Jobs[j] => file'[j]["kind"] = kind
  BY <1>3, <1>4 DEF Updated
<1>6. Jobs[j] = {"minikube"} => file'[j]["minikube"] = minikube
  BY <1>3, <1>4 DEF Updated
<1>7. \A c : NewestImage(c)' = NewestImage(c)
  BY <1>2 DEF NewestImage
<1>8. "kind" \in Jobs[j] => KindCurrent(file[j]["kind"])'
  BY <1>2, <1>3, <1>5, <1>7 DEF KindCurrent
<1>9. Jobs[j] = {"minikube"} /\ PatchesBelowCycles => MinikubeCurrent(file[j]["minikube"])'
  BY <1>2, <1>3, <1>6 DEF MinikubeCurrent
<1> QED BY <1>8, <1>9

\* While nothing is published, every step keeps what was found current.
LEMMA CurrentStep ==
  ASSUME WorldOK, FileOK, WalkTypes, FoundCurrent, FileCurrent, Run \/ Finished
  PROVE  FoundCurrent' /\ FileCurrent'
<1>1. CASE GetSupported
  <2>1. pc' \in {"kind", "fatal"}
    BY <1>1 DEF GetSupported
  <2>2. pc' = "kind" => SupportedCurrent' /\ WalkCurrent'
    BY <1>1, WalkBegins
  <2> QED BY <2>1, <2>2 DEF FoundCurrent, FileCurrent
<1>2. CASE CheckTag
  <2>1. /\ pc = "kind" /\ pc' = "kind" /\ i <= Len(supported) /\ supported' = supported
        /\ latest' = latest /\ over' = over
    BY <1>2 DEF CheckTag, world
  <2>2. supported \in Seq(Entry) /\ i \in 1..(Len(supported) + 1) /\ patch \in Nat /\ kind \in Seq(Version)
        /\ SupportedCurrent /\ WalkCurrent
    BY <2>1 DEF WalkTypes, FoundCurrent
  <2>3. i \in 1..Len(supported)
    BY <2>1, <2>2
  <2>4. WalkCurrent'
    BY <1>2, <2>2, <2>3, WalkStep
  <2>5. SupportedCurrent'
    BY <2>1, <2>2 DEF SupportedCurrent
  <2> QED BY <2>1, <2>4, <2>5 DEF FoundCurrent, FileCurrent
<1>3. CASE KindFound
  <2>1. /\ pc = "kind" /\ pc' \in {"minikube", "fatal"} /\ supported' = supported
        /\ latest' = latest /\ over' = over
    BY <1>3 DEF KindFound, world
  <2>2. supported \in Seq(Entry) /\ i \in 1..(Len(supported) + 1) /\ kind \in Seq(Version)
        /\ SupportedCurrent /\ WalkCurrent
    BY <2>1 DEF WalkTypes, FoundCurrent
  <2>3. KindCurrent(kind)'
    BY <1>3, <2>2, SortedIsCurrent
  <2>4. SupportedCurrent'
    BY <2>1, <2>2 DEF SupportedCurrent
  <2> QED BY <2>1, <2>3, <2>4 DEF FoundCurrent, FileCurrent
<1>4. CASE GetMinikube
  <2>1. /\ pc = "minikube" /\ pc' \in {"update", "fatal"} /\ kind' = kind
        /\ images' = images /\ over' = over
    BY <1>4 DEF GetMinikube, world
  <2>2. supported \in Seq(Entry) /\ SupportedCurrent /\ KindCurrent(kind)
    BY <2>1 DEF WalkTypes, FoundCurrent
  <2>3. PatchesBelowCycles => MinikubeCurrent(minikube)'
    BY <1>4, <2>2, MinikubeIsCurrent
  <2>4. \A c : NewestImage(c)' = NewestImage(c)
    BY <2>1 DEF NewestImage
  <2>5. KindCurrent(kind)'
    BY <2>1, <2>2, <2>4 DEF KindCurrent
  <2> QED BY <2>1, <2>3, <2>5 DEF FoundCurrent, FileCurrent
<1>5. CASE UpdateMatrix
  <2>1. pc' \in {"done", "fatal"}
    BY <1>5 DEF UpdateMatrix
  <2> QED BY <1>5, <2>1, UpdateIsCurrent DEF FoundCurrent
<1>6. CASE Fatal
  BY <1>6 DEF Fatal, FoundCurrent, FileCurrent
<1>7. CASE Finished
  <2>1. pc' = pc /\ pc \in {"idle", "done", "fatal"} /\ file' = file /\ images' = images /\ over' = over /\ valid' = valid
    BY <1>7 DEF Finished, vars, world, updater
  <2>2. \A c : NewestImage(c)' = NewestImage(c)
    BY <2>1 DEF NewestImage
  <2>3. \A t : (KindCurrent(t)' <=> KindCurrent(t)) /\ (MinikubeCurrent(t)' <=> MinikubeCurrent(t))
    BY <2>1, <2>2 DEF KindCurrent, MinikubeCurrent
  <2> QED BY <2>1, <2>3 DEF FoundCurrent, FileCurrent
<1> QED BY <1>1, <1>2, <1>3, <1>4, <1>5, <1>6, <1>7 DEF Run

\* MatrixInv is inductive.
THEOREM MatrixInvHolds == Spec => []MatrixInv
<1>1. Init => MatrixInv
  <2>1. SUFFICES ASSUME Init PROVE MatrixInv
    OBVIOUS
  <2>2. FileOK
    BY <2>1 DEF Init, FileOK
  <2>3. WalkTypes /\ FoundCurrent /\ FileCurrent
    BY <2>1 DEF Init, WalkTypes, FoundCurrent, FileCurrent
  <2> QED BY <2>1, <2>2, <2>3, InitWorld DEF MatrixInv
<1>2. MatrixInv /\ [Next]_vars => MatrixInv'
  <2>1. SUFFICES ASSUME MatrixInv, [Next]_vars PROVE MatrixInv'
    OBVIOUS
  <2>2. CASE Next
    <3>1. WorldOK' /\ FileOK' /\ WalkTypes'
      BY <2>1, <2>2, WorldStep, FileStep, TypesStep DEF MatrixInv
    <3>2. CASE Run \/ Finished
      <4>1. quiet' = quiet
        BY <3>2 DEF Run, Finished, GetSupported, CheckTag, KindFound, GetMinikube, UpdateMatrix, Fatal, vars
      <4> QED BY <2>1, <3>1, <3>2, <4>1, CurrentStep DEF MatrixInv
    <3>3. CASE Start
      <4>1. pc' = "supported"
        BY <3>3 DEF Start
      <4> QED BY <3>1, <4>1 DEF MatrixInv, FoundCurrent, FileCurrent
    <3>4. ASSUME NEW c \in Cycles, PublishPatch(c) \/ PublishImage(c) \/ PublishMinikube(c) \/ EndOfLife(c)
          PROVE  MatrixInv'
      <4>1. quiet' = FALSE
        BY <3>4 DEF PublishPatch, PublishImage, PublishMinikube, EndOfLife, Published
      <4> QED BY <3>1, <4>1 DEF MatrixInv
    <3> QED BY <2>2, <3>2, <3>3, <3>4 DEF Next
  <2>3. CASE UNCHANGED vars
    <3>1. UNCHANGED <<world, updater, file, quiet>>
      BY <2>3 DEF vars
    <3> QED BY <2>1, <3>1 DEF MatrixInv, WorldOK, FileOK, WalkTypes, FoundCurrent, FileCurrent, SupportedCurrent,
               WalkCurrent, KindCurrent, MinikubeCurrent, NewestImage, NewestFirst, Newer, world, updater
  <2> QED BY <2>1, <2>2, <2>3
<1> QED BY <1>1, <1>2, PTL DEF Spec

\* After a run during which nothing was published the matrix is current, as
\* long as no patch number reaches the number of a cycle.
THEOREM MatrixIsCurrent ==
  ASSUME PatchesBelowCycles
  PROVE  Spec => []MatrixCurrent
<1>1. MatrixInv => MatrixCurrent
  BY DEF MatrixInv, FileCurrent, MatrixCurrent
<1> QED BY <1>1, MatrixInvHolds, PTL

\* The kind lists are current whatever the numbers of the patches are.
THEOREM KindListsAreCurrent ==
  Spec => [](pc = "done" /\ quiet =>
               \A j \in DOMAIN Jobs : "kind" \in Jobs[j] => KindCurrent(file[j]["kind"]))
<1>1. MatrixInv => (pc = "done" /\ quiet =>
               \A j \in DOMAIN Jobs : "kind" \in Jobs[j] => KindCurrent(file[j]["kind"]))
  BY DEF MatrixInv, FileCurrent
<1> QED BY <1>1, MatrixInvHolds, PTL

\* Until updateMatrixFile writes it the file is as the run found it, and a run
\* that gives up leaves it so, or torn.
THEOREM FileIsOldOrNew == Spec => []OldOrNew
<1> DEFINE Inv == OldOrNew /\ (pc = "supported" => file = before)
<1>1. Init => Inv
  BY DEF Init, OldOrNew
<1>2. Inv /\ [Next]_vars => Inv'
  <2>1. SUFFICES ASSUME Inv, [Next]_vars PROVE Inv'
    OBVIOUS
  <2>2. CASE GetSupported \/ CheckTag \/ KindFound \/ GetMinikube \/ Fatal
    <3>1. file' = file /\ before' = before
      BY <2>2 DEF GetSupported, CheckTag, KindFound, GetMinikube, Fatal
    <3>2. pc \in {"supported", "kind", "minikube", "update"} /\ pc' \in {"kind", "minikube", "update", "fatal"}
      BY <2>2 DEF GetSupported, CheckTag, KindFound, GetMinikube, Fatal
    <3> QED BY <2>1, <3>1, <3>2 DEF OldOrNew
  <2>3. CASE UpdateMatrix
    BY <2>1, <2>3 DEF UpdateMatrix, OldOrNew
  <2>4. CASE Start
    BY <2>4 DEF Start, OldOrNew
  <2>5. CASE UNCHANGED <<pc, file, before>>
    BY <2>1, <2>5 DEF OldOrNew, Torn
  <2>6. CASE Finished \/ UNCHANGED vars
    BY <2>5, <2>6 DEF Finished, vars, updater
  <2>7. ASSUME NEW c \in Cycles, PublishPatch(c) \/ PublishImage(c) \/ PublishMinikube(c) \/ EndOfLife(c)
        PROVE  Inv'
    BY <2>5, <2>7 DEF PublishPatch, PublishImage, PublishMinikube, EndOfLife, Published, updater
  <2> QED BY <2>1, <2>2, <2>3, <2>4, <2>6, <2>7 DEF Next, Run
<1> QED BY <1>1, <1>2, PTL DEF Spec
=============================================================================
