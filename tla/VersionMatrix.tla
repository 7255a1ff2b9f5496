---------------------------- MODULE VersionMatrix ----------------------------
(***************************************************************************)
(* The updater of the Kubernetes versions in ci-matrix.json                *)
(* (tools/k8s_versions/update_k8s_versions.go): one request after another  *)
(* to endoflife.date, Docker Hub and the minikube repository, each of      *)
(* which may fail, while new versions and images are being published, and  *)
(* at the end one rewrite of the file.                                     *)
(*                                                                         *)
(* A version "v1.34.8" is the record [minor |-> 34, patch |-> 8]; the      *)
(* cycle "1.34" is the number 34.                                          *)
(***************************************************************************)
EXTENDS Integers, Sequences, FiniteSets, Functions

CONSTANTS
  Cycles,     \* the cycles that endoflife.date lists
  FirstLatest,\* the latest patch of every cycle at first
  FirstImages,\* the kind images that may exist at first
  MaxLatest,  \* bound on the latest patch of every cycle
  MaxNews,    \* bound on the publications
  MaxRuns,    \* bound on the runs of the updater
  Jobs        \* the keys of every job of the matrix: "kind", "minikube"

Version == [minor : Nat, patch : Nat]

ASSUME VersionAssumption ==
  /\ Cycles \subseteq 10..99 /\ IsFiniteSet(Cycles)
  /\ FirstLatest \in [Cycles -> 0..99] /\ MaxLatest \in [Cycles -> 0..99]
  /\ FirstImages \subseteq {v \in Version : v.minor \in Cycles /\ v.patch <= FirstLatest[v.minor]}
  /\ MaxNews \in Nat /\ MaxRuns \in Nat
  /\ \A j \in DOMAIN Jobs : Jobs[j] \subseteq {"kind", "minikube"}

VARIABLES
  latest,     \* endoflife.date: the latest patch of every cycle
  over,       \* ... the cycles past their end of life
  images,     \* the tags of kindest/node
  valid,      \* ValidKubernetesVersions of minikube, newest first
  news,       \* the number of publications so far
  pc,         \* where the updater is
  runs,       \* the number of its runs
  supported,  \* k8sVersions: [cycle, latest] in the order of the answer
  i, patch,   \* getLatestSupportedKindImages: the cycle and the patch it asks for
  kind, minikube, \* the versions found
  file,       \* ci-matrix.json: the lists of every job, or Torn
  before, quiet   \* history: file, and whether nothing was published, since the run began

world   == <<latest, over, images, valid, news>>
updater == <<pc, runs, supported, i, patch, kind, minikube>>
vars    == <<world, updater, file, before, quiet>>

\* os.WriteFile truncates the file first: a file without entries, which
\* cannot be unmarshalled.
Torn == <<>>

Ver(c, p) == [minor |-> c, patch |-> p]

\* The digits of a begin those of b (numbers below 100).
DigitsBegin(a, b) == a = b \/ (a > 0 /\ b \div 10 = a)

\* strings.Contains(minikubeVersion, k8sVersion.Cycle): "1.c" in "v1.m.p".
InCycle(v, c) == DigitsBegin(c, v.minor) \/ (v.minor % 10 = 1 /\ DigitsBegin(c, v.patch))

\* vi[k] > vj[k], on the digits of two numbers below 100 (sortVersions).
DigitsGreater(a, b) ==
  LET lead(n) == IF n < 10 THEN n ELSE n \div 10
  IN  lead(a) > lead(b) \/ (lead(a) = lead(b) /\ a > b)

SortsBefore(v, w) ==
  IF v.minor # w.minor THEN DigitsGreater(v.minor, w.minor)
                       ELSE DigitsGreater(v.patch, w.patch)

\* The listings of a finite set, every element once.
Orders(S) == Bijection(1..Cardinality(S), S)

\* Mutant: the list stays in the order in which the cycles were listed.
Unsorted(s) == {s}

\* sortVersions: what sort.Slice may leave, a rearrangement with no two
\* versions the wrong way round.
SortVersions(s) ==
  {t \in {[k \in DOMAIN s |-> s[o[k]]] : o \in Orders(DOMAIN s)} :
     \A k, l \in DOMAIN s : k < l => ~SortsBefore(t[l], t[k])}

-----------------------------------------------------------------------------

Newer(v, w) == v.minor > w.minor \/ (v.minor = w.minor /\ v.patch > w.patch)

NewestFirst(t) == \A k, l \in DOMAIN t : k < l => Newer(t[k], t[l])

Init ==
  /\ latest = FirstLatest /\ over \in {{}, Cycles}
  /\ images \in SUBSET FirstImages
  /\ valid \in {t \in Orders({Ver(c, latest[c]) : c \in Cycles}) : NewestFirst(t)}
  /\ news = 0
  /\ pc = "idle" /\ runs = 0
  /\ supported = <<>> /\ i = 0 /\ patch = 0 /\ kind = <<>> /\ minikube = <<>>
  /\ file = [j \in DOMAIN Jobs |-> [key \in Jobs[j] |-> <<>>]]
  /\ before = file /\ quiet = TRUE

Published ==
  /\ news < MaxNews
  /\ news' = news + 1
  /\ quiet' = FALSE
  /\ UNCHANGED <<updater, file, before>>

PublishPatch(c) ==
  /\ Published
  /\ latest[c] < MaxLatest[c]
  /\ latest' = [latest EXCEPT ![c] = @ + 1]
  /\ UNCHANGED <<over, images, valid>>

PublishImage(c) ==
  /\ Published
  /\ images' = images \cup {Ver(c, latest[c])}
  /\ UNCHANGED <<latest, over, valid>>

PublishMinikube(c) ==
  /\ Published
  /\ valid' \in {t \in Orders(Range(valid) \cup {Ver(c, latest[c])}) : NewestFirst(t)}
  /\ UNCHANGED <<latest, over, images>>

EndOfLife(c) ==
  /\ Published
  /\ over' = over \cup {c}
  /\ UNCHANGED <<latest, images, valid>>

-----------------------------------------------------------------------------

Start ==
  /\ pc \in {"idle", "done", "fatal"} /\ runs < MaxRuns
  /\ pc' = "supported" /\ runs' = runs + 1
  /\ before' = file /\ quiet' = TRUE
  /\ supported' = <<>> /\ i' = 0 /\ patch' = 0 /\ kind' = <<>> /\ minikube' = <<>>
  /\ UNCHANGED <<world, file>>

\* log.Fatalf, on a request that fails (getRequestBody), an answer that
\* cannot be parsed, a file that cannot be read.
Fatal ==
  /\ pc \in {"supported", "kind", "minikube", "update"}
  /\ pc' = "fatal"
  /\ UNCHANGED <<world, runs, supported, i, patch, kind, minikube, file, before, quiet>>

\* getSupportedKubernetesVersions: the cycles before their end of life, in
\* whatever order endoflife.date lists them.
Supported ==
  {[k \in DOMAIN o |-> [cycle |-> o[k], latest |-> latest[o[k]]]] : o \in Orders(Cycles \ over)}

GetSupported ==
  /\ pc = "supported"
  /\ supported' \in Supported
  /\ IF supported' = <<>>
       THEN pc' = "fatal" /\ UNCHANGED <<i, patch>>
       ELSE pc' = "kind" /\ i' = 1 /\ patch' = supported'[1].latest
  /\ UNCHANGED <<world, runs, kind, minikube, file, before, quiet>>

\* imageTagExists: the hub counts the tags that contain the name.
ImageTagExists(c, p) == \E v \in images : v.minor = c /\ DigitsBegin(p, v.patch)

NextCycle ==
  /\ i' = i + 1
  /\ patch' = IF i < Len(supported) THEN supported[i + 1].latest ELSE 0

\* Mutant: patch 0 is decremented too.
DecrementForever == patch' = (IF patch = 0 THEN supported[i].latest ELSE patch - 1) /\ UNCHANGED i

\* decrementPatchVersion; at patch 0 the loop over the patches breaks.
Decrement == IF patch = 0 THEN NextCycle ELSE patch' = patch - 1 /\ UNCHANGED i

\* One turn of the loop of getLatestSupportedKindImages.
CheckTag ==
  /\ pc = "kind" /\ i <= Len(supported)
  /\ IF ImageTagExists(supported[i].cycle, patch)
       THEN kind' = Append(kind, Ver(supported[i].cycle, patch)) /\ NextCycle
       ELSE Decrement /\ UNCHANGED kind
  /\ UNCHANGED <<world, pc, runs, supported, minikube, file, before, quiet>>

\* Mutant: an entry gets the kind versions before the minikube versions are known.
KindFoundWrites ==
  /\ pc = "kind" /\ i > Len(supported)
  /\ pc' = IF kind = <<>> THEN "fatal" ELSE "minikube"
  /\ kind' \in SortVersions(kind)
  /\ file' = IF file = Torn \/ kind = <<>> THEN file
             ELSE [j \in DOMAIN file |-> [key \in DOMAIN file[j] |->
                     IF key = "kind" THEN kind' ELSE file[j][key]]]
  /\ UNCHANGED <<world, runs, supported, i, patch, minikube, before, quiet>>

KindFound ==
  /\ pc = "kind" /\ i > Len(supported)
  /\ pc' = IF kind = <<>> THEN "fatal" ELSE "minikube"
  /\ kind' \in SortVersions(kind)
  /\ UNCHANGED <<world, runs, supported, i, patch, minikube, file, before, quiet>>

Matches(c) == {k \in DOMAIN valid : InCycle(valid[k], c)}

\* The first match; the inner loop of getLatestSupportedMinikubeVersions breaks there.
FirstMatch(c) == valid[CHOOSE k \in Matches(c) : \A l \in Matches(c) : k <= l]

\* getLatestSupportedMinikubeVersions: the cycles with a match, in their order.
GetMinikube ==
  /\ pc = "minikube"
  /\ \E o \in Orders({k \in DOMAIN supported : Matches(supported[k].cycle) # {}}) :
       /\ \A k, l \in DOMAIN o : k < l => o[k] < o[l]
       /\ minikube' = [k \in DOMAIN o |-> FirstMatch(supported[o[k]].cycle)]
  /\ pc' = IF minikube' = <<>> THEN "fatal" ELSE "update"
  /\ UNCHANGED <<world, runs, supported, i, patch, kind, file, before, quiet>>

\* updateMatrixFile, one entry: a kind list shadows a minikube list.
Updated(entry) ==
  IF kind # <<>> /\ "kind" \in DOMAIN entry
    THEN [entry EXCEPT !["kind"] = kind]
  ELSE IF minikube # <<>> /\ "minikube" \in DOMAIN entry
    THEN [entry EXCEPT !["minikube"] = minikube]
  ELSE entry

\* A torn file cannot be unmarshalled.
UpdateMatrix ==
  /\ pc = "update" /\ file # Torn
  /\ \/ file' = [j \in DOMAIN file |-> Updated(file[j])] /\ pc' = "done"
     \/ file' = Torn /\ pc' = "fatal"
  /\ UNCHANGED <<world, runs, supported, i, patch, kind, minikube, before, quiet>>

-----------------------------------------------------------------------------

Run == GetSupported \/ CheckTag \/ KindFound \/ GetMinikube \/ UpdateMatrix \/ Fatal

Finished == pc \in {"idle", "done", "fatal"} /\ UNCHANGED vars

Next ==
  \/ Start \/ Run \/ Finished
  \/ \E c \in Cycles : PublishPatch(c) \/ PublishImage(c) \/ PublishMinikube(c) \/ EndOfLife(c)

\* The updater runs on once it is started.
Spec == Init /\ [][Next]_vars /\ WF_vars(Run)

-----------------------------------------------------------------------------
(* Properties.                                                             *)

\* The newest image of a cycle, if there is one.
NewestImage(c) == {v \in images : v.minor = c /\ \A w \in images : w.minor = c => ~Newer(w, v)}

\* The newest image of every supported cycle that has one, newest first.
KindCurrent(list) ==
  /\ list \in Seq(images) /\ NewestFirst(list)
  /\ Range(list) = UNION {NewestImage(c) : c \in Cycles \ over}

\* The newest version of every supported cycle that minikube knows of.
MinikubeCurrent(list) ==
  Range(list) = {v \in Range(valid) :
                   /\ v.minor \in Cycles \ over
                   /\ \A w \in Range(valid) : w.minor = v.minor => ~Newer(w, v)}

\* After a run during which nothing was published, every kind list holds the
\* newest image of every supported cycle that has one, all of them existing
\* tags, the newest cycle first whatever the order of endoflife.date's answer;
\* and every minikube list the newest version of each supported cycle: the
\* walk down the patches, the counting of tags by part of their name and the
\* sort of strings lose and invent nothing.
MatrixCurrent ==
  pc = "done" /\ quiet =>
    \A j \in DOMAIN Jobs :
      /\ "kind" \in Jobs[j] => KindCurrent(file[j]["kind"])
      /\ Jobs[j] = {"minikube"} => MinikubeCurrent(file[j]["minikube"])

\* Whichever request fails, the jobs keep the versions of one run: main reaches
\* updateMatrixFile with both lists or exits with the file as it found it
\* (a write that fails half-way is the exception).
OldOrNew ==
  /\ pc \in {"kind", "minikube", "update"} => file = before
  /\ pc = "fatal" => file \in {before, Torn}

\* Every run ends: the search for an image that was never published stops at
\* patch 0, whatever is published meanwhile.
RunEnds == (pc \notin {"idle", "done", "fatal"}) ~> (pc \in {"done", "fatal"})
=============================================================================
