--------------------------- MODULE ChartLifecycle ---------------------------
(***************************************************************************)
(* How the functional tests put the chart on a cluster and take it off     *)
(* again (functional_tests/internal/chart.go): ChartInstallOrUpgrade and   *)
(* ChartUninstall, one action per request to Helm or to the API server.    *)
(*                                                                         *)
(* Beside the test act the operator of the chart, which removes the        *)
(* finalizers of the custom resources (CRs) it looks after and admits new  *)
(* ones through its webhook; the API server, which keeps a CRD being       *)
(* awaited until its last CR is gone; and whoever creates CRs (the         *)
(* Instrumentation hook job, a test's workload).                           *)
(***************************************************************************)
EXTENDS Integers, FiniteSets

CONSTANTS
  Kinds,          \* the opentelemetry.io CRDs
  Finalized,      \* those whose CRs carry a finalizer of the operator
  Setups,         \* what tests install: [releases, operator, base, faults]
  DefaultRelease, \* DefaultChartReleaseName
  NewVersion,     \* the CRD version of the chart under test
  MaxCreations    \* bound on CRs created

ASSUME ChartAssumption ==
  /\ Finalized \subseteq Kinds
  /\ NewVersion # "absent"
  /\ \A s \in Setups :
       /\ s.operator \in s.releases /\ s.faults \in Nat
       \* a test with several releases gives them names of their own
       /\ s.operator = DefaultRelease => s.releases = {DefaultRelease}
  /\ MaxCreations \in Nat

VARIABLES
  at,           \* what the test does next
  result,       \* how its last operation ended
  todo,         \* what is left of the loop it is in
  listed,       \* the releases ChartUninstall has found; then the one it is at
  awaited,      \* the kinds, or the CRDs, that it will wait for next
  releases,     \* the releases Helm has on record
  operator,     \* the operator is running
  secrets,      \* the releases whose webhook certificate secret exists
  crd,          \* the version of each CRD
  terminating,  \* the CRDs being awaited
  cr,           \* the CR of each kind
  began,        \* the operator's release was installed where no CRD was, neither it nor the
                \* update of its CRDs failed, and no teardown since
  hidden,       \* an error of this teardown was only logged
  leftover,     \* releases that are gone from the record, but for their secret
  faults,
  creations,
  setup         \* what this test installs

testVars == <<at, result, todo, listed, awaited>>
helmVars == <<releases, operator, secrets>>
crVars == <<crd, terminating, cr>>
vars == <<at, result, todo, listed, awaited, releases, operator, secrets,
          crd, terminating, cr, began, hidden, leftover, faults, creations, setup>>

\* The releases of the test (AKS installs two); the one with the operator and
\* its CRDs; the CRD version of the chart that is upgraded from; the bound on
\* requests that fail.
Releases        == setup.releases
OperatorRelease == setup.operator
BaseVersion     == setup.base
MaxFaults       == setup.faults

\* otelServedGVRs: a CRD that is being awaited is still listed.
Served == {k \in Kinds : crd[k] # "absent"}

TearingDown == at \notin {"idle", "updateCRDs", "upgrade"}

\* A CR that is asked to go away waits for its finalizer, if it has one.
Removed(k) == IF k \in Finalized THEN "deleting" ELSE "none"

-----------------------------------------------------------------------------

Init ==
  /\ at = "idle" /\ result = "none"
  /\ todo = {} /\ listed = {} /\ awaited = {}
  /\ releases = {} /\ operator = FALSE /\ secrets = {}
  /\ crd = [k \in Kinds |-> "absent"]
  /\ terminating = {}
  /\ cr = [k \in Kinds |-> "none"]
  /\ began = FALSE /\ hidden = FALSE
  /\ leftover = {} /\ faults = 0 /\ creations = 0
  /\ setup \in Setups

\* A request fails; whether the caller notices is the caller's business.
Fault == faults < MaxFaults /\ faults' = faults + 1

\* require fails: the test, or this Cleanup function, ends here.
Fail ==
  /\ at' = "idle" /\ result' = "failed"
  /\ todo' = {} /\ listed' = {} /\ awaited' = {}

-----------------------------------------------------------------------------
(* ChartInstallOrUpgrade.                                                  *)

\* helm install: CRDs that are absent come from the chart, others stay.
HelmInstall(r, version) ==
  /\ releases' = releases \cup {r}
  /\ IF r = OperatorRelease
       THEN /\ operator' = TRUE
            /\ secrets' = secrets \cup {r}
            /\ crd' = [k \in Kinds |-> IF crd[k] = "absent" THEN version ELSE crd[k]]
       ELSE UNCHANGED <<operator, secrets, crd>>

\* History: an install that did not fail.
Began(r) == began' = IF r = OperatorRelease THEN Served = {} ELSE began

\* Without UPGRADE_FROM_VALUES: install the chart under test.
Install(r) ==
  /\ at = "idle"
  /\ r \notin releases
  /\ HelmInstall(r, NewVersion) /\ Began(r)
  /\ result' = "installed"
  /\ UNCHANGED <<at, todo, listed, awaited, terminating, cr, hidden, leftover,
                 faults, creations, setup>>

\* With it: install the base release first.
InstallBase(r) ==
  /\ at = "idle"
  /\ r \notin releases
  /\ HelmInstall(r, BaseVersion) /\ Began(r)
  /\ at' = "updateCRDs"
  /\ result' = "none"
  /\ todo' = {r}
  /\ UNCHANGED <<listed, awaited, terminating, cr, hidden, leftover, faults,
                 creations, setup>>

\* Helm refuses a name in use, or gives up waiting for the release, or its
\* pods do not become ready (CheckPodsReady): the release then stays on
\* record.  The caller has registered no Cleanup for it yet.
InstallFails(r, version) ==
  /\ at = "idle"
  /\ \/ /\ r \in releases
        /\ UNCHANGED <<helmVars, crd, began, faults>>
     \/ /\ r \notin releases
        /\ Fault
        /\ HelmInstall(r, version)
        /\ began' = (began /\ r # OperatorRelease)
  /\ Fail
  /\ UNCHANGED <<terminating, cr, hidden, creations, leftover, setup>>

\* Mutant: the CRDs are left to helm upgrade.
ApplyCRDsByUpgrade == UNCHANGED crd

\* getDependencyVersion of opentelemetry-operator-crds in the two charts.
CRDsUpToDate == BaseVersion = NewVersion

\* kubectl apply of the new chart's CRDs.
ApplyCRDs == crd' = IF CRDsUpToDate THEN crd ELSE [k \in Kinds |-> NewVersion]

\* operatorcrds.install is set for the operator's release only.
CrdsInstallEnabled(r) == r = OperatorRelease

UpdateOperatorCRDs ==
  /\ at = "updateCRDs"
  /\ \/ /\ IF \E r \in todo : CrdsInstallEnabled(r) THEN ApplyCRDs ELSE UNCHANGED crd
        /\ at' = "upgrade"
        /\ UNCHANGED <<result, todo, listed, awaited, began, faults>>
     \/ /\ Fault /\ Fail
        /\ began' = FALSE
        /\ UNCHANGED crd
  /\ UNCHANGED <<helmVars, terminating, cr, hidden, creations, leftover, setup>>

\* helm upgrade touches no CRD.
Upgrade ==
  /\ at = "upgrade"
  /\ \/ /\ at' = "idle" /\ result' = "installed" /\ todo' = {}
        /\ UNCHANGED <<listed, awaited, faults>>
     \/ Fault /\ Fail
  /\ UNCHANGED <<helmVars, crVars, began, hidden, creations, leftover, setup>>

-----------------------------------------------------------------------------
(* ChartUninstall.                                                         *)

\* List the releases with the chart's label, in all namespaces and states.
ListReleases ==
  /\ at = "idle"
  /\ \/ /\ at' = "listCRs" /\ result' = "none" /\ listed' = releases
        /\ UNCHANGED <<todo, awaited, faults>>
     \/ Fault /\ Fail
  /\ hidden' = FALSE /\ began' = FALSE
  /\ UNCHANGED <<helmVars, crVars, creations, leftover, setup>>

\* Where deleteOperatorCRs leads on: to the releases, or past them.
AfterCRs == IF listed = {} THEN "defaultSecret" ELSE "uninstall"

\* deleteOperatorCRs: list the CRDs; an error is only logged.
ListCRs ==
  /\ at = "listCRs"
  /\ \/ /\ at' = IF Served = {} THEN AfterCRs ELSE "deleteCRs"
        /\ todo' = IF Served = {} THEN listed ELSE Served
        /\ UNCHANGED <<hidden, faults>>
     \/ /\ Fault
        /\ hidden' = TRUE
        /\ at' = AfterCRs
        /\ todo' = listed
  /\ awaited' = Served
  /\ UNCHANGED <<result, listed, helmVars, crVars, began, creations, leftover,
                 setup>>

\* List and delete the CRs of one kind; an error is only logged here, but
\* the wait that follows notices it.
DeleteCRs(k) ==
  /\ at = "deleteCRs"
  /\ k \in todo
  /\ \/ /\ cr' = [cr EXCEPT ![k] = IF @ = "live" THEN Removed(k) ELSE @]
        /\ UNCHANGED faults
     \/ Fault /\ UNCHANGED cr
  /\ IF todo = {k}
       THEN at' = "waitCRs" /\ todo' = awaited
       ELSE todo' = todo \ {k} /\ UNCHANGED at
  /\ UNCHANGED <<result, listed, awaited, helmVars, crd, terminating,
                 began, hidden, creations, leftover, setup>>

\* Mutant: the CRs are not waited for.
CRsGoneUnseen(k) == TRUE

\* One poll of require.Eventually sees the list of this kind empty.
CRsGone(k) == cr[k] = "none"

WaitCRs(k) ==
  /\ at = "waitCRs"
  /\ k \in todo
  /\ CRsGone(k)
  /\ IF todo = {k}
       THEN at' = AfterCRs /\ todo' = listed
       ELSE todo' = todo \ {k} /\ UNCHANGED at
  /\ UNCHANGED <<result, listed, awaited, helmVars, crVars, began, hidden,
                 leftover, faults, creations, setup>>

\* Mutant: it polls for ever.
WaitCRsForEver(k) == at = "waitCRs" /\ k \in todo /\ ~CRsGone(k) /\ UNCHANGED vars

\* require.Eventually gives up on CRs that are still there.
WaitCRsTimesOut(k) ==
  /\ at = "waitCRs"
  /\ k \in todo
  /\ ~CRsGone(k)
  /\ Fail
  /\ UNCHANGED <<helmVars, crVars, began, hidden, leftover, faults, creations,
                 setup>>

\* No release: delete the secret that the default release would have left.
DeleteDefaultSecret ==
  /\ at = "defaultSecret"
  /\ \/ /\ secrets' = secrets \ {DefaultRelease}
        /\ at' = "listCRDs"
        /\ UNCHANGED <<result, todo, listed, awaited, faults>>
     \/ /\ Fault /\ Fail
        /\ UNCHANGED secrets
  /\ UNCHANGED <<releases, operator, crVars, began, hidden, creations,
                 leftover, setup>>

\* helm uninstall; its error is only logged and the release stays on record,
\* with or without its pods.
Uninstall(r) ==
  /\ at = "uninstall"
  /\ r \in todo
  /\ \/ /\ releases' = releases \ {r}
        /\ operator' = (operator /\ r # OperatorRelease)
        /\ UNCHANGED <<hidden, faults>>
     \/ /\ Fault
        /\ hidden' = TRUE
        /\ operator' \in {operator, operator /\ r # OperatorRelease}
        /\ UNCHANGED releases
  /\ at' = "secret"
  /\ todo' = todo \ {r}
  /\ listed' = {r}
  /\ UNCHANGED <<result, awaited, secrets, crVars, began, creations, leftover,
                 setup>>

\* Mutant: the loop ends after the first release.
AfterSecretFirstOnly == "listCRDs"

\* The loop goes on to the next release.
AfterSecret == IF todo = {} THEN "listCRDs" ELSE "uninstall"

\* deleteCertSecret for the release just uninstalled.
DeleteSecret ==
  /\ at = "secret"
  /\ \/ /\ secrets' = secrets \ listed
        /\ leftover' = leftover \ listed
        /\ at' = AfterSecret
        /\ UNCHANGED <<result, todo, listed, awaited, faults>>
     \/ /\ Fault /\ Fail
        /\ leftover' = leftover \cup (listed \ {DefaultRelease})
        /\ UNCHANGED secrets
  /\ UNCHANGED <<releases, operator, crVars, began, hidden, creations, setup>>

\* The teardown comes to its end.
Pass ==
  /\ at' = "idle" /\ result' = "passed"
  /\ todo' = {} /\ listed' = {} /\ awaited' = {}

\* deleteOperatorCRDs: list the CRDs; an error is only logged.
ListCRDs ==
  /\ at = "listCRDs"
  /\ \/ /\ Served # {}
        /\ at' = "deleteCRDs" /\ todo' = Served /\ awaited' = {}
        /\ UNCHANGED <<result, listed, hidden, faults>>
     \/ /\ Served = {}
        /\ Pass
        /\ UNCHANGED <<hidden, faults>>
     \/ /\ Fault
        /\ hidden' = TRUE
        /\ Pass
  /\ UNCHANGED <<helmVars, crVars, began, creations, leftover, setup>>

\* Delete one CRD: it may be gone already (not waited for), the request may
\* fail (only logged, not waited for).
DeleteCRD(k) ==
  /\ at = "deleteCRDs"
  /\ k \in todo
  /\ \/ /\ crd[k] # "absent"
        /\ terminating' = terminating \cup {k}
        /\ awaited' = awaited \cup {k}
        /\ UNCHANGED <<hidden, faults>>
     \/ /\ crd[k] = "absent"
        /\ UNCHANGED <<terminating, awaited, hidden, faults>>
     \/ /\ Fault
        /\ hidden' = TRUE
        /\ UNCHANGED <<terminating, awaited>>
  /\ IF todo = {k}
       THEN at' = "waitCRDs" /\ todo' = awaited'
       ELSE todo' = todo \ {k} /\ UNCHANGED at
  /\ UNCHANGED <<result, listed, helmVars, crd, cr, began, creations, leftover,
                 setup>>

\* Mutant: the CRDs are not waited for.
CRDGoneUnseen(k) == TRUE

\* One poll of require.Eventually does not find the CRD.
CRDGone(k) == crd[k] = "absent"

WaitCRD(k) ==
  /\ at = "waitCRDs"
  /\ k \in todo
  /\ CRDGone(k)
  /\ todo' = todo \ {k}
  /\ UNCHANGED <<at, result, listed, awaited, helmVars, crVars, began, hidden,
                 leftover, faults, creations, setup>>

WaitCRDTimesOut(k) ==
  /\ at = "waitCRDs"
  /\ k \in todo
  /\ ~CRDGone(k)
  /\ Fail
  /\ UNCHANGED <<helmVars, crVars, began, hidden, leftover, faults, creations,
                 setup>>

AllCRDsGone ==
  /\ at = "waitCRDs"
  /\ todo = {}
  /\ Pass
  /\ UNCHANGED <<helmVars, crVars, began, hidden, leftover, faults, creations,
                 setup>>

-----------------------------------------------------------------------------
(* The operator, the API server and those who create CRs (external).       *)

OperatorFinalizes(k) ==
  /\ operator
  /\ cr[k] = "deleting"
  /\ cr' = [cr EXCEPT ![k] = "none"]
  /\ UNCHANGED <<testVars, helmVars, crd, terminating, began, hidden, leftover,
                 faults, creations, setup>>

\* A CRD being awaited takes its CRs with it, and goes when they are gone.
CRDCleanup(k) ==
  /\ k \in terminating
  /\ \/ /\ cr[k] = "live"
        /\ cr' = [cr EXCEPT ![k] = Removed(k)]
        /\ UNCHANGED <<crd, terminating>>
     \/ /\ cr[k] = "none"
        /\ crd' = [crd EXCEPT ![k] = "absent"]
        /\ terminating' = terminating \ {k}
        /\ UNCHANGED cr
  /\ UNCHANGED <<testVars, helmVars, began, hidden, leftover, faults,
                 creations, setup>>

\* The operator's webhook must be there to admit a CR.
CreateCR(k) ==
  /\ creations < MaxCreations
  /\ operator
  /\ crd[k] # "absent" /\ k \notin terminating
  /\ cr[k] = "none"
  /\ cr' = [cr EXCEPT ![k] = "live"]
  /\ creations' = creations + 1
  /\ UNCHANGED <<testVars, helmVars, crd, terminating, began, hidden, faults,
                 leftover, setup>>

-----------------------------------------------------------------------------

InstallStep ==
  \/ \E r \in Releases : Install(r) \/ InstallBase(r)
  \/ \E r \in Releases, v \in {BaseVersion, NewVersion} : InstallFails(r, v)
  \/ UpdateOperatorCRDs \/ Upgrade

UninstallStep ==
  \/ ListCRs \/ DeleteDefaultSecret \/ DeleteSecret \/ ListCRDs \/ AllCRDsGone
  \/ \E r \in Releases : Uninstall(r)
  \/ \E k \in Kinds : \/ DeleteCRs(k) \/ WaitCRs(k) \/ WaitCRsTimesOut(k)
                      \/ DeleteCRD(k) \/ WaitCRD(k) \/ WaitCRDTimesOut(k)

ClusterStep ==
  \E k \in Kinds : OperatorFinalizes(k) \/ CRDCleanup(k) \/ CreateCR(k)

Next == InstallStep \/ ListReleases \/ UninstallStep \/ ClusterStep

Spec == Init /\ [][Next]_vars

\* The test's goroutine goes on with a teardown it has begun.
FairSpec == Spec /\ WF_vars(UninstallStep)

-----------------------------------------------------------------------------
(* Properties.                                                             *)

\* A teardown that passes without an error it kept to itself leaves nothing
\* of the chart behind, whatever requests failed and whatever an earlier
\* teardown left: failed requests for CRs and secrets never go unnoticed.
\* Only a secret whose deletion failed in an earlier teardown may stay, and
\* only that of a release with a name of its own: once such a release is off
\* the record, ChartUninstall knows the default name only.
PassedMeansClean ==
  result = "passed" /\ ~hidden =>
    /\ releases = {} /\ secrets \subseteq leftover /\ Served = {}
    /\ \A k \in Kinds : cr[k] = "none"

\* ChartUninstall takes the operator away only when no CR waits for it to
\* remove a finalizer (unless the list of CRDs could not be had).
OperatorOutlivesFinalizers ==
  [][operator /\ ~operator' /\ ~hidden' => \A k \in Kinds : cr[k] # "deleting"]_vars

\* After an install or an upgrade on a cluster without CRDs, the CRDs have
\* the version of the chart under test, though helm upgrade updates none
\* (and as long as no teardown begins: what else fails does not change them).
CRDsMatchChart ==
  at = "idle" /\ result = "installed" /\ began /\ OperatorRelease \in releases =>
    \A k \in Kinds : crd[k] = NewVersion

\* A teardown comes to its end, even if a CR blocks its CRD for ever.
TeardownEnds == TearingDown ~> ~TearingDown
=============================================================================
