----------------------- MODULE ChartLifecycleProofs -----------------------
(***************************************************************************)
(* What a teardown leaves behind and what an installation promises, for    *)
(* every set of kinds and releases and every number of failing requests.   *)
(***************************************************************************)
EXTENDS ChartLifecycle, TLAPS

-----------------------------------------------------------------------------
(* The invariant.                                                          *)

\* The CRDs and the CRs, and the releases the test may install.
ClusterTypes ==
  /\ setup \in Setups
  /\ crd \in [Kinds -> {"absent", BaseVersion, NewVersion}]
  /\ cr \in [Kinds -> {"none", "live", "deleting"}]
  /\ operator \in BOOLEAN /\ hidden \in BOOLEAN /\ began \in BOOLEAN
  /\ terminating \subseteq Kinds
  /\ releases \subseteq Releases /\ secrets \subseteq {OperatorRelease}

\* The API server has a CR, and ends a CRD, only of a CRD that it has.
CRsHaveCRD == \A k \in Kinds : crd[k] = "absent" => cr[k] = "none" /\ k \notin terminating

\* A result is there between two operations.
ResultWhenIdle == result # "none" => at = "idle"

\* The releases that the teardown still has to uninstall are on record, and
\* unless an error was only logged no other is.
ReleasesToDo ==
  /\ at \in {"listCRs", "deleteCRs", "waitCRs"} => listed = releases
  /\ at = "defaultSecret" => releases = {}
  /\ at \in {"uninstall", "secret"} => todo \subseteq releases /\ (~hidden => releases = todo)
  /\ at \in {"listCRDs", "deleteCRDs", "waitCRDs"} /\ ~hidden => releases = {}

\* The secrets that the teardown will still delete.
SecretsToDo ==
  /\ at \in {"idle", "updateCRDs", "upgrade", "listCRs", "deleteCRs", "waitCRs", "defaultSecret"} =>
       secrets \subseteq releases \cup leftover \cup {DefaultRelease}
  /\ at = "uninstall" => secrets \subseteq todo \cup leftover
  /\ at = "secret" => secrets \subseteq todo \cup listed \cup leftover
  /\ at \in {"listCRDs", "deleteCRDs", "waitCRDs"} => secrets \subseteq leftover

\* The CRDs that the teardown will still delete and wait for.
CRDsToDo ==
  /\ at = "deleteCRDs" /\ ~hidden => Served \subseteq todo \cup awaited
  /\ at = "waitCRDs" /\ ~hidden => Served \subseteq todo

\* The kinds whose CRs no longer wait for the operator: a CR created since is
\* live, and stays so until its CRD is deleted.
NoFinalizerLeft(K) == \A k \in K : cr[k] # "deleting" /\ (k \in terminating => cr[k] = "none")

FinalizersToDo ==
  /\ at = "deleteCRs" => Served \subseteq awaited
  /\ at = "waitCRs" => NoFinalizerLeft(Kinds \ todo)
  /\ at \in {"defaultSecret", "uninstall", "secret"} /\ ~hidden => NoFinalizerLeft(Kinds)

\* What a teardown that passed has left.
CleanWhenPassed ==
  result = "passed" =>
    /\ secrets \subseteq leftover
    /\ ~hidden => releases = {} /\ Served = {}

\* The CRDs since they were installed where none was.
CRDsSinceInstall ==
  began =>
    /\ at \in {"idle", "updateCRDs", "upgrade"}
    /\ terminating = {}
    /\ at # "updateCRDs" => \A k \in Kinds : crd[k] = NewVersion
    /\ at = "updateCRDs" /\ OperatorRelease \in todo => \A k \in Kinds : crd[k] = BaseVersion
    /\ at = "updateCRDs" /\ OperatorRelease \notin todo => \A k \in Kinds : crd[k] = NewVersion

IInv ==
  /\ ClusterTypes /\ CRsHaveCRD /\ ResultWhenIdle
  /\ ReleasesToDo /\ SecretsToDo /\ CRDsToDo /\ FinalizersToDo
  /\ CleanWhenPassed /\ CRDsSinceInstall

\* Every step preserves the invariant.
LEMMA Step ==
  ASSUME IInv, [Next]_vars
  PROVE  IInv'
<1> USE DEF Releases, OperatorRelease, BaseVersion, MaxFaults, testVars, helmVars, crVars
<1>1. ASSUME NEW r \in Releases, Install(r) PROVE IInv'
  <2>1. /\ ClusterTypes' /\ CRsHaveCRD' /\ ResultWhenIdle' /\ ReleasesToDo'
        /\ SecretsToDo' /\ CRDsToDo' /\ FinalizersToDo' /\ CleanWhenPassed'
    BY <1>1 DEF IInv, ClusterTypes, CRsHaveCRD, ResultWhenIdle, ReleasesToDo,
       SecretsToDo, CRDsToDo, FinalizersToDo, CleanWhenPassed, Install, Served, NoFinalizerLeft,
       HelmInstall, Began
  <2>2. CRDsSinceInstall'
    <3>1. CASE r = OperatorRelease
      <4>1. /\ began' = (Served = {})
            /\ crd' = [k \in Kinds |-> IF crd[k] = "absent" THEN NewVersion ELSE crd[k]]
        BY <1>1, <3>1 DEF Install, HelmInstall, Began
      <4>2. ASSUME Served = {}
            PROVE  terminating = {} /\ \A k \in Kinds : crd'[k] = NewVersion
        <5>1. \A k \in Kinds : crd[k] = "absent"
          BY <4>2 DEF Served
        <5> QED BY <4>1, <5>1 DEF IInv, CRsHaveCRD, ClusterTypes
      <4> QED BY <1>1, <3>1, <4>1, <4>2 DEF CRDsSinceInstall, Install
    <3>2. CASE r # OperatorRelease
      BY <1>1, <3>2 DEF IInv, CRDsSinceInstall, Install, HelmInstall, Began
    <3> QED BY <3>1, <3>2
  <2> QED BY <2>1, <2>2 DEF IInv
<1>2. ASSUME NEW r \in Releases, InstallBase(r) PROVE IInv'
  <2>1. /\ ClusterTypes' /\ CRsHaveCRD' /\ ResultWhenIdle' /\ ReleasesToDo'
        /\ SecretsToDo' /\ CRDsToDo' /\ FinalizersToDo' /\ CleanWhenPassed'
    BY <1>2 DEF IInv, ClusterTypes, CRsHaveCRD, ResultWhenIdle, ReleasesToDo,
       SecretsToDo, CRDsToDo, FinalizersToDo, CleanWhenPassed, InstallBase, Served, NoFinalizerLeft,
       HelmInstall, Began
  <2>2. CRDsSinceInstall'
    <3>1. CASE r = OperatorRelease
      <4>1. /\ began' = (Served = {})
            /\ crd' = [k \in Kinds |-> IF crd[k] = "absent" THEN BaseVersion ELSE crd[k]]
        BY <1>2, <3>1 DEF InstallBase, HelmInstall, Began
      <4>2. ASSUME Served = {}
            PROVE  terminating = {} /\ \A k \in Kinds : crd'[k] = BaseVersion
        <5>1. \A k \in Kinds : crd[k] = "absent"
          BY <4>2 DEF Served
        <5> QED BY <4>1, <5>1 DEF IInv, CRsHaveCRD, ClusterTypes
      <4> QED BY <1>2, <3>1, <4>1, <4>2 DEF CRDsSinceInstall, InstallBase
    <3>2. CASE r # OperatorRelease
      BY <1>2, <3>2 DEF IInv, CRDsSinceInstall, InstallBase, HelmInstall, Began
    <3> QED BY <3>1, <3>2
  <2> QED BY <2>1, <2>2 DEF IInv
<1>3. ASSUME NEW r \in Releases, NEW v \in {BaseVersion, NewVersion}, InstallFails(r, v) PROVE IInv'
  <2>1. ClusterTypes' /\ CRsHaveCRD' /\ ResultWhenIdle'
    BY <1>3 DEF IInv, ClusterTypes, CRsHaveCRD, ResultWhenIdle, InstallFails, Fault, HelmInstall, Fail
  <2>2. ReleasesToDo' /\ SecretsToDo' /\ CRDsToDo' /\ FinalizersToDo'
    BY <1>3 DEF IInv, ReleasesToDo, SecretsToDo, CRDsToDo, FinalizersToDo, InstallFails, Fault, HelmInstall, Fail
  <2>3. CleanWhenPassed'
    BY <1>3 DEF IInv, CleanWhenPassed, InstallFails, Fault, HelmInstall, Fail
  <2>4. CRDsSinceInstall'
    BY <1>3 DEF IInv, CRDsSinceInstall, InstallFails, Fault, HelmInstall, Fail
  <2> QED BY <2>1, <2>2, <2>3, <2>4 DEF IInv
<1>4. CASE UpdateOperatorCRDs
  <2>1. /\ ClusterTypes' /\ ResultWhenIdle' /\ ReleasesToDo' /\ SecretsToDo'
        /\ CRDsToDo' /\ FinalizersToDo'
    BY <1>4 DEF IInv, ClusterTypes, ResultWhenIdle, ReleasesToDo, SecretsToDo, CRDsToDo,
       FinalizersToDo, UpdateOperatorCRDs, Served, NoFinalizerLeft, CrdsInstallEnabled,
       ApplyCRDs, Fault, Fail, CRDsUpToDate
  <2>2. CRsHaveCRD'
    BY <1>4, ChartAssumption DEF IInv, CRsHaveCRD, UpdateOperatorCRDs,
       CrdsInstallEnabled, ApplyCRDs, Fault, Fail, CRDsUpToDate
  <2>3. CleanWhenPassed'
    BY <1>4 DEF IInv, CleanWhenPassed, UpdateOperatorCRDs, Served, CrdsInstallEnabled, ApplyCRDs,
       Fault, Fail, CRDsUpToDate, ResultWhenIdle
  <2>4. CRDsSinceInstall'
    <3> SUFFICES ASSUME began' PROVE CRDsSinceInstall'
      BY DEF CRDsSinceInstall
    <3>1. /\ at = "updateCRDs" /\ at' = "upgrade" /\ began
          /\ UNCHANGED <<terminating, todo>>
          /\ IF OperatorRelease \in todo THEN ApplyCRDs ELSE UNCHANGED crd
      BY <1>4 DEF UpdateOperatorCRDs, CrdsInstallEnabled
    <3>2. terminating = {}
      BY <3>1 DEF IInv, CRDsSinceInstall
    <3>3. \A k \in Kinds : crd'[k] = NewVersion
      BY <3>1 DEF IInv, CRDsSinceInstall, ApplyCRDs, CRDsUpToDate
    <3> QED BY <3>1, <3>2, <3>3 DEF CRDsSinceInstall
  <2> QED BY <2>1, <2>2, <2>3, <2>4 DEF IInv
<1>5. CASE Upgrade
  BY <1>5 DEF IInv, ClusterTypes, CRsHaveCRD, ResultWhenIdle, ReleasesToDo, SecretsToDo,
     CRDsToDo, FinalizersToDo, CleanWhenPassed, CRDsSinceInstall, Upgrade, Served, NoFinalizerLeft,
     Fault, Fail
<1>6. CASE ListReleases
  BY <1>6 DEF IInv, ClusterTypes, CRsHaveCRD, ResultWhenIdle, ReleasesToDo, SecretsToDo,
     CRDsToDo, FinalizersToDo, CleanWhenPassed, CRDsSinceInstall, ListReleases, Served, NoFinalizerLeft,
     Fault, Fail
<1>7. CASE ListCRs
  <2>1. /\ ClusterTypes' /\ CRsHaveCRD' /\ ResultWhenIdle' /\ ReleasesToDo'
        /\ CRDsToDo' /\ CleanWhenPassed' /\ CRDsSinceInstall'
    BY <1>7 DEF IInv, ClusterTypes, CRsHaveCRD, ResultWhenIdle, ReleasesToDo, CRDsToDo,
       CleanWhenPassed, CRDsSinceInstall, ListCRs, Served, AfterCRs, Fault
  <2>2. SecretsToDo'
    BY <1>7, ChartAssumption DEF IInv, SecretsToDo, ListCRs, Served, AfterCRs, Fault,
       ClusterTypes, ReleasesToDo
  <2>3. FinalizersToDo'
    BY <1>7 DEF IInv, FinalizersToDo, ListCRs, Served, NoFinalizerLeft, AfterCRs, Fault,
       CRsHaveCRD
  <2> QED BY <2>1, <2>2, <2>3 DEF IInv
<1>8. CASE DeleteDefaultSecret
  <2>1. /\ ClusterTypes' /\ CRsHaveCRD' /\ ResultWhenIdle' /\ ReleasesToDo'
        /\ CRDsToDo' /\ FinalizersToDo' /\ CleanWhenPassed' /\ CRDsSinceInstall'
    BY <1>8 DEF IInv, ClusterTypes, CRsHaveCRD, ResultWhenIdle, ReleasesToDo, CRDsToDo,
       FinalizersToDo, CleanWhenPassed, CRDsSinceInstall, DeleteDefaultSecret, Served, NoFinalizerLeft,
       Fault, Fail
  <2>2. SecretsToDo'
    BY <1>8 DEF IInv, SecretsToDo, DeleteDefaultSecret, Fault, Fail, ReleasesToDo
  <2> QED BY <2>1, <2>2 DEF IInv
<1>9. CASE DeleteSecret
  <2>1. /\ ClusterTypes' /\ CRsHaveCRD' /\ ResultWhenIdle' /\ ReleasesToDo'
        /\ CRDsToDo' /\ FinalizersToDo' /\ CleanWhenPassed' /\ CRDsSinceInstall'
    BY <1>9 DEF IInv, ClusterTypes, CRsHaveCRD, ResultWhenIdle, ReleasesToDo, CRDsToDo,
       FinalizersToDo, CleanWhenPassed, CRDsSinceInstall, DeleteSecret, Served, NoFinalizerLeft,
       AfterSecret, Fault, Fail
  <2>2. SecretsToDo'
    BY <1>9 DEF IInv, SecretsToDo, DeleteSecret, AfterSecret, Fault, Fail, ReleasesToDo
  <2> QED BY <2>1, <2>2 DEF IInv
<1>10. CASE ListCRDs
  <2>1. /\ ClusterTypes' /\ CRsHaveCRD' /\ ResultWhenIdle' /\ ReleasesToDo'
        /\ SecretsToDo' /\ CRDsToDo' /\ FinalizersToDo' /\ CRDsSinceInstall'
    BY <1>10 DEF IInv, ClusterTypes, CRsHaveCRD, ResultWhenIdle, ReleasesToDo,
       SecretsToDo, CRDsToDo, FinalizersToDo, CRDsSinceInstall, ListCRDs, Served,
       NoFinalizerLeft, Pass, Fault
  <2>2. CleanWhenPassed'
    BY <1>10 DEF IInv, CleanWhenPassed, ListCRDs, Served, Pass, Fault, ReleasesToDo, SecretsToDo
  <2> QED BY <2>1, <2>2 DEF IInv
<1>11. CASE AllCRDsGone
  <2>1. /\ ClusterTypes' /\ CRsHaveCRD' /\ ResultWhenIdle' /\ ReleasesToDo'
        /\ SecretsToDo' /\ CRDsToDo' /\ FinalizersToDo' /\ CRDsSinceInstall'
    BY <1>11 DEF IInv, ClusterTypes, CRsHaveCRD, ResultWhenIdle, ReleasesToDo,
       SecretsToDo, CRDsToDo, FinalizersToDo, CRDsSinceInstall, AllCRDsGone, Served,
       NoFinalizerLeft, Pass
  <2>2. CleanWhenPassed'
    BY <1>11 DEF IInv, CleanWhenPassed, AllCRDsGone, Served, Pass, ReleasesToDo, SecretsToDo,
       CRDsToDo
  <2> QED BY <2>1, <2>2 DEF IInv
<1>12. ASSUME NEW r \in Releases, Uninstall(r) PROVE IInv'
  <2>1. ClusterTypes' /\ CRsHaveCRD' /\ ResultWhenIdle'
    BY <1>12 DEF IInv, ClusterTypes, CRsHaveCRD, ResultWhenIdle, Uninstall, Fault
  <2>2. ReleasesToDo'
    BY <1>12 DEF IInv, ReleasesToDo, Uninstall, Fault
  <2>3. SecretsToDo'
    BY <1>12 DEF IInv, SecretsToDo, ReleasesToDo, Uninstall, Fault
  <2>4. CRDsToDo' /\ FinalizersToDo'
    BY <1>12 DEF IInv, CRDsToDo, FinalizersToDo, NoFinalizerLeft, Uninstall, Fault
  <2>5. CleanWhenPassed' /\ CRDsSinceInstall'
    BY <1>12 DEF IInv, CleanWhenPassed, CRDsSinceInstall, ResultWhenIdle, Uninstall, Fault
  <2> QED BY <2>1, <2>2, <2>3, <2>4, <2>5 DEF IInv
<1>13. ASSUME NEW k \in Kinds, DeleteCRs(k) PROVE IInv'
  <2>1. /\ ClusterTypes' /\ ResultWhenIdle' /\ ReleasesToDo' /\ SecretsToDo'
        /\ CRDsToDo' /\ CleanWhenPassed' /\ CRDsSinceInstall'
    BY <1>13 DEF IInv, ClusterTypes, ResultWhenIdle, ReleasesToDo, SecretsToDo,
       CRDsToDo, CleanWhenPassed, CRDsSinceInstall, DeleteCRs, Served, Removed, Fault
  <2>2. CRsHaveCRD'
    BY <1>13 DEF IInv, CRsHaveCRD, DeleteCRs, Removed, Fault, ClusterTypes
  <2>3. FinalizersToDo'
    BY <1>13 DEF IInv, FinalizersToDo, DeleteCRs, Served, NoFinalizerLeft, Removed, Fault,
       ClusterTypes, CRsHaveCRD
  <2> QED BY <2>1, <2>2, <2>3 DEF IInv
<1>14. ASSUME NEW k \in Kinds, WaitCRs(k) PROVE IInv'
  <2>1. /\ ClusterTypes' /\ CRsHaveCRD' /\ ResultWhenIdle' /\ ReleasesToDo'
        /\ CRDsToDo' /\ FinalizersToDo' /\ CleanWhenPassed' /\ CRDsSinceInstall'
    BY <1>14 DEF IInv, ClusterTypes, CRsHaveCRD, ResultWhenIdle, ReleasesToDo, CRDsToDo,
       FinalizersToDo, CleanWhenPassed, CRDsSinceInstall, WaitCRs, Served, NoFinalizerLeft, CRsGone,
       AfterCRs
  <2>2. SecretsToDo'
    BY <1>14, ChartAssumption DEF IInv, SecretsToDo, WaitCRs, CRsGone, AfterCRs,
       ClusterTypes, ReleasesToDo
  <2> QED BY <2>1, <2>2 DEF IInv
<1>15. ASSUME NEW k \in Kinds, WaitCRsTimesOut(k) PROVE IInv'
  BY <1>15 DEF IInv, ClusterTypes, CRsHaveCRD, ResultWhenIdle, ReleasesToDo,
     SecretsToDo, CRDsToDo, FinalizersToDo, CleanWhenPassed, CRDsSinceInstall, WaitCRsTimesOut,
     Served, NoFinalizerLeft, CRsGone, Fail
<1>16. ASSUME NEW k \in Kinds, DeleteCRD(k) PROVE IInv'
  <2>1. ClusterTypes'
    BY <1>16 DEF IInv, ClusterTypes, DeleteCRD, Fault, Served
  <2>2. CRsHaveCRD' /\ ResultWhenIdle'
    BY <1>16 DEF IInv, CRsHaveCRD, ResultWhenIdle, DeleteCRD, Fault, Served
  <2>3. ReleasesToDo' /\ SecretsToDo'
    BY <1>16 DEF IInv, ReleasesToDo, SecretsToDo, DeleteCRD, Fault, Served
  <2>4. CRDsToDo'
    BY <1>16 DEF IInv, CRDsToDo, DeleteCRD, Fault, Served
  <2>5. FinalizersToDo'
    BY <1>16 DEF IInv, FinalizersToDo, DeleteCRD, Fault, Served
  <2>6. CleanWhenPassed' /\ CRDsSinceInstall'
    BY <1>16 DEF IInv, CleanWhenPassed, CRDsSinceInstall, ResultWhenIdle, DeleteCRD, Fault, Served
  <2> QED BY <2>1, <2>2, <2>3, <2>4, <2>5, <2>6 DEF IInv
<1>17. ASSUME NEW k \in Kinds, WaitCRD(k) PROVE IInv'
  BY <1>17 DEF IInv, ClusterTypes, CRsHaveCRD, ResultWhenIdle, ReleasesToDo,
     SecretsToDo, CRDsToDo, FinalizersToDo, CleanWhenPassed, CRDsSinceInstall, WaitCRD, Served,
     NoFinalizerLeft, CRDGone
<1>18. ASSUME NEW k \in Kinds, WaitCRDTimesOut(k) PROVE IInv'
  BY <1>18 DEF IInv, ClusterTypes, CRsHaveCRD, ResultWhenIdle, ReleasesToDo,
     SecretsToDo, CRDsToDo, FinalizersToDo, CleanWhenPassed, CRDsSinceInstall, WaitCRDTimesOut,
     Served, NoFinalizerLeft, CRDGone, Fail
<1>19. ASSUME NEW k \in Kinds, OperatorFinalizes(k) PROVE IInv'
  BY <1>19 DEF IInv, ClusterTypes, CRsHaveCRD, ResultWhenIdle, ReleasesToDo,
     SecretsToDo, CRDsToDo, FinalizersToDo, CleanWhenPassed, CRDsSinceInstall, OperatorFinalizes,
     Served, NoFinalizerLeft
<1>20. ASSUME NEW k \in Kinds, CRDCleanup(k) PROVE IInv'
  <2>1. /\ ClusterTypes' /\ ResultWhenIdle' /\ ReleasesToDo' /\ SecretsToDo'
        /\ CRDsSinceInstall'
    BY <1>20 DEF IInv, ClusterTypes, ResultWhenIdle, ReleasesToDo, SecretsToDo,
       CRDsSinceInstall, CRDCleanup, Removed
  <2>2. CRsHaveCRD'
    BY <1>20 DEF IInv, CRsHaveCRD, CRDCleanup, Removed, ClusterTypes
  <2>3. CRDsToDo'
    BY <1>20 DEF IInv, CRDsToDo, CRDCleanup, Served, Removed, ClusterTypes
  <2>4. FinalizersToDo'
    BY <1>20 DEF IInv, FinalizersToDo, CRDCleanup, Served, NoFinalizerLeft, Removed,
       ClusterTypes
  <2>5. CleanWhenPassed'
    BY <1>20 DEF IInv, CleanWhenPassed, CRDCleanup, Served, Removed, CRsHaveCRD
  <2> QED BY <2>1, <2>2, <2>3, <2>4, <2>5 DEF IInv
<1>21. ASSUME NEW k \in Kinds, CreateCR(k) PROVE IInv'
  BY <1>21 DEF IInv, ClusterTypes, CRsHaveCRD, ResultWhenIdle, ReleasesToDo,
     SecretsToDo, CRDsToDo, FinalizersToDo, CleanWhenPassed, CRDsSinceInstall, CreateCR, Served,
     NoFinalizerLeft
<1>22. CASE UNCHANGED vars
  BY <1>22 DEF vars, IInv, ClusterTypes, CRsHaveCRD, ResultWhenIdle, ReleasesToDo,
     SecretsToDo, CRDsToDo, FinalizersToDo, CleanWhenPassed, CRDsSinceInstall, Served, NoFinalizerLeft
<1> QED
  BY <1>1, <1>2, <1>3, <1>4, <1>5, <1>6, <1>7, <1>8, <1>9, <1>10, <1>11,
     <1>12, <1>13, <1>14, <1>15, <1>16, <1>17, <1>18, <1>19, <1>20, <1>21, <1>22
     DEF Next, InstallStep, UninstallStep, ClusterStep

\* The invariant holds in every state.
THEOREM Invariant == Spec => []IInv
<1>1. Init => IInv
  <2> SUFFICES ASSUME Init PROVE IInv
    OBVIOUS
  <2> USE DEF Init, Releases, OperatorRelease, BaseVersion
  <2>1. ClusterTypes /\ CRsHaveCRD /\ ResultWhenIdle
    BY DEF ClusterTypes, CRsHaveCRD, ResultWhenIdle
  <2>2. ReleasesToDo /\ SecretsToDo /\ CRDsToDo /\ FinalizersToDo
    BY DEF ReleasesToDo, SecretsToDo, CRDsToDo, FinalizersToDo
  <2>3. CleanWhenPassed /\ CRDsSinceInstall
    BY DEF CleanWhenPassed, CRDsSinceInstall
  <2> QED BY <2>1, <2>2, <2>3 DEF IInv
<1>2. IInv /\ [Next]_vars => IInv'
  BY Step
<1> QED BY <1>1, <1>2, PTL DEF Spec

-----------------------------------------------------------------------------
(* What the tests rely on.                                                 *)

\* A teardown that passes without an error it kept to itself leaves nothing of
\* the chart behind but secrets it had no name for.
THEOREM TeardownLeavesNothing == Spec => []PassedMeansClean
<1>1. IInv => PassedMeansClean
  BY DEF IInv, CleanWhenPassed, CRsHaveCRD, PassedMeansClean, Served
<1> QED BY <1>1, Invariant, PTL

\* An installation or an upgrade leaves the CRDs of the chart under test.
THEOREM InstallBringsCRDs == Spec => []CRDsMatchChart
<1>1. IInv => CRDsMatchChart
  BY DEF IInv, CRDsSinceInstall, CRDsMatchChart
<1> QED BY <1>1, Invariant, PTL

\* ChartUninstall does not take the operator away from under a finalizer.
THEOREM OperatorStaysForFinalizers == Spec => OperatorOutlivesFinalizers
<1> DEFINE Outlives == operator /\ ~operator' /\ ~hidden' => \A k \in Kinds : cr[k] # "deleting"
<1>1. IInv /\ [Next]_vars => [Outlives]_vars
  <2> SUFFICES ASSUME IInv, Next, operator, ~operator', ~hidden'
               PROVE  \A k \in Kinds : cr[k] # "deleting"
    OBVIOUS
  <2>1. PICK r \in Releases : Uninstall(r)
    BY DEF Next, InstallStep, UninstallStep, ClusterStep, Install, InstallBase, InstallFails,
       HelmInstall, UpdateOperatorCRDs, Upgrade, ListReleases, ListCRs, DeleteDefaultSecret,
       DeleteSecret, ListCRDs, AllCRDsGone, DeleteCRs, WaitCRs, WaitCRsTimesOut, DeleteCRD,
       WaitCRD, WaitCRDTimesOut, OperatorFinalizes, CRDCleanup, CreateCR, helmVars
  <2>2. at = "uninstall" /\ (hidden' = TRUE \/ hidden' = hidden)
    BY <2>1 DEF Uninstall
  <2> QED BY <2>2 DEF IInv, ClusterTypes, FinalizersToDo, NoFinalizerLeft
<1> QED BY <1>1, Invariant, PTL DEF Spec, OperatorOutlivesFinalizers
=============================================================================
