----------------------------- MODULE TestLease -----------------------------
(***************************************************************************)
(* The cluster-wide lock of the functional tests                           *)
(* (functional_tests/internal/concurrency.go).                             *)
(*                                                                         *)
(* Every test process runs a client-go leader elector on one Lease object  *)
(* of the API server.  The test waits until its elector has acquired the   *)
(* lease, uses the cluster, and in its last Cleanup function stops the     *)
(* elector.  The elector (client-go, external code) is modelled as         *)
(* concurrency.go configures it: LeaseDuration, RenewDeadline and          *)
(* RetryPeriod are set, ReleaseOnCancel is not.                            *)
(*                                                                         *)
(* Time is discrete.  Instead of a clock the model keeps ages, which stop  *)
(* counting where no guard can tell them apart any more, so the state is   *)
(* finite and the tests may go on for ever.                                *)
(***************************************************************************)
EXTENDS Integers, FiniteSets

CONSTANTS
  Tests,            \* the test processes that share the cluster
  NoTest,           \* "nobody": the holder of a lease that does not exist
  LeaseDuration,    \* concurrency.go: 60 s
  RenewDeadline,    \* concurrency.go: 40 s
  RetryPeriod,      \* concurrency.go:  5 s
  RequestTimeout,   \* kubeConfig.Timeout: 20 s
  MaxFaults,        \* bound on the API requests that fail
  MaxCrashes        \* bound on the test processes that are killed

\* NewLeaderElector refuses a configuration that breaks the ordering.
ASSUME LeaseAssumption ==
  /\ NoTest \notin Tests
  /\ LeaseDuration \in Nat
  /\ RenewDeadline \in Nat
  /\ RetryPeriod \in Nat \ {0}
  /\ RequestTimeout \in Nat \ {0}
  /\ RetryPeriod < RenewDeadline
  /\ RenewDeadline < LeaseDuration
  /\ MaxFaults \in Nat
  /\ MaxCrashes \in Nat

VARIABLES
  test,       \* where each test is in its life
  became,     \* becameLeader: the elector has called OnStartedLeading
  cancelled,  \* the context given to elector.Run is cancelled
  lost,       \* lostLeaderCh: OnStoppedLeading has run
  elector,    \* where each test's elector is
  request,    \* the write the elector has under way
  pollAge,    \* time since that request began, or since the last attempt ended
  renewAge,   \* time since the elector last saw a write succeed
  holder,     \* the lease object: its holder (NoTest: there is no object)
  observed,   \* the holder the elector last observed
  fresh,      \* ... and whether the object is still the one observed
  observedAge,\* ... and for how long the elector has known it
  faults,     \* requests that have failed so far
  crashes     \* processes killed so far

testVars == <<test, became, cancelled, lost>>
electorVars == <<elector, request, pollAge, renewAge>>
leaseVars == <<holder, observed, fresh, observedAge>>
vars == <<test, became, cancelled, lost, elector, request, pollAge, renewAge,
          holder, observed, fresh, observedAge, faults, crashes>>

\* Mutant: renewing goes on until the lease has run out (renewDeadline is as
\* long as leaseDuration).
GiveUpAgeOfLease == RetryPeriod + LeaseDuration

\* The longest an elector goes on after its last successful write: it waits
\* RetryPeriod before the next attempt and gives that attempt RenewDeadline.
GiveUpAge == RetryPeriod + RenewDeadline

Running(t) == elector[t] \in {"acquiring", "renewing"}

\* The test is using the cluster: its body, or a Cleanup function that was
\* registered after the one of the lease and so runs before it.
Using(t) == test[t] \in {"body", "cleanup"}

-----------------------------------------------------------------------------

Init ==
  /\ test = [t \in Tests |-> "idle"]
  /\ became = [t \in Tests |-> FALSE]
  /\ cancelled = [t \in Tests |-> FALSE]
  /\ lost = [t \in Tests |-> FALSE]
  /\ elector = [t \in Tests |-> "off"]
  /\ request = [t \in Tests |-> "none"]
  /\ pollAge = [t \in Tests |-> 0]
  /\ renewAge = [t \in Tests |-> 0]
  /\ holder = NoTest
  /\ observed = [t \in Tests |-> NoTest]
  /\ fresh = [t \in Tests |-> FALSE]
  /\ observedAge = [t \in Tests |-> 0]
  /\ faults = 0
  /\ crashes = 0

-----------------------------------------------------------------------------
(* The test's goroutine: AcquireLeaseForTest and the Cleanup it registers. *)

\* Build the elector and start it in a goroutine, then wait.
Acquire(t) ==
  /\ test[t] = "idle"
  /\ test' = [test EXCEPT ![t] = "waiting"]
  /\ elector' = [elector EXCEPT ![t] = "acquiring"]
  /\ pollAge' = [pollAge EXCEPT ![t] = 0]
  /\ UNCHANGED <<became, cancelled, lost, request, renewAge, leaseVars, faults, crashes>>

\* select: case <-becameLeader.
Acquired(t) ==
  /\ test[t] = "waiting"
  /\ became[t]
  /\ test' = [test EXCEPT ![t] = "body"]
  /\ UNCHANGED <<became, cancelled, lost, electorVars, leaseVars, faults, crashes>>

\* select: case <-t.Context().Done(); t.Fatalf leaves the elector to itself.
CanceledBeforeAcquiring(t) ==
  /\ test[t] = "waiting"
  /\ cancelled' = [cancelled EXCEPT ![t] = TRUE]
  /\ test' = [test EXCEPT ![t] = "failed"]
  /\ UNCHANGED <<became, lost, electorVars, leaseVars, faults, crashes>>

\* Mutant: the lease is given up before the other Cleanup functions run.
BodyEndsAndCancels(t) ==
  /\ test[t] = "body"
  /\ test' = [test EXCEPT ![t] = "cleanup"]
  /\ cancelled' = [cancelled EXCEPT ![t] = TRUE]
  /\ UNCHANGED <<became, lost, electorVars, leaseVars, faults, crashes>>

\* The body ends (passed or failed) and the later Cleanup functions run.
BodyEnds(t) ==
  /\ test[t] = "body"
  /\ test' = [test EXCEPT ![t] = "cleanup"]
  /\ UNCHANGED <<became, cancelled, lost, electorVars, leaseVars, faults, crashes>>

\* Mutant: the Cleanup function waits without cancelling the context.
ReleaseWithoutCancel(t) ==
  /\ test[t] = "cleanup"
  /\ test' = [test EXCEPT ![t] = "releasing"]
  /\ UNCHANGED <<became, cancelled, lost, electorVars, leaseVars, faults, crashes>>

\* The lease's Cleanup function: cancel(), then wait for lostLeaderCh.
Release(t) ==
  /\ test[t] = "cleanup"
  /\ test' = [test EXCEPT ![t] = "releasing"]
  /\ cancelled' = [cancelled EXCEPT ![t] = TRUE]
  /\ UNCHANGED <<became, lost, electorVars, leaseVars, faults, crashes>>

Released(t) ==
  /\ test[t] = "releasing"
  /\ lost[t]
  /\ test' = [test EXCEPT ![t] = "done"]
  /\ UNCHANGED <<became, cancelled, lost, electorVars, leaseVars, faults, crashes>>

\* The process is killed (go test -timeout, a cancelled CI job): no Cleanup.
Crash(t) ==
  /\ crashes < MaxCrashes
  /\ test[t] \in {"waiting", "body", "cleanup", "releasing"}
  /\ test' = [test EXCEPT ![t] = "crashed"]
  /\ elector' = [elector EXCEPT ![t] = "stopped"]
  /\ crashes' = crashes + 1
  /\ UNCHANGED <<became, cancelled, lost, request, pollAge, renewAge, leaseVars, faults>>

-----------------------------------------------------------------------------
(* The elector's goroutine (client-go) and the API server.                 *)

\* For how long the elector, reading the object now, has known it unchanged.
KnownFor(t) == IF fresh[t] THEN observedAge[t] ELSE 0

\* There is no lease, it is one's own, or it has run out.
MayWrite(t) == holder \in {NoTest, t} \/ KnownFor(t) >= LeaseDuration

\* tryAcquireOrRenew, up to its write: Get the object, note when it changed,
\* and go on if the lease may be written.
Attempt(t) ==
  /\ Running(t)
  /\ ~cancelled[t]
  /\ request[t] = "none"
  /\ observed' = [observed EXCEPT ![t] = holder]
  /\ fresh' = [fresh EXCEPT ![t] = TRUE]
  /\ observedAge' = [observedAge EXCEPT ![t] = KnownFor(t)]
  /\ pollAge' = [pollAge EXCEPT ![t] = 0]
  /\ request' = [request EXCEPT ![t] = IF MayWrite(t) THEN "sent" ELSE "none"]
  /\ UNCHANGED <<testVars, elector, renewAge, holder, faults, crashes>>

\* The API server takes the write: the object is still the one observed.
\* An elector that has stopped meanwhile cannot take its request back.
Applied(t) ==
  /\ request[t] = "sent"
  /\ fresh[t]
  /\ holder' = t
  /\ fresh' = [u \in Tests |-> FALSE]
  /\ request' = [request EXCEPT ![t] = "applied"]
  /\ UNCHANGED <<testVars, elector, pollAge, renewAge, observed, observedAge, faults, crashes>>

\* The API server refuses the write: somebody else has written.
Conflict(t) ==
  /\ request[t] = "sent"
  /\ ~fresh[t]
  /\ request' = [request EXCEPT ![t] = "none"]
  /\ pollAge' = [pollAge EXCEPT ![t] = 0]
  /\ UNCHANGED <<testVars, elector, renewAge, leaseVars, faults, crashes>>

\* Mutant: OnStartedLeading does not close becameLeader.
RenewedUnsignalled(t) ==
  /\ request[t] = "applied"
  /\ Running(t)
  /\ ~cancelled[t]
  /\ request' = [request EXCEPT ![t] = "none"]
  /\ pollAge' = [pollAge EXCEPT ![t] = 0]
  /\ renewAge' = [renewAge EXCEPT ![t] = 0]
  /\ elector' = [elector EXCEPT ![t] = "renewing"]
  /\ observed' = [observed EXCEPT ![t] = t]
  /\ fresh' = [fresh EXCEPT ![t] = (holder = t)]
  /\ observedAge' = [observedAge EXCEPT ![t] = 0]
  /\ UNCHANGED <<test, became, cancelled, lost, holder, faults, crashes>>

\* The elector learns that its write succeeded; the first time it becomes
\* leader and starts OnStartedLeading in a goroutine.
Renewed(t) ==
  /\ request[t] = "applied"
  /\ Running(t)
  /\ ~cancelled[t]
  /\ request' = [request EXCEPT ![t] = "none"]
  /\ pollAge' = [pollAge EXCEPT ![t] = 0]
  /\ renewAge' = [renewAge EXCEPT ![t] = 0]
  /\ elector' = [elector EXCEPT ![t] = "renewing"]
  /\ became' = [became EXCEPT ![t] = TRUE]
  /\ observed' = [observed EXCEPT ![t] = t]
  /\ fresh' = [fresh EXCEPT ![t] = (holder = t)]
  /\ observedAge' = [observedAge EXCEPT ![t] = 0]
  /\ UNCHANGED <<test, cancelled, lost, holder, faults, crashes>>

\* The request fails: it, or its answer, is lost or times out.
RequestFails(t) ==
  /\ faults < MaxFaults
  /\ request[t] # "none"
  /\ Running(t)
  /\ request' = [request EXCEPT ![t] = "none"]
  /\ pollAge' = [pollAge EXCEPT ![t] = 0]
  /\ faults' = faults + 1
  /\ UNCHANGED <<testVars, elector, renewAge, leaseVars, crashes>>

\* An elector that has stopped drops the answer to its last request.
Dropped(t) ==
  /\ request[t] # "none"
  /\ ~Running(t) \/ cancelled[t]
  /\ request' = [request EXCEPT ![t] = "none"]
  /\ UNCHANGED <<testVars, elector, pollAge, renewAge, leaseVars, faults, crashes>>

\* Run returns, and its deferred OnStoppedLeading runs: the context was
\* cancelled, or renewing has failed for RenewDeadline.  The lease object
\* is left as it is, and OnStoppedLeading only logs and closes lostLeaderCh.
StopLeading(t) ==
  /\ \/ Running(t) /\ cancelled[t]
     \/ elector[t] = "renewing" /\ renewAge[t] >= RenewDeadline
  /\ elector' = [elector EXCEPT ![t] = "stopped"]
  /\ lost' = [lost EXCEPT ![t] = TRUE]
  /\ UNCHANGED <<test, became, cancelled, request, pollAge, renewAge, leaseVars, faults, crashes>>

\* How long an elector may wait before its next step is due: an attempt is
\* due RetryPeriod after the last one, an answer within RequestTimeout, and
\* giving up at GiveUpAge.
PollLimit(t) == IF request[t] = "none" THEN RetryPeriod ELSE RequestTimeout

\* Mutant: a leader that cannot renew goes on leading.
NothingDueToGiveUp(t) ==
  /\ Running(t) /\ ~cancelled[t] => pollAge[t] < PollLimit(t)
  /\ request[t] # "none" => pollAge[t] < RequestTimeout

NothingDue(t) ==
  /\ Running(t) /\ ~cancelled[t] => pollAge[t] < PollLimit(t)
  /\ request[t] # "none" => pollAge[t] < RequestTimeout
  /\ elector[t] = "renewing" => renewAge[t] < GiveUpAge

Older(age, limit) == IF age < limit THEN age + 1 ELSE age

\* One unit of time passes for everybody.
Tick ==
  /\ \A t \in Tests : NothingDue(t)
  /\ pollAge' = [t \in Tests |->
       IF Running(t) \/ request[t] # "none"
         THEN Older(pollAge[t], PollLimit(t)) ELSE pollAge[t]]
  /\ renewAge' = [t \in Tests |->
       IF elector[t] = "renewing" THEN renewAge[t] + 1 ELSE renewAge[t]]
  /\ observedAge' = [t \in Tests |->
       IF Running(t) /\ fresh[t]
         THEN Older(observedAge[t], LeaseDuration) ELSE observedAge[t]]
  /\ UNCHANGED <<testVars, elector, request, holder, observed, fresh, faults, crashes>>

-----------------------------------------------------------------------------

TestStep(t) ==
  \/ Acquire(t) \/ Acquired(t) \/ CanceledBeforeAcquiring(t) \/ BodyEnds(t)
  \/ Release(t) \/ Released(t) \/ Crash(t)

ElectorStep(t) ==
  \/ Attempt(t) \/ Applied(t) \/ Conflict(t) \/ Renewed(t)
  \/ RequestFails(t) \/ Dropped(t) \/ StopLeading(t)

Next == Tick \/ \E t \in Tests : TestStep(t) \/ ElectorStep(t)

Spec == Init /\ [][Next]_vars

\* What the scheduling of goroutines, the API server and the clock give: a
\* step that stays possible is taken, and a test's body ends (go test has a
\* timeout).  Nothing is promised of Acquire (a test may never be started),
\* Crash, RequestFails, CanceledBeforeAcquiring, or of giving up early.
Fairness ==
  /\ WF_vars(Tick)
  /\ \A t \in Tests :
       /\ WF_vars(Acquired(t)) /\ WF_vars(BodyEnds(t))
       /\ WF_vars(Release(t)) /\ WF_vars(Released(t))
       /\ WF_vars(Attempt(t)) /\ WF_vars(Applied(t) \/ Conflict(t))
       /\ WF_vars(Renewed(t)) /\ WF_vars(Dropped(t)) /\ WF_vars(StopLeading(t))

FairSpec == Spec /\ Fairness

-----------------------------------------------------------------------------
(* Properties.                                                             *)

\* The types of the state; no elector leads for longer than GiveUpAge without
\* a renewal (renewDeadline of AcquireLeaseForTest).
TypeOK ==
  /\ test \in [Tests -> {"idle", "waiting", "body", "cleanup", "releasing",
                         "done", "failed", "crashed"}]
  /\ became \in [Tests -> BOOLEAN]
  /\ cancelled \in [Tests -> BOOLEAN]
  /\ lost \in [Tests -> BOOLEAN]
  /\ elector \in [Tests -> {"off", "acquiring", "renewing", "stopped"}]
  /\ request \in [Tests -> {"none", "sent", "applied"}]
  /\ pollAge \in [Tests -> Nat]
  /\ renewAge \in [Tests -> 0..GiveUpAge]
  /\ holder \in Tests \cup {NoTest}
  /\ observed \in [Tests -> Tests \cup {NoTest}]
  /\ fresh \in [Tests -> BOOLEAN]
  /\ observedAge \in [Tests -> 0..LeaseDuration]
  /\ faults \in 0..MaxFaults
  /\ crashes \in 0..MaxCrashes

\* At most one elector at a time believes that it leads, whatever requests
\* fail: the one that cannot renew gives up (renewDeadline) before the lease
\* it wrote can run out (leaseDuration) for anybody else.
LeadersExclusive ==
  \A t, u \in Tests : elector[t] = "renewing" /\ elector[u] = "renewing" => t = u

\* The lease object never passes from one test to another while the first
\* one's elector still leads.
NoTakeover ==
  [][\A t \in Tests : elector[t] = "renewing" => holder' = holder]_vars

\* The inductive invariant behind LeadersExclusive and NoTakeover.
\* A test that has not started has neither elector nor request;
IdleHasNoElector ==
  \A t \in Tests : test[t] = "idle" => elector[t] = "off" /\ request[t] = "none"

\* a leader, and an elector whose write was taken but not yet answered, is
\* named by the lease object;
LeaderHolds ==
  \A t \in Tests : elector[t] = "renewing" \/ request[t] = "applied" => holder = t

\* an answer is never older than RequestTimeout;
AnswerIsTimely ==
  \A t \in Tests : request[t] # "none" => pollAge[t] =< RequestTimeout

\* nobody else has known the object for longer than since it was written;
ObservedSinceWritten ==
  \A t, u \in Tests : t # u /\ fresh[u] =>
    /\ request[t] = "applied" => observedAge[u] =< pollAge[t]
    /\ elector[t] = "renewing" => observedAge[u] =< renewAge[t] + RequestTimeout

\* and a write that can still be taken was decided on the present object.
WriteIsJustified ==
  \A t \in Tests : request[t] = "sent" /\ fresh[t] =>
    holder \in {NoTest, t} \/ observedAge[t] >= LeaseDuration

LeaseInv ==
  /\ TypeOK
  /\ IdleHasNoElector
  /\ LeaderHolds
  /\ AnswerIsTimely
  /\ ObservedSinceWritten
  /\ WriteIsJustified

\* The tests see the lock that TestMutex describes.
Mutex == INSTANCE TestMutex WITH using <- {t \in Tests : Using(t)}
MutexSpec == Mutex!Spec

\* A test that waits for the lease does not wait for ever, even after the
\* holder was killed, and a test that gives it back comes to its end.
WaitingEnds == \A t \in Tests : test[t] = "waiting" ~> test[t] # "waiting"
ReleaseEnds == \A t \in Tests : test[t] = "releasing" ~> test[t] # "releasing"

\* AcquireLeaseForTest "acquires (and holds) a cluster-wide lease for the
\* duration of the current test": while a test uses the cluster the lease
\* object names it.
HeldForDurationOfTest == \A t \in Tests : Using(t) => holder = t
=============================================================================
