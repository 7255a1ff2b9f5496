-------------------------- MODULE TestLeaseProofs --------------------------
(***************************************************************************)
(* The lease of the functional tests is exclusive for every set of tests,  *)
(* every number of failing requests and of killed processes, and every     *)
(* choice of the durations in which a leader gives up before its lease,    *)
(* counted from the write, can run out:                                    *)
(*     RequestTimeout + RetryPeriod + RenewDeadline < LeaseDuration        *)
(***************************************************************************)
EXTENDS TestLease, TLAPS

GivesUpInTime == RequestTimeout + GiveUpAge < LeaseDuration

\* Every step of the specification keeps the variables in their types: in
\* particular no elector leads for longer than GiveUpAge without a renewal.
THEOREM TypeCorrect == Spec => []TypeOK
<1>1. Init => TypeOK
  BY LeaseAssumption DEF Init, TypeOK, GiveUpAge
<1>2. TypeOK /\ [Next]_vars => TypeOK'
  <2> SUFFICES ASSUME TypeOK, [Next]_vars PROVE TypeOK'
    OBVIOUS
  <2> USE LeaseAssumption DEF TypeOK
  <2>1. CASE UNCHANGED vars
    BY <2>1 DEF vars
  <2>2. CASE Tick
    <3>1. \A t \in Tests : elector[t] = "renewing" => renewAge[t] < GiveUpAge
      BY <2>2 DEF Tick, NothingDue
    <3>2. renewAge' \in [Tests -> 0..GiveUpAge]
      BY <2>2, <3>1 DEF Tick, GiveUpAge
    <3>3. pollAge' \in [Tests -> Nat]
      BY <2>2 DEF Tick, Older, PollLimit
    <3>4. observedAge' \in [Tests -> 0..LeaseDuration]
      BY <2>2 DEF Tick, Older
    <3> QED BY <2>2, <3>2, <3>3, <3>4 DEF Tick, testVars
  <2>3. ASSUME NEW t \in Tests, TestStep(t) PROVE TypeOK'
    <3>1. CASE Acquire(t)
      BY <3>1 DEF Acquire, leaseVars
    <3>2. CASE Acquired(t) \/ BodyEnds(t) \/ Released(t)
      BY <3>2 DEF Acquired, BodyEnds, Released, electorVars, leaseVars
    <3>3. CASE CanceledBeforeAcquiring(t) \/ Release(t)
      BY <3>3 DEF CanceledBeforeAcquiring, Release, electorVars, leaseVars
    <3>4. CASE Crash(t)
      BY <3>4 DEF Crash, leaseVars
    <3> QED BY <2>3, <3>1, <3>2, <3>3, <3>4 DEF TestStep
  <2>4. ASSUME NEW t \in Tests, ElectorStep(t) PROVE TypeOK'
    <3>1. CASE Attempt(t)
      BY <3>1 DEF Attempt, KnownFor, testVars
    <3>2. CASE Applied(t)
      <4>1. fresh' \in [Tests -> BOOLEAN]
        BY <3>2, Zenon DEF Applied
      <4> QED BY <3>2, <4>1 DEF Applied, testVars
    <3>6. CASE Conflict(t)
      BY <3>6 DEF Conflict, testVars, leaseVars
    <3>3. CASE Renewed(t)
      BY <3>3 DEF Renewed, GiveUpAge
    <3>4. CASE RequestFails(t) \/ Dropped(t)
      BY <3>4 DEF RequestFails, Dropped, testVars, leaseVars
    <3>5. CASE StopLeading(t)
      BY <3>5 DEF StopLeading, leaseVars
    <3> QED BY <2>4, <3>1, <3>2, <3>3, <3>4, <3>5, <3>6 DEF ElectorStep
  <2> QED BY <2>1, <2>2, <2>3, <2>4 DEF Next
<1> QED BY <1>1, <1>2, PTL DEF Spec

\* A step of a test's goroutine keeps the lease invariant: it changes neither
\* a request, nor the lease object, and makes no elector a leader.
LEMMA TestStepKeepsLeaseInv ==
  ASSUME LeaseInv, TypeOK', NEW t \in Tests, TestStep(t)
  PROVE  LeaseInv'
<1> USE LeaseAssumption DEF LeaseInv, TypeOK
<1>1. CASE Acquire(t)
  BY <1>1 DEF Acquire, leaseVars, IdleHasNoElector, LeaderHolds, AnswerIsTimely,
     ObservedSinceWritten, WriteIsJustified
<1>2. CASE Acquired(t) \/ BodyEnds(t) \/ Released(t) \/ CanceledBeforeAcquiring(t) \/ Release(t)
  <2>1. UNCHANGED <<electorVars, leaseVars>>
    BY <1>2 DEF Acquired, BodyEnds, Released, CanceledBeforeAcquiring, Release
  <2>2. IdleHasNoElector'
    BY <1>2, <2>1 DEF Acquired, BodyEnds, Released, CanceledBeforeAcquiring, Release,
       electorVars, IdleHasNoElector
  <2> QED BY <2>1, <2>2 DEF electorVars, leaseVars, LeaderHolds, AnswerIsTimely,
     ObservedSinceWritten, WriteIsJustified
<1>3. CASE Crash(t)
  BY <1>3 DEF Crash, leaseVars, IdleHasNoElector, LeaderHolds, AnswerIsTimely,
     ObservedSinceWritten, WriteIsJustified
<1> QED BY <1>1, <1>2, <1>3 DEF TestStep

\* A write can be taken only if nobody else leads or waits for the answer to a
\* write: that elector would have written at most GiveUpAge + RequestTimeout
\* ago, and this one would not have been free to write.
LEMMA OnlyLeaderWrites ==
  ASSUME GivesUpInTime, LeaseInv, NEW t \in Tests, NEW u \in Tests, Applied(t),
         elector[u] = "renewing" \/ request[u] = "applied"
  PROVE  u = t
<1> SUFFICES ASSUME u # t PROVE FALSE
  OBVIOUS
<1> USE LeaseAssumption DEF LeaseInv, TypeOK
<1>1. holder = u
  BY DEF LeaderHolds
<1>2. request[t] = "sent" /\ fresh[t]
  BY DEF Applied
<1>3. observedAge[t] >= LeaseDuration
  BY <1>1, <1>2 DEF WriteIsJustified
<1>4. observedAge[t] =< GiveUpAge + RequestTimeout
  BY <1>2 DEF ObservedSinceWritten, AnswerIsTimely, GiveUpAge
<1> QED BY <1>3, <1>4 DEF GivesUpInTime, GiveUpAge

\* A step of an elector or of the API server keeps it.
LEMMA ElectorStepKeepsLeaseInv ==
  ASSUME GivesUpInTime, LeaseInv, TypeOK', NEW t \in Tests, ElectorStep(t)
  PROVE  LeaseInv'
<1> USE LeaseAssumption DEF LeaseInv, TypeOK
<1>1. CASE Attempt(t)
  <2>1. IdleHasNoElector' /\ LeaderHolds' /\ AnswerIsTimely'
    BY <1>1 DEF Attempt, KnownFor, MayWrite, Running, testVars, IdleHasNoElector, LeaderHolds, AnswerIsTimely
  <2>2. ObservedSinceWritten'
    BY <1>1 DEF Attempt, KnownFor, MayWrite, Running, ObservedSinceWritten
  <2>3. WriteIsJustified'
    BY <1>1 DEF Attempt, KnownFor, MayWrite, Running, WriteIsJustified
  <2> QED BY <2>1, <2>2, <2>3
<1>2. CASE Applied(t)
  <2>1. \A u \in Tests : u # t => elector[u] # "renewing" /\ request[u] # "applied"
    BY <1>2, OnlyLeaderWrites
  <2>2. IdleHasNoElector' /\ AnswerIsTimely'
    BY <1>2 DEF Applied, testVars, IdleHasNoElector, AnswerIsTimely
  <2>3. LeaderHolds'
    BY <1>2, <2>1 DEF Applied, LeaderHolds
  <2>4. ObservedSinceWritten' /\ WriteIsJustified'
    BY <1>2 DEF Applied, ObservedSinceWritten, WriteIsJustified
  <2> QED BY <2>2, <2>3, <2>4
<1>3. CASE Conflict(t)
  BY <1>3 DEF Conflict, testVars, leaseVars, IdleHasNoElector, LeaderHolds,
     AnswerIsTimely, ObservedSinceWritten, WriteIsJustified
<1>4. CASE Renewed(t)
  <2>1. holder = t
    BY <1>4 DEF Renewed, LeaderHolds
  <2>2. \A u \in Tests : u # t => elector[u] # "renewing" /\ request[u] # "applied"
    BY <2>1 DEF LeaderHolds
  <2>3. IdleHasNoElector' /\ LeaderHolds' /\ AnswerIsTimely'
    BY <1>4, <2>1 DEF Renewed, IdleHasNoElector, LeaderHolds, AnswerIsTimely
  <2>4. ObservedSinceWritten'
    <3>1. \A u \in Tests : u # t /\ fresh[u] => observedAge[u] =< RequestTimeout
      BY <1>4 DEF Renewed, ObservedSinceWritten, AnswerIsTimely
    <3> QED BY <1>4, <2>2, <3>1 DEF Renewed, ObservedSinceWritten
  <2>5. WriteIsJustified'
    BY <1>4 DEF Renewed, WriteIsJustified
  <2> QED BY <2>3, <2>4, <2>5
<1>5. CASE RequestFails(t)
  BY <1>5 DEF RequestFails, testVars, leaseVars, IdleHasNoElector, LeaderHolds,
     AnswerIsTimely, ObservedSinceWritten, WriteIsJustified
<1>6. CASE Dropped(t)
  BY <1>6 DEF Dropped, testVars, leaseVars, IdleHasNoElector, LeaderHolds,
     AnswerIsTimely, ObservedSinceWritten, WriteIsJustified
<1>7. CASE StopLeading(t)
  BY <1>7 DEF StopLeading, Running, leaseVars, IdleHasNoElector, LeaderHolds,
     AnswerIsTimely, ObservedSinceWritten, WriteIsJustified
<1> QED BY <1>1, <1>2, <1>3, <1>4, <1>5, <1>6, <1>7 DEF ElectorStep

\* The passage of time keeps it: no deadline is overrun.
LEMMA TickKeepsLeaseInv ==
  ASSUME LeaseInv, TypeOK', Tick
  PROVE  LeaseInv'
<1> USE LeaseAssumption DEF LeaseInv, TypeOK
<1>1. IdleHasNoElector' /\ LeaderHolds'
  BY DEF Tick, testVars, IdleHasNoElector, LeaderHolds
<1>2. AnswerIsTimely'
  BY DEF Tick, NothingDue, Older, PollLimit, AnswerIsTimely
<1>3. ObservedSinceWritten'
  <2>1. \A t \in Tests :
          /\ request[t] = "applied" => pollAge'[t] = pollAge[t] + 1
          /\ elector[t] = "renewing" => renewAge'[t] = renewAge[t] + 1
          /\ observedAge'[t] =< observedAge[t] + 1
    BY DEF Tick, NothingDue, Older, PollLimit
  <2>2. UNCHANGED <<request, elector, fresh>>
    BY DEF Tick
  <2>3. ASSUME NEW t \in Tests, NEW u \in Tests, t # u, fresh'[u]
        PROVE  /\ request'[t] = "applied" => observedAge'[u] =< pollAge'[t]
               /\ elector'[t] = "renewing" => observedAge'[u] =< renewAge'[t] + RequestTimeout
    <3>1. /\ request[t] = "applied" => observedAge[u] =< pollAge[t]
          /\ elector[t] = "renewing" => observedAge[u] =< renewAge[t] + RequestTimeout
      BY <2>2, <2>3 DEF ObservedSinceWritten
    <3> QED BY <2>1, <2>2, <3>1
  <2> QED BY <2>3 DEF ObservedSinceWritten
<1>4. WriteIsJustified'
  BY DEF Tick, Older, WriteIsJustified
<1> QED BY <1>1, <1>2, <1>3, <1>4

\* The lease invariant holds in every reachable state.
THEOREM LeaseInvariant ==
  ASSUME GivesUpInTime
  PROVE  Spec => []LeaseInv
<1>1. Init => LeaseInv
  <2> SUFFICES ASSUME Init PROVE LeaseInv
    OBVIOUS
  <2>1. TypeOK
    BY LeaseAssumption DEF Init, TypeOK, GiveUpAge
  <2> QED BY <2>1, LeaseAssumption DEF Init, LeaseInv, IdleHasNoElector, LeaderHolds,
     AnswerIsTimely, ObservedSinceWritten, WriteIsJustified
<1>2. LeaseInv /\ TypeOK' /\ [Next]_vars => LeaseInv'
  <2> SUFFICES ASSUME LeaseInv, TypeOK', [Next]_vars PROVE LeaseInv'
    OBVIOUS
  <2>1. CASE UNCHANGED vars
    BY <2>1 DEF vars, LeaseInv, TypeOK, IdleHasNoElector, LeaderHolds, AnswerIsTimely,
       ObservedSinceWritten, WriteIsJustified
  <2>2. CASE Tick
    BY <2>2, TickKeepsLeaseInv
  <2>3. ASSUME NEW t \in Tests, TestStep(t) PROVE LeaseInv'
    BY <2>3, TestStepKeepsLeaseInv
  <2>4. ASSUME NEW t \in Tests, ElectorStep(t) PROVE LeaseInv'
    BY <2>4, GivesUpInTime, ElectorStepKeepsLeaseInv
  <2> QED BY <2>1, <2>2, <2>3, <2>4 DEF Next
<1> QED BY <1>1, <1>2, TypeCorrect, PTL DEF Spec

\* At most one elector at a time believes that it leads.
THEOREM LeadersAreExclusive ==
  ASSUME GivesUpInTime
  PROVE  Spec => []LeadersExclusive
<1>1. LeaseInv => LeadersExclusive
  BY DEF LeaseInv, LeaderHolds, LeadersExclusive
<1> QED BY <1>1, GivesUpInTime, LeaseInvariant, PTL

\* The lease object is never taken from an elector that still leads.
THEOREM LeaseIsNotTakenOver ==
  ASSUME GivesUpInTime
  PROVE  Spec => NoTakeover
<1>1. LeaseInv /\ LeaseInv' /\ [Next]_vars
        => [\A t \in Tests : elector[t] = "renewing" => holder' = holder]_vars
  <2> SUFFICES ASSUME LeaseInv, [Next]_vars,
                      NEW t \in Tests, elector[t] = "renewing"
               PROVE  holder' = holder
    OBVIOUS
  <2>1. CASE UNCHANGED vars
    BY <2>1 DEF vars
  <2>2. CASE Tick
    BY <2>2 DEF Tick
  <2>3. ASSUME NEW u \in Tests, TestStep(u) PROVE holder' = holder
    BY <2>3 DEF TestStep, Acquire, Acquired, CanceledBeforeAcquiring, BodyEnds,
       Release, Released, Crash, leaseVars
  <2>4. ASSUME NEW u \in Tests, Applied(u) PROVE holder' = holder
    <3>1. holder = t
      BY DEF LeaseInv, LeaderHolds
    <3>2. u = t
      BY <2>4, OnlyLeaderWrites
    <3> QED BY <2>4, <3>1, <3>2 DEF Applied
  <2>5. ASSUME NEW u \in Tests, ElectorStep(u), ~Applied(u) PROVE holder' = holder
    BY <2>5 DEF ElectorStep, Attempt, Conflict, Renewed, RequestFails, Dropped,
       StopLeading, leaseVars
  <2> QED BY <2>1, <2>2, <2>3, <2>4, <2>5 DEF Next
<1> QED BY <1>1, GivesUpInTime, LeaseInvariant, PTL DEF Spec, NoTakeover

-----------------------------------------------------------------------------
(* The refinement: a test that uses the cluster leads.                     *)

\* The time in which one attempt to renew is made and answered, or fails.
AttemptTime == RetryPeriod + RequestTimeout

\* As many attempts as may fail, and one that does not, fit into the time
\* after which a leader gives up.
RidesOutFaults == (MaxFaults + 1) * AttemptTime < RenewDeadline

\* A test that has not started has no context to cancel and no leadership to
\* learn of, and one that waits has not been cancelled.
WaitsUncancelled ==
  \A t \in Tests :
    /\ test[t] = "idle" => ~became[t] /\ ~cancelled[t]
    /\ test[t] = "waiting" => ~cancelled[t]

\* The elector of a test that uses the cluster, or is about to, leads.
UsersLead ==
  \A t \in Tests :
    Using(t) \/ (test[t] = "waiting" /\ became[t]) => elector[t] = "renewing" /\ ~cancelled[t]

\* A leader's last write is no older than the failures so far and the attempt
\* under way account for, and the write under way cannot meet a conflict.
RenewsInTime ==
  \A t \in Tests : elector[t] = "renewing" /\ ~cancelled[t] =>
    /\ request[t] = "none" => /\ pollAge[t] =< RetryPeriod
                             /\ renewAge[t] =< faults * AttemptTime + pollAge[t]
    /\ request[t] # "none" =>
         renewAge[t] =< faults * AttemptTime + RetryPeriod + pollAge[t]
    /\ request[t] = "sent" => fresh[t]

UseInv == WaitsUncancelled /\ UsersLead /\ RenewsInTime

\* The products that RenewsInTime is about.
LEMMA Products ==
  /\ AttemptTime \in Nat
  /\ \A f \in Nat : /\ f * AttemptTime \in Nat
                    /\ (f + 1) * AttemptTime = f * AttemptTime + AttemptTime
  /\ \A f, g \in Nat : f =< g => f * AttemptTime =< g * AttemptTime
<1>1. AttemptTime \in Nat
  BY LeaseAssumption DEF AttemptTime
<1> HIDE DEF AttemptTime
<1>2. \A f \in Nat : /\ f * AttemptTime \in Nat
                     /\ (f + 1) * AttemptTime = f * AttemptTime + AttemptTime
  BY <1>1
<1>3. \A f, g \in Nat : f =< g => f * AttemptTime =< g * AttemptTime
  BY <1>1
<1> QED BY <1>1, <1>2, <1>3

\* A leader that was not cancelled has not reached the renewal deadline.
LEMMA DeadlineNotReached ==
  ASSUME RidesOutFaults, LeaseInv, UseInv, NEW t \in Tests,
         elector[t] = "renewing", ~cancelled[t]
  PROVE  renewAge[t] < RenewDeadline
<1> DEFINE spent == faults * AttemptTime
<1>1. /\ renewAge[t] \in Nat /\ pollAge[t] \in Nat
      /\ faults \in Nat /\ faults =< MaxFaults /\ MaxFaults \in Nat
  BY LeaseAssumption DEF LeaseInv, TypeOK, GiveUpAge
<1>2. spent \in Nat /\ spent + AttemptTime =< (MaxFaults + 1) * AttemptTime
  BY <1>1, Products
<1>3. request[t] # "none" => pollAge[t] =< RequestTimeout
  BY DEF LeaseInv, AnswerIsTimely
<1> HIDE DEF spent
<1>4. renewAge[t] =< spent + AttemptTime
  <2>1. /\ request[t] = "none" => pollAge[t] =< RetryPeriod /\ renewAge[t] =< spent + pollAge[t]
        /\ request[t] # "none" => renewAge[t] =< spent + RetryPeriod + pollAge[t]
    BY DEF UseInv, RenewsInTime, spent
  <2> QED BY <1>1, <1>2, <1>3, <2>1, LeaseAssumption DEF AttemptTime
<1>5. (MaxFaults + 1) * AttemptTime \in Nat /\ AttemptTime \in Nat
  BY <1>1, Products
<1> QED BY <1>1, <1>2, <1>4, <1>5, LeaseAssumption DEF RidesOutFaults

\* A step of a test's goroutine keeps the invariant of the users.
LEMMA TestStepKeepsUseInv ==
  ASSUME LeaseInv, UseInv, NEW t \in Tests, TestStep(t)
  PROVE  UseInv'
<1> USE DEF LeaseInv, TypeOK
<1>1. CASE Acquire(t)
  <2>1. WaitsUncancelled' /\ UsersLead'
    BY <1>1 DEF Acquire, UseInv, WaitsUncancelled, UsersLead, Using
  <2>2. RenewsInTime'
    BY <1>1 DEF Acquire, leaseVars, UseInv, RenewsInTime
  <2> QED BY <2>1, <2>2 DEF UseInv
<1>2. CASE Acquired(t) \/ BodyEnds(t) \/ Released(t)
  <2>1. WaitsUncancelled' /\ UsersLead'
    BY <1>2 DEF Acquired, BodyEnds, Released, electorVars, UseInv, WaitsUncancelled, UsersLead, Using
  <2>2. RenewsInTime'
    BY <1>2 DEF Acquired, BodyEnds, Released, electorVars, leaseVars, UseInv, RenewsInTime
  <2> QED BY <2>1, <2>2 DEF UseInv
<1>3. CASE CanceledBeforeAcquiring(t) \/ Release(t)
  <2>1. WaitsUncancelled' /\ UsersLead'
    BY <1>3 DEF CanceledBeforeAcquiring, Release, electorVars, UseInv, WaitsUncancelled, UsersLead,
       Using
  <2>2. RenewsInTime'
    BY <1>3 DEF CanceledBeforeAcquiring, Release, electorVars, leaseVars, UseInv, RenewsInTime
  <2> QED BY <2>1, <2>2 DEF UseInv
<1>4. CASE Crash(t)
  <2>1. WaitsUncancelled' /\ UsersLead'
    BY <1>4 DEF Crash, UseInv, WaitsUncancelled, UsersLead, Using
  <2>2. RenewsInTime'
    BY <1>4 DEF Crash, leaseVars, UseInv, RenewsInTime
  <2> QED BY <2>1, <2>2 DEF UseInv
<1> QED BY <1>1, <1>2, <1>3, <1>4 DEF TestStep

\* A step of an elector or of the API server keeps it: the lease is not taken
\* over, so that renewing meets no conflict and is never given up.
LEMMA ElectorStepKeepsUseInv ==
  ASSUME GivesUpInTime, RidesOutFaults, LeaseInv, UseInv, NEW t \in Tests, ElectorStep(t)
  PROVE  UseInv'
<1> USE LeaseAssumption DEF LeaseInv, TypeOK
<1>1. CASE Attempt(t)
  <2>1. WaitsUncancelled' /\ UsersLead'
    BY <1>1 DEF Attempt, testVars, UseInv, WaitsUncancelled, UsersLead, Using
  <2>2. elector[t] = "renewing" => MayWrite(t)
    BY DEF MayWrite, LeaderHolds
  <2>3. RenewsInTime'
    BY <1>1, <2>2, Products DEF Attempt, testVars, UseInv, RenewsInTime
  <2> QED BY <2>1, <2>3 DEF UseInv
<1>2. CASE Applied(t)
  <2>1. WaitsUncancelled' /\ UsersLead'
    BY <1>2 DEF Applied, testVars, UseInv, WaitsUncancelled, UsersLead, Using
  <2>2. \A u \in Tests : u # t => elector[u] # "renewing"
    BY <1>2, OnlyLeaderWrites
  <2>3. RenewsInTime'
    BY <1>2, <2>2 DEF Applied, testVars, UseInv, RenewsInTime
  <2> QED BY <2>1, <2>3 DEF UseInv
<1>3. CASE Conflict(t)
  <2>1. WaitsUncancelled' /\ UsersLead'
    BY <1>3 DEF Conflict, testVars, UseInv, WaitsUncancelled, UsersLead, Using
  <2>2. ~(elector[t] = "renewing" /\ ~cancelled[t])
    BY <1>3 DEF Conflict, UseInv, RenewsInTime
  <2>3. RenewsInTime'
    BY <1>3, <2>2 DEF Conflict, testVars, leaseVars, UseInv, RenewsInTime
  <2> QED BY <2>1, <2>3 DEF UseInv
<1>4. CASE Renewed(t)
  <2>1. WaitsUncancelled' /\ UsersLead'
    BY <1>4, Zenon DEF Renewed, UseInv, WaitsUncancelled, UsersLead, Using, IdleHasNoElector, Running
  <2>2. RenewsInTime'
    BY <1>4, Products DEF Renewed, UseInv, RenewsInTime
  <2> QED BY <2>1, <2>2 DEF UseInv
<1>5. CASE RequestFails(t)
  <2>1. WaitsUncancelled' /\ UsersLead'
    BY <1>5 DEF RequestFails, testVars, UseInv, WaitsUncancelled, UsersLead, Using
  <2>2. RenewsInTime'
    <3> DEFINE spent == faults * AttemptTime
    <3>1. spent \in Nat /\ faults' * AttemptTime = spent + AttemptTime
      BY <1>5, Products DEF RequestFails
    <3> HIDE DEF spent
    <3> QED BY <1>5, <3>1 DEF RequestFails, testVars, leaseVars, UseInv, RenewsInTime,
               AnswerIsTimely, AttemptTime, spent
  <2> QED BY <2>1, <2>2 DEF UseInv
<1>6. CASE Dropped(t)
  <2>1. WaitsUncancelled' /\ UsersLead'
    BY <1>6 DEF Dropped, testVars, UseInv, WaitsUncancelled, UsersLead, Using
  <2>2. RenewsInTime'
    BY <1>6 DEF Dropped, Running, testVars, leaseVars, UseInv, RenewsInTime
  <2> QED BY <2>1, <2>2 DEF UseInv
<1>7. CASE StopLeading(t)
  <2>1. ~(elector[t] = "renewing" /\ ~cancelled[t])
    BY <1>7, DeadlineNotReached DEF StopLeading, GiveUpAge
  <2>2. WaitsUncancelled' /\ UsersLead'
    BY <1>7, <2>1 DEF StopLeading, UseInv, WaitsUncancelled, UsersLead, Using
  <2>3. RenewsInTime'
    BY <1>7 DEF StopLeading, leaseVars, UseInv, RenewsInTime
  <2> QED BY <2>2, <2>3 DEF UseInv
<1> QED BY <1>1, <1>2, <1>3, <1>4, <1>5, <1>6, <1>7 DEF ElectorStep

\* The passage of time keeps it: an attempt is made and answered when it is due.
LEMMA TickKeepsUseInv ==
  ASSUME LeaseInv, UseInv, Tick
  PROVE  UseInv'
<1> USE LeaseAssumption DEF LeaseInv, TypeOK
<1>1. WaitsUncancelled' /\ UsersLead'
  BY DEF Tick, testVars, UseInv, WaitsUncancelled, UsersLead, Using
<1>2. RenewsInTime'
  <2> DEFINE spent == faults * AttemptTime
  <2>1. spent \in Nat /\ spent' = spent
    BY Products DEF Tick, AttemptTime
  <2>2. \A t \in Tests : elector[t] = "renewing" /\ ~cancelled[t] =>
          /\ pollAge'[t] = pollAge[t] + 1 /\ pollAge[t] < PollLimit(t)
          /\ renewAge'[t] = renewAge[t] + 1
    BY DEF Tick, NothingDue, Older, Running
  <2>3. UNCHANGED <<elector, cancelled, request, fresh>>
    BY DEF Tick, testVars
  <2> HIDE DEF spent
  <2>4. \A t \in Tests : elector[t] = "renewing" /\ ~cancelled[t] =>
          /\ request[t] = "none" => /\ pollAge'[t] =< RetryPeriod
                                   /\ renewAge'[t] =< spent + pollAge'[t]
          /\ request[t] # "none" => renewAge'[t] =< spent + RetryPeriod + pollAge'[t]
          /\ request[t] = "sent" => fresh[t]
    BY <2>1, <2>2 DEF UseInv, RenewsInTime, PollLimit, spent
  <2> QED BY <2>1, <2>3, <2>4 DEF RenewsInTime, spent
<1> QED BY <1>1, <1>2 DEF UseInv

\* A test that uses the cluster leads, in every reachable state.
THEOREM UseInvariant ==
  ASSUME GivesUpInTime, RidesOutFaults
  PROVE  Spec => []UseInv
<1>1. Init => UseInv
  BY DEF Init, UseInv, WaitsUncancelled, UsersLead, RenewsInTime, Using
<1>2. LeaseInv /\ UseInv /\ [Next]_vars => UseInv'
  <2> SUFFICES ASSUME LeaseInv, UseInv, [Next]_vars PROVE UseInv'
    OBVIOUS
  <2>1. CASE UNCHANGED vars
    BY <2>1 DEF vars, UseInv, WaitsUncancelled, UsersLead, RenewsInTime, Using
  <2>2. CASE Tick
    BY <2>2, TickKeepsUseInv
  <2>3. ASSUME NEW t \in Tests, TestStep(t) PROVE UseInv'
    BY <2>3, TestStepKeepsUseInv
  <2>4. ASSUME NEW t \in Tests, ElectorStep(t) PROVE UseInv'
    BY <2>4, GivesUpInTime, RidesOutFaults, ElectorStepKeepsUseInv
  <2> QED BY <2>1, <2>2, <2>3, <2>4 DEF Next
<1> QED BY <1>1, <1>2, GivesUpInTime, LeaseInvariant, PTL DEF Spec

\* The tests are excluded from one another as TestMutex promises, for any
\* tests, crashes and failing requests, if a leader rides out that many
\* failures before it gives up.
THEOREM TestsExclude ==
  ASSUME GivesUpInTime, RidesOutFaults
  PROVE  Spec => MutexSpec
<1> DEFINE users == {t \in Tests : Using(t)}
<1>1. Init => Mutex!Init
  BY DEF Init, Mutex!Init, Using
<1>2. LeaseInv /\ UseInv /\ [Next]_vars => [Mutex!Next]_users
  <2> SUFFICES ASSUME LeaseInv, UseInv, [Next]_vars PROVE [Mutex!Next]_users
    OBVIOUS
  <2> USE DEF LeaseInv, TypeOK
  <2>1. ASSUME UNCHANGED test PROVE users' = users
    BY <2>1 DEF Using
  <2>2. \A t, u \in Tests : /\ Using(t) \/ (test[t] = "waiting" /\ became[t])
                            /\ Using(u) \/ (test[u] = "waiting" /\ became[u])
                            => t = u
    BY DEF UseInv, UsersLead, LeaderHolds
  <2>3. CASE UNCHANGED vars \/ Tick
    BY <2>1, <2>3 DEF vars, Tick, testVars
  <2>4. ASSUME NEW t \in Tests, ElectorStep(t) PROVE [Mutex!Next]_users
    BY <2>1, <2>4 DEF ElectorStep, Attempt, Applied, Conflict, Renewed, RequestFails, Dropped,
       StopLeading, testVars
  <2>5. ASSUME NEW t \in Tests, TestStep(t) PROVE [Mutex!Next]_users
    <3>1. \A u \in Tests : u # t => (Using(u)' <=> Using(u))
      BY <2>5 DEF TestStep, Acquire, Acquired, CanceledBeforeAcquiring, BodyEnds, Release,
         Released, Crash, Using
    <3>2. CASE ~Using(t) /\ Using(t)'
      <4>1. test[t] = "waiting" /\ became[t]
        BY <2>5, <3>2 DEF TestStep, Acquire, Acquired, CanceledBeforeAcquiring, BodyEnds, Release,
           Released, Crash, Using
      <4>2. users = {}
        BY <2>2, <3>2, <4>1
      <4>3. users' = {t}
        BY <3>1, <3>2, <4>2
      <4> QED BY <4>2, <4>3 DEF Mutex!Next, Mutex!Enter
    <3>3. CASE Using(t) /\ ~Using(t)'
      <4>1. users = {t}
        BY <2>2, <3>3
      <4>2. users' = {}
        BY <3>1, <3>3, <4>1
      <4> QED BY <4>1, <4>2 DEF Mutex!Next, Mutex!Leave
    <3>4. CASE Using(t) <=> Using(t)'
      <4>1. \A u \in Tests : Using(u)' <=> Using(u)
        BY <3>1, <3>4
      <4>2. users' = users
        BY <4>1
      <4> QED BY <4>2
    <3> QED BY <3>2, <3>3, <3>4
  <2> QED BY <2>3, <2>4, <2>5 DEF Next
<1> QED BY <1>1, <1>2, GivesUpInTime, RidesOutFaults, LeaseInvariant, UseInvariant, PTL
        DEF Spec, MutexSpec, Mutex!Spec
=============================================================================
