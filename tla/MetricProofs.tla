---------------------------- MODULE MetricProofs ----------------------------
(***************************************************************************)
(* What the three selections of metrics payloads return, for every number  *)
(* and kind of payloads, every timeout and every interleaving with the     *)
(* receiver (MetricSelection); and when a run passes with its assertion    *)
(* file, for every set of batches, all options and every hash of           *)
(* attributes (MetricAssertion).                                           *)
(***************************************************************************)
EXTENDS MetricSelection, MetricAssertion, FiniteSetTheorems, WellFoundedInduction, TLAPS

-----------------------------------------------------------------------------
(* Smallest and largest elements of sets of natural numbers.               *)

\* Every nonempty set of natural numbers has a smallest element.
LEMMA SmallestExists ==
  ASSUME NEW S, S \subseteq Nat, S # {}
  PROVE  \E x \in S : \A y \in S : x <= y
<1> DEFINE R == {ss \in Nat \X Nat : ss[1] < ss[2]}
<1>1. IsWellFoundedOn(R, Nat)
  BY NatLessThanWellFounded DEF OpToRel
<1>2. \A x, y \in Nat : x < y => <<x, y>> \in R
  OBVIOUS
<1> HIDE DEF R
<1>3. PICK x \in S : \A y \in S : <<y, x>> \notin R
  BY <1>1, WFMin
<1>4. \A y \in S : ~(y < x)
  BY <1>2, <1>3
<1> QED BY <1>3, <1>4

\* Every nonempty set of natural numbers up to n has a largest element.
LEMMA LargestExists ==
  ASSUME NEW n \in Nat, NEW S, S \subseteq 0..n, S # {}
  PROVE  \E x \in S : \A y \in S : y <= x
<1> DEFINE T == {n - i : i \in S}
<1>1. \A i \in S : n - i \in Nat
  OBVIOUS
<1>2. PICK i \in S : TRUE
  OBVIOUS
<1>3. n - i \in T
  OBVIOUS
<1>4. T \subseteq Nat
  BY <1>1
<1>5. PICK t \in T : \A u \in T : t <= u
  BY <1>3, <1>4, SmallestExists
<1>6. PICK x \in S : t = n - x
  OBVIOUS
<1>7. \A y \in S : n - x <= n - y
  BY <1>5, <1>6
<1> QED BY <1>7

\* A function with natural values has a largest value on every nonempty set of
\* positions. (By the smallest n for which it would have none.)
LEMMA LargestValueExists ==
  ASSUME NEW n \in Nat, NEW f, NEW S, S \subseteq 1..n, S # {}, \A i \in S : f[i] \in Nat
  PROVE  \E x \in S : \A y \in S : f[y] <= f[x]
<1> DEFINE Fails(U) == U # {} /\ (\A i \in U : f[i] \in Nat)
                         /\ \A x \in U : \E y \in U : ~(f[y] <= f[x])
           Bad == {m \in Nat : \E U \in SUBSET (1..m) : Fails(U)}
<1>1. SUFFICES ASSUME Fails(S) PROVE FALSE
  OBVIOUS
<1>2. n \in Bad
  BY <1>1
<1>3. PICK m \in Bad : \A k \in Bad : m <= k
  <2> HIDE DEF Bad
  <2>1. Bad \subseteq Nat
    BY DEF Bad
  <2> QED BY <1>2, <2>1, SmallestExists
<1>4. PICK U \in SUBSET (1..m) : Fails(U)
  BY <1>3
<1>5. ASSUME NEW V \in SUBSET (1..m), m \notin V, V # {} PROVE ~Fails(V)
  <2> HIDE DEF Fails
  <2>1. m \in Nat
    OBVIOUS
  <2> HIDE DEF Bad
  <2>2. m - 1 \in Nat /\ V \subseteq 1..(m - 1)
    <3>1. \A v \in V : v \in 1..m /\ v # m
      BY <1>5
    <3>2. \A v \in V : m - 1 \in Nat /\ v \in 1..(m - 1)
      BY <2>1, <3>1
    <3>3. PICK v \in V : TRUE
      BY <1>5
    <3>4. m - 1 \in Nat
      BY <3>2, <3>3
    <3>5. V \subseteq 1..(m - 1)
      BY <3>2
    <3> QED BY <3>4, <3>5
  <2>3. m - 1 \notin Bad
    BY <1>3, <2>1
  <2> QED BY <2>2, <2>3 DEF Bad
<1>6. m \in U
  BY <1>4, <1>5
<1>7. \E x \in U \ {m} : \A y \in U \ {m} : f[y] <= f[x]
  <2>1. U \ {m} # {}
    <3>1. SUFFICES ASSUME U = {m} PROVE FALSE
      BY <1>6
    <3>2. f[m] \in Nat /\ ~(f[m] <= f[m])
      BY <1>4, <3>1
    <3> QED BY <3>2
  <2>2. ~Fails(U \ {m})
    <3> HIDE DEF Fails
    <3> QED BY <1>5, <2>1
  <2> QED BY <1>4, <2>1, <2>2
<1>8. PICK x \in U \ {m} : \A y \in U \ {m} : f[y] <= f[x]
  BY <1>7
<1>9. f[x] \in Nat /\ f[m] \in Nat
  BY <1>4, <1>6
<1>10. CASE f[m] <= f[x]
  <2>1. \A y \in U : f[y] <= f[x]
    BY <1>8, <1>10
  <2> QED BY <1>4, <2>1
<1>11. CASE f[x] < f[m]
  <2>1. \A y \in U : f[y] \in Nat
    BY <1>4
  <2>2. \A y \in U : f[y] <= f[m]
    BY <1>8, <1>9, <1>11, <2>1
  <2> QED BY <1>4, <1>6, <2>2
<1> QED BY <1>9, <1>10, <1>11

-----------------------------------------------------------------------------
(* Newest and Richest, without CHOOSE.                                     *)

\* Newest returns the largest of a set of positions: selectMetricSetByCounts
\* and richestMetricSet go through the payloads from the newest to the oldest.
LEMMA NewestIsLargest ==
  ASSUME NEW n \in Nat, NEW S, S \subseteq 1..n
  PROVE  /\ S = {} => Newest(S) = 0
         /\ S # {} => Newest(S) \in S /\ \A j \in S : j <= Newest(S)
<1>1. CASE S = {}
  BY <1>1 DEF Newest
<1>2. CASE S # {}
  <2>1. \E x \in S : \A y \in S : y <= x
    <3>1. S \subseteq 0..n
      OBVIOUS
    <3> QED BY <1>2, <3>1, LargestExists
  <2> QED BY <1>2, <2>1 DEF Newest
<1> QED BY <1>1, <1>2

\* A position that is in a set and is not below any other is what Newest returns.
LEMMA NewestUnique ==
  ASSUME NEW n \in Nat, NEW S, S \subseteq 1..n, NEW x \in S, \A j \in S : j <= x
  PROVE  Newest(S) = x
<1>1. Newest(S) \in S /\ x <= Newest(S)
  BY NewestIsLargest
<1>2. Newest(S) <= x /\ x \in 1..n /\ Newest(S) \in 1..n
  BY <1>1
<1> QED BY <1>1, <1>2

\* x is what richestMetricSet returns of the payloads S: none has the target
\* metric and x is 0, or x has it and no other one has more metrics, or as many
\* and is newer.
IsRichest(x, S) ==
  /\ x = 0 => \A i \in S : ~sink[i].target
  /\ x # 0 =>
       /\ x \in S /\ sink[x].target
       /\ \A i \in S : sink[i].target =>
            \/ sink[i].metrics < sink[x].metrics
            \/ sink[i].metrics = sink[x].metrics /\ i <= x

\* A payload of the sink is one of Payloads.
LEMMA PayloadTypes ==
  ASSUME TypeOK, NEW i \in 1..Len(sink)
  PROVE  sink[i].target \in BOOLEAN /\ sink[i].resources \in Nat /\ sink[i].metrics \in Nat
<1>1. sink[i] \in Payloads
  BY DEF TypeOK
<1> QED BY <1>1, SelectionAssumption

\* Richest is a function of the payloads that IsRichest describes.
LEMMA RichestIsRichest ==
  ASSUME TypeOK, NEW S, S \subseteq 1..Len(sink)
  PROVE  IsRichest(Richest(S), S)
<1> DEFINE C == {i \in S : ContainsMetric(sink[i])}
           B == {i \in C : \A j \in C : sink[j].metrics <= sink[i].metrics}
           f == [i \in 1..Len(sink) |-> sink[i].metrics]
<1>1. Len(sink) \in Nat /\ C \subseteq 1..Len(sink) /\ B \subseteq 1..Len(sink)
  <2>1. Len(sink) \in Nat
    BY DEF TypeOK
  <2>2. C \subseteq S /\ B \subseteq S
    OBVIOUS
  <2> HIDE DEF B, C
  <2> QED BY <2>1, <2>2
<1>2. Richest(S) = Newest(B)
  BY DEF Richest
<1>3. CASE C = {}
  <2>1. Richest(S) = 0
    BY <1>1, <1>2, <1>3, NewestIsLargest
  <2> QED BY <1>3, <2>1 DEF IsRichest, ContainsMetric
<1>4. CASE C # {}
  <2>1. \A i \in C : f[i] = sink[i].metrics /\ f[i] \in Nat
    BY <1>1, PayloadTypes
  <2>2. \E x \in C : \A y \in C : f[y] <= f[x]
    <3> HIDE DEF f, C
    <3> QED BY <1>1, <1>4, <2>1, LargestValueExists
  <2>3. B # {}
    BY <2>1, <2>2
  <2>4. Newest(B) \in B /\ \A j \in B : j <= Newest(B)
    <3> HIDE DEF B
    <3> QED BY <1>1, <2>3, NewestIsLargest
  <2> DEFINE x == Newest(B)
  <2>5. x \in S /\ sink[x].target /\ x # 0
    BY <1>1, <2>4 DEF ContainsMetric
  <2>6. ASSUME NEW i \in S, sink[i].target
        PROVE  sink[i].metrics < sink[x].metrics \/ (sink[i].metrics = sink[x].metrics /\ i <= x)
    <3>1. i \in C /\ x \in C
      BY <2>4, <2>6 DEF ContainsMetric
    <3>2. sink[i].metrics \in Nat /\ sink[x].metrics \in Nat /\ sink[i].metrics <= sink[x].metrics
      BY <2>1, <2>4, <3>1
    <3>3. ASSUME sink[i].metrics = sink[x].metrics PROVE i \in B
      BY <2>4, <3>1, <3>3
    <3> HIDE DEF x, B
    <3> QED BY <2>4, <3>2, <3>3 DEF x
  <2> HIDE DEF x
  <2>7. IsRichest(x, S)
    BY <2>5, <2>6 DEF IsRichest
  <2> QED BY <1>2, <2>7 DEF x
<1> QED BY <1>3, <1>4

\* ... and there is only one such payload.
LEMMA RichestUnique ==
  ASSUME TypeOK, NEW S, S \subseteq 1..Len(sink), NEW x \in 0..Len(sink), IsRichest(x, S)
  PROVE  Richest(S) = x
<1> DEFINE y == Richest(S)
<1>1. IsRichest(y, S)
  BY RichestIsRichest
<1> HIDE DEF y
<1>2. CASE x = 0
  BY <1>1, <1>2 DEF IsRichest, y
<1>3. CASE y = 0
  BY <1>1, <1>3 DEF IsRichest, y
<1>4. CASE x # 0 /\ y # 0
  <2>1. x \in S /\ y \in S /\ sink[x].target /\ sink[y].target
    BY <1>1, <1>4 DEF IsRichest
  <2>2. sink[x].metrics \in Nat /\ sink[y].metrics \in Nat
    BY <2>1, PayloadTypes
  <2>3. \/ sink[x].metrics < sink[y].metrics
        \/ sink[x].metrics = sink[y].metrics /\ x <= y
    BY <1>1, <1>4, <2>1 DEF IsRichest
  <2>4. \/ sink[y].metrics < sink[x].metrics
        \/ sink[y].metrics = sink[x].metrics /\ y <= x
    BY <1>4, <2>1 DEF IsRichest
  <2>5. x \in Nat /\ y \in Nat
    BY <2>1
  <2> QED BY <2>2, <2>3, <2>4, <2>5 DEF y
<1> QED BY <1>2, <1>3, <1>4

-----------------------------------------------------------------------------
(* The invariant.                                                          *)

\* What selectMetricSetByCounts returns is a payload of the sink, or nil.
LEMMA ByCountsOfSink ==
  ASSUME TypeOK
  PROVE  ByCounts \in 0..Len(sink)
<1> DEFINE S == {i \in DOMAIN sink : Matches(sink[i])}
<1>1. Len(sink) \in Nat /\ S \subseteq 1..Len(sink)
  BY DEF TypeOK
<1>2. Newest(S) = 0 \/ Newest(S) \in S
  <2> HIDE DEF S
  <2> QED BY <1>1, NewestIsLargest
<1>3. Newest(S) \in 0..Len(sink)
  <2> DEFINE x == Newest(S)
  <2>1. x = 0 \/ x \in 1..Len(sink)
    <3> HIDE DEF S
    <3> QED BY <1>1, <1>2
  <2> HIDE DEF x
  <2>2. x \in 0..Len(sink)
    BY <1>1, <2>1
  <2> QED BY <2>2 DEF x
<1> QED BY <1>3 DEF ByCounts

\* ... and so is what richestMetricSet returns.
LEMMA RichestOfSink ==
  ASSUME TypeOK
  PROVE  Richest(DOMAIN sink) \in 0..Len(sink)
<1>1. Len(sink) \in Nat /\ DOMAIN sink = 1..Len(sink)
  BY DEF TypeOK
<1>2. IsRichest(Richest(1..Len(sink)), 1..Len(sink))
  BY RichestIsRichest
<1> QED BY <1>1, <1>2 DEF IsRichest

\* The indices of the loops stay inside the sink, whatever the receiver appends.
LEMMA TypeStep ==
  ASSUME TypeOK, [Next]_vars
  PROVE  TypeOK'
<1>1. /\ Len(sink) \in Nat /\ Timeout \in Nat /\ Interval \in Nat /\ now \in Nat /\ rest \in Nat
      /\ from \in Nat /\ h \in Nat /\ fallback \in Nat /\ Interval \in 0..Interval
      /\ fallback \in 0..Len(sink) /\ h \in 0..Len(sink)
      /\ Len(sink) \in 0..Len(sink)
  BY SelectionAssumption DEF TypeOK
<1>2. CASE UNCHANGED vars
  BY <1>2 DEF vars, TypeOK
<1>3. CASE CheckDeadline
  BY <1>1, <1>3 DEF CheckDeadline, StartScan, TypeOK
<1>4. CASE ScanStep
  <2>1. h > 0 /\ h' \in {h, h - 1} /\ fallback' \in {fallback, h}
    BY <1>4 DEF ScanStep
  <2>5. h' \in 0..from /\ fallback' \in 0..from
    BY <1>1, <2>1 DEF TypeOK
  <2>2. picked' \in 0..Len(sink) /\ exact' \in BOOLEAN
    BY <1>1, <1>4 DEF ScanStep, Return, TypeOK
  <2>3. at' \in {"check", "scan", "finalScan", "sleep", "done"}
    BY <1>4 DEF ScanStep, Return, TypeOK
  <2>4. UNCHANGED <<mode, now, rest, sink, looked, from>>
    BY <1>4 DEF ScanStep
  <2> QED BY <2>5, <2>2, <2>3, <2>4 DEF TypeOK
<1>5. CASE ScanEnds
  BY <1>1, <1>5 DEF ScanEnds, Sleep, TypeOK
<1>6. CASE Awake
  BY <1>1, <1>6 DEF Awake, TypeOK
<1>7. CASE FinalScanEnds
  BY <1>1, <1>7 DEF FinalScanEnds, Return, TypeOK
<1>8. CASE Poll
  <2>1. picked' \in 0..Len(sink) /\ rest' \in 0..Interval /\ exact' \in BOOLEAN
    BY <1>1, <1>8, ByCountsOfSink DEF Poll, Return, Sleep, TypeOK
  <2>2. at' \in {"check", "scan", "finalScan", "sleep", "done"}
    BY <1>8 DEF Poll, Return, Sleep
  <2>3. looked' = Len(sink) /\ UNCHANGED <<mode, now, sink, from, h, fallback>>
    BY <1>8 DEF Poll
  <2> QED BY <1>1, <2>1, <2>2, <2>3 DEF TypeOK
<1>9. CASE FallBack
  <2>1. picked' \in 0..Len(sink) /\ at' = "done"
    BY <1>9, RichestOfSink DEF FallBack, Return
  <2>2. exact' \in BOOLEAN
    BY <1>9, Zenon DEF FallBack, Return
  <2>3. UNCHANGED <<mode, now, rest, sink, looked, from, h, fallback>>
    BY <1>9 DEF FallBack
  <2> QED BY <2>1, <2>2, <2>3 DEF TypeOK
<1>10. CASE Tick
  BY <1>1, <1>10 DEF Tick, TypeOK
<1>11. ASSUME NEW m \in Payloads, Consume(m) PROVE TypeOK'
  BY <1>1, <1>11 DEF Consume, TypeOK
<1> QED BY <1>2, <1>3, <1>4, <1>5, <1>6, <1>7, <1>8, <1>9, <1>10, <1>11 DEF Next, SelectStep, Done

\* A selection starts with an empty sink.
LEMMA TypeInit ==
  ASSUME Init
  PROVE  TypeOK
<1>1. 0 \in 0..Timeout /\ 0 \in 0..Interval
  BY SelectionAssumption
<1>2. sink \in Seq(Payloads) /\ Len(sink) = 0
  BY DEF Init
<1>3. 0 \in 0..0 /\ from = 0 /\ h = 0 /\ fallback = 0 /\ looked = 0 /\ picked = 0
  BY DEF Init
<1>4. /\ mode \in {"exact", "counts", "assertion"} /\ now = 0 /\ rest = 0 /\ exact \in BOOLEAN
      /\ at \in {"check", "scan", "finalScan", "sleep", "done"}
  BY DEF Init
<1> QED BY <1>1, <1>2, <1>3, <1>4 DEF TypeOK

\* The loops of the selections never index outside the sink.
THEOREM TypeCorrect == Spec => []TypeOK
<1>1. Init => TypeOK
  BY TypeInit
<1>2. TypeOK /\ [Next]_vars => TypeOK'
  BY TypeStep
<1> QED BY <1>1, <1>2, PTL DEF Spec

-----------------------------------------------------------------------------
(* The invariant: what each selection knows so far, and what it returns.   *)

\* While SelectMetricSet's loop runs, no payload above h that was there when the
\* loop started fits, and fallback is the richest of those.
Scanned ==
  at \in {"scan", "finalScan"} =>
    /\ mode = "exact"
    /\ \A i \in (h + 1)..from : ~Fits(sink[i])
    /\ IsRichest(fallback, (h + 1)..from)

\* What SelectMetricSet has returned, of the payloads when its loop started.
ExactOutcome ==
  mode = "exact" /\ at = "done" =>
    /\ exact => /\ picked \in 1..from /\ Fits(sink[picked])
                /\ \A i \in (picked + 1)..from : ~Fits(sink[i])
    /\ ~exact => /\ \A i \in 1..from : ~Fits(sink[i])
                 /\ IsRichest(picked, 1..from)

\* Why the last look of the other two selections did not return.
Refused ==
  LET shaped == {i \in 1..looked : Fits(sink[i])}
  IN  shaped # {} => mode = "assertion" /\ ~sink[Newest(shaped)].good

LastLook == mode # "exact" /\ at \in {"check", "sleep"} => Refused

OtherOutcome == mode # "exact" => ReturnedAsClaimed /\ FallsBackOnlyThen

IInv ==
  /\ TypeOK
  /\ Scanned
  /\ ExactOutcome
  /\ LastLook
  /\ OtherOutcome

\* The properties speak of the counts the selections compare.
LEMMA MatchesFits ==
  ASSUME NEW m
  PROVE  Matches(m) <=> Fits(m)
BY DEF Matches, ContainsMetric, Fits

\* The richest of the payloads above h, once payload h has been looked at.
LEMMA RichestStep ==
  ASSUME TypeOK, h > 0, IsRichest(fallback, (h + 1)..from)
  PROVE  IsRichest(IF ContainsMetric(sink[h]) /\ Better(h) THEN h ELSE fallback, h..from)
<1> DEFINE S == (h + 1)..from
<1>1. /\ h \in Nat /\ from \in Nat /\ fallback \in 0..from /\ Len(sink) \in Nat
      /\ h \in h..from
      /\ \A i \in h..from : i = h \/ (i \in S /\ h < i)
      /\ \A i \in S : i \in h..from /\ h < i /\ i \in 1..Len(sink)
      /\ h \in 1..Len(sink)
  BY DEF TypeOK
<1> HIDE DEF S
<1>2. \A i \in 1..Len(sink) : sink[i].metrics \in Nat
  BY PayloadTypes
<1>3. CASE ContainsMetric(sink[h]) /\ Better(h)
  <2>1. sink[h].target /\ h # 0
    BY <1>1, <1>3 DEF ContainsMetric
  <2>2. ASSUME NEW i \in h..from, sink[i].target
        PROVE  sink[i].metrics < sink[h].metrics \/ (sink[i].metrics = sink[h].metrics /\ i <= h)
    <3>1. CASE i = h
      BY <1>1, <3>1
    <3>2. CASE i \in S
      <4>1. fallback # 0
        BY <2>2, <3>2 DEF IsRichest, S
      <4>2. sink[h].metrics > sink[fallback].metrics /\ fallback \in S
        BY <1>3, <4>1 DEF Better, IsRichest, S
      <4>3. sink[i].metrics < sink[fallback].metrics \/ sink[i].metrics = sink[fallback].metrics
        BY <2>2, <3>2, <4>1 DEF IsRichest, S
      <4>4. sink[i].metrics \in Nat /\ sink[h].metrics \in Nat /\ sink[fallback].metrics \in Nat
        BY <1>1, <1>2, <3>2, <4>2
      <4> QED BY <4>2, <4>3, <4>4
    <3> QED BY <1>1, <3>1, <3>2
  <2>3. IsRichest(h, h..from)
    BY <1>1, <2>1, <2>2 DEF IsRichest
  <2> QED BY <1>3, <2>3
<1>4. CASE ~(ContainsMetric(sink[h]) /\ Better(h))
  <2>1. CASE fallback = 0
    <3>1. ~sink[h].target /\ \A i \in S : ~sink[i].target
      BY <1>4, <2>1 DEF Better, ContainsMetric, IsRichest, S
    <3>2. IsRichest(fallback, h..from)
      BY <1>1, <2>1, <3>1 DEF IsRichest
    <3> QED BY <1>4, <3>2
  <2>2. CASE fallback # 0
    <3>1. /\ fallback \in S /\ sink[fallback].target
          /\ \A i \in S : sink[i].target =>
               \/ sink[i].metrics < sink[fallback].metrics
               \/ sink[i].metrics = sink[fallback].metrics /\ i <= fallback
      BY <2>2 DEF IsRichest, S
    <3>2. sink[h].target => ~(sink[h].metrics > sink[fallback].metrics)
      BY <1>4, <2>2 DEF Better, ContainsMetric
    <3>3. sink[h].metrics \in Nat /\ sink[fallback].metrics \in Nat /\ h < fallback /\ fallback \in Nat
      BY <1>1, <1>2, <3>1
    <3>4. sink[h].target => \/ sink[h].metrics < sink[fallback].metrics
                            \/ sink[h].metrics = sink[fallback].metrics /\ h <= fallback
      BY <1>1, <3>2, <3>3
    <3>5. IsRichest(fallback, h..from)
      BY <1>1, <2>2, <3>1, <3>4 DEF IsRichest
    <3> QED BY <1>4, <3>5
  <2> QED BY <2>1, <2>2
<1> QED BY <1>3, <1>4

\* selectMetricSetByCounts returns the newest payload that fits.
LEMMA ByCountsIsNewestFit ==
  ASSUME TypeOK
  PROVE  LET shaped == {i \in 1..Len(sink) : Fits(sink[i])}
         IN  /\ ByCounts = Newest(shaped)
             /\ shaped = {} <=> ByCounts = 0
             /\ ByCounts # 0 => ByCounts \in 1..Len(sink) /\ Fits(sink[ByCounts])
<1> DEFINE shaped == {i \in 1..Len(sink) : Fits(sink[i])}
<1>1. Len(sink) \in Nat /\ DOMAIN sink = 1..Len(sink)
  BY DEF TypeOK
<1>2. {i \in DOMAIN sink : Matches(sink[i])} = shaped
  BY <1>1, MatchesFits
<1>3. ByCounts = Newest(shaped)
  BY <1>2 DEF ByCounts
<1>4. shaped \subseteq 1..Len(sink) /\ \A i \in shaped : Fits(sink[i]) /\ i # 0
  BY <1>1
<1> HIDE DEF shaped
<1>5. (shaped = {} => ByCounts = 0) /\ (shaped # {} => ByCounts \in shaped)
  BY <1>1, <1>3, <1>4, NewestIsLargest
<1>6. (shaped = {} <=> ByCounts = 0) /\ (ByCounts # 0 => ByCounts \in 1..Len(sink) /\ Fits(sink[ByCounts]))
  BY <1>4, <1>5
<1> QED BY <1>3, <1>6 DEF shaped

-----------------------------------------------------------------------------
(* Every step preserves the invariant.                                     *)

\* Steps that only let time pass.
LEMMA WaitStep ==
  ASSUME IInv, TypeOK', UNCHANGED <<mode, sink, looked, from, h, fallback, picked, exact>>,
         at' = at \/ (at = "sleep" /\ at' = "check")
  PROVE  IInv'
<1>1. Scanned'
  BY DEF IInv, Scanned, IsRichest, Fits
<1>2. ExactOutcome'
  BY DEF IInv, ExactOutcome, IsRichest, Fits
<1>3. LastLook'
  <2>1. Refused' <=> Refused
    BY DEF Refused, Fits
  <2> QED BY <2>1 DEF IInv, LastLook
<1>4. OtherOutcome'
  BY DEF IInv, OtherOutcome, ReturnedAsClaimed, FallsBackOnlyThen, Fits
<1> QED BY <1>1, <1>2, <1>3, <1>4 DEF IInv

\* A payload arrives: what was said about the older ones stays true.
LEMMA ConsumeStep ==
  ASSUME IInv, TypeOK', NEW m \in Payloads, Consume(m)
  PROVE  IInv'
<1>1. /\ Len(sink) \in Nat /\ \A i \in 1..Len(sink) : sink'[i] = sink[i]
      /\ at # "done"
      /\ UNCHANGED <<mode, at, looked, from, h, fallback, picked, exact>>
  BY DEF Consume, IInv, TypeOK
<1>2. looked \in Nat /\ looked <= Len(sink) /\ from \in Nat /\ from <= Len(sink) /\ h \in Nat
      /\ fallback \in 0..from
  BY <1>1 DEF IInv, TypeOK
<1>3. Scanned'
  <2> SUFFICES ASSUME at \in {"scan", "finalScan"}
               PROVE  Scanned'
    BY <1>1 DEF Scanned
  <2>1. /\ mode = "exact"
        /\ \A i \in (h + 1)..from : ~Fits(sink[i])
        /\ IsRichest(fallback, (h + 1)..from)
    BY DEF IInv, Scanned
  <2>2. \A i \in (h + 1)..from : i \in 1..Len(sink) /\ sink'[i] = sink[i]
    BY <1>1, <1>2
  <2>3. \A i \in (h + 1)..from : ~Fits(sink'[i])
    BY <2>1, <2>2
  <2>4. IsRichest(fallback, (h + 1)..from)'
    <3> DEFINE S == (h + 1)..from
    <3>1. S' = S /\ fallback' = fallback /\ \A i \in S : sink'[i] = sink[i]
      BY <1>1, <2>2
    <3>2. IsRichest(fallback, S)
      BY <2>1
    <3> HIDE DEF S
    <3>3. IsRichest(fallback, S)'
      BY <3>1, <3>2 DEF IsRichest
    <3> QED BY <3>3 DEF S
  <2> QED BY <1>1, <2>1, <2>3, <2>4 DEF Scanned
<1>4. ExactOutcome' /\ OtherOutcome'
  BY <1>1 DEF ExactOutcome, OtherOutcome, ReturnedAsClaimed, FallsBackOnlyThen
<1>5. LastLook'
  <2> DEFINE shaped == {i \in 1..looked : Fits(sink[i])}
  <2>1. \A i \in 1..looked : i \in 1..Len(sink) /\ sink'[i] = sink[i]
    BY <1>1, <1>2
  <2>2. shaped' = shaped /\ looked' = looked
    BY <1>1, <2>1 DEF Fits
  <2>3. shaped # {} => sink'[Newest(shaped)] = sink[Newest(shaped)]
    <3>1. shaped \subseteq 1..looked
      OBVIOUS
    <3> HIDE DEF shaped
    <3>2. shaped # {} => Newest(shaped) \in 1..looked
      BY <1>2, <3>1, NewestIsLargest
    <3> QED BY <2>1, <3>2
  <2>4. Newest(shaped)' = Newest(shaped)
    <3> HIDE DEF shaped
    <3> QED BY <2>2 DEF Newest
  <2>5. Refused => Refused'
    <3> SUFFICES ASSUME Refused, shaped' # {}
                 PROVE  mode' = "assertion" /\ ~sink'[Newest(shaped)'].good
      BY DEF Refused
    <3>1. shaped # {} /\ mode = "assertion" /\ ~sink[Newest(shaped)].good
      BY <2>2 DEF Refused
    <3> HIDE DEF shaped
    <3> QED BY <1>1, <2>3, <2>4, <3>1
  <2> QED BY <1>1, <2>5 DEF IInv, LastLook
<1> QED BY <1>3, <1>4, <1>5 DEF IInv

\* SelectMetricSet: one attempt begins, goes on, or ends.
LEMMA ExactStep ==
  ASSUME IInv, TypeOK', CheckDeadline \/ ScanStep \/ ScanEnds \/ FinalScanEnds
  PROVE  IInv'
<1>0. /\ Len(sink) \in Nat /\ h \in Nat /\ from \in Nat
      /\ fallback \in 0..from /\ h \in 0..from
  BY DEF IInv, TypeOK
<1>1. mode = "exact" /\ mode' = mode /\ sink' = sink
  BY DEF IInv, Scanned, CheckDeadline, ScanStep, ScanEnds, FinalScanEnds
<1>2. LastLook' /\ OtherOutcome'
  BY <1>1 DEF LastLook, OtherOutcome
<1>3. CASE CheckDeadline
  <2>1. at' \in {"scan", "finalScan"} /\ from' = Len(sink) /\ h' = Len(sink) /\ fallback' = 0
    BY <1>3 DEF CheckDeadline, StartScan
  <2>2. (h' + 1)..from' = {}
    BY <1>0, <2>1
  <2>3. IsRichest(fallback, (h + 1)..from)'
    BY <2>1, <2>2 DEF IsRichest
  <2>4. Scanned'
    BY <1>1, <2>2, <2>3 DEF Scanned
  <2> QED BY <1>2, <2>1, <2>4 DEF IInv, ExactOutcome
<1>4. CASE ScanStep
  <2>1. /\ h > 0 /\ from' = from
        /\ \A i \in (h + 1)..from : ~Fits(sink[i])
        /\ IsRichest(fallback, (h + 1)..from)
    BY <1>4 DEF IInv, Scanned, ScanStep
  <2>2. CASE Matches(sink[h])
    <3>1. at' = "done" /\ picked' = h /\ exact' = TRUE
      BY <1>4, <2>2 DEF ScanStep, Return
    <3>2. Fits(sink[h]) /\ h \in 1..from
      BY <1>0, <2>1, <2>2, MatchesFits
    <3>3. ExactOutcome'
      BY <1>1, <2>1, <3>1, <3>2 DEF ExactOutcome, Fits
    <3>4. Scanned'
      BY <3>1 DEF Scanned
    <3> QED BY <1>2, <3>3, <3>4 DEF IInv
  <2>3. CASE ~Matches(sink[h])
    <3>1. /\ at' = at /\ at # "done" /\ h' = h - 1
          /\ fallback' = IF ContainsMetric(sink[h]) /\ Better(h) THEN h ELSE fallback
      BY <1>4, <2>3 DEF ScanStep
    <3>2. (h' + 1)..from' = h..from
      BY <1>0, <2>1, <3>1
    <3>3. \A i \in h..from : ~Fits(sink[i])
      <4>1. \A i \in h..from : i = h \/ i \in (h + 1)..from
        BY <1>0
      <4>2. ~Fits(sink[h])
        BY <2>3, MatchesFits
      <4> QED BY <2>1, <4>1, <4>2
    <3>4. IsRichest(fallback, (h + 1)..from)'
      <4>1. IsRichest(fallback', h..from)
        BY <2>1, <3>1, RichestStep DEF IInv
      <4> DEFINE S == h..from
      <4> HIDE DEF S
      <4>2. ((h + 1)..from)' = S
        BY <3>2 DEF S
      <4>3. IsRichest(fallback', S)
        BY <4>1 DEF S
      <4> QED BY <1>1, <4>2, <4>3 DEF IsRichest
    <3>5. Scanned'
      <4>1. \A i \in ((h + 1)..from)' : ~Fits(sink'[i])
        BY <1>1, <3>2, <3>3
      <4> QED BY <1>1, <3>4, <4>1 DEF Scanned
    <3> QED BY <1>2, <3>1, <3>5 DEF IInv, ExactOutcome
  <2> QED BY <2>2, <2>3
<1>5. CASE ScanEnds
  BY <1>2, <1>5 DEF ScanEnds, Sleep, IInv, Scanned, ExactOutcome
<1>6. CASE FinalScanEnds
  <2>1. at' = "done" /\ picked' = fallback /\ exact' = FALSE /\ from' = from /\ h = 0
    BY <1>6 DEF FinalScanEnds, Return
  <2>2. (\A i \in 1..from : ~Fits(sink[i])) /\ IsRichest(fallback, 1..from)
    BY <1>0, <1>6, <2>1 DEF FinalScanEnds, IInv, Scanned
  <2>3. ExactOutcome'
    BY <1>1, <2>1, <2>2 DEF ExactOutcome, IsRichest, Fits
  <2> QED BY <1>2, <2>1, <2>3 DEF IInv, Scanned
<1> QED BY <1>3, <1>4, <1>5, <1>6

\* A look of selectMetricSetByCountsWithTimeout or
\* selectMetricSetByAssertionWithTimeout, before the deadline.
LEMMA PollStep ==
  ASSUME IInv, TypeOK', Poll
  PROVE  IInv'
<1> DEFINE shaped == {i \in 1..Len(sink) : Fits(sink[i])}
<1>1. /\ mode # "exact" /\ mode' = mode /\ sink' = sink /\ looked' = Len(sink)
  BY DEF Poll
<1>2. /\ ByCounts = Newest(shaped)
      /\ shaped = {} <=> ByCounts = 0
      /\ ByCounts # 0 => ByCounts \in 1..Len(sink) /\ Fits(sink[ByCounts])
  BY ByCountsIsNewestFit DEF IInv
<1>3. at' \in {"done", "sleep"}
  BY DEF Poll, Return, Sleep
<1>4. Scanned' /\ ExactOutcome'
  BY <1>1, <1>3 DEF Scanned, ExactOutcome
<1>5. CASE Accepts(ByCounts)
  <2>1. at' = "done" /\ picked' = ByCounts /\ exact' = TRUE
    BY <1>5 DEF Poll, Return
  <2>2. ByCounts # 0 /\ Fits(sink[ByCounts]) /\ (mode = "assertion" => sink[ByCounts].good)
    BY <1>2, <1>5 DEF Accepts
  <2>3. ReturnedAsClaimed' /\ FallsBackOnlyThen'
    BY <1>1, <2>1, <2>2 DEF ReturnedAsClaimed, FallsBackOnlyThen, Fits
  <2> QED BY <1>4, <2>1, <2>3 DEF IInv, LastLook, OtherOutcome
<1>6. CASE ~Accepts(ByCounts)
  <2>1. at' = "sleep"
    BY <1>6 DEF Poll, Sleep
  <2>2. shaped # {} => mode = "assertion" /\ ~sink[Newest(shaped)].good
    BY <1>2, <1>6 DEF Accepts
  <2>3. {i \in 1..looked : Fits(sink[i])}' = shaped
    BY <1>1 DEF Fits
  <2>4. Refused'
    BY <1>1, <2>2, <2>3 DEF Refused, Newest
  <2> QED BY <1>4, <2>1, <2>4 DEF IInv, LastLook, OtherOutcome, ReturnedAsClaimed, FallsBackOnlyThen
<1> QED BY <1>5, <1>6

\* ... and what they return after it.
LEMMA FallBackStep ==
  ASSUME IInv, TypeOK', FallBack
  PROVE  IInv'
<1> DEFINE best == Richest(DOMAIN sink)
<1>1. /\ mode # "exact" /\ mode' = mode /\ sink' = sink /\ looked' = looked
      /\ at = "check" /\ at' = "done" /\ picked' = best
      /\ exact' = (mode = "assertion" /\ best # 0 /\ sink[best].good)
  BY DEF FallBack, Return
<1>2. Refused
  BY <1>1 DEF IInv, LastLook
<1>3. IsRichest(best, 1..Len(sink))
  <2>1. DOMAIN sink = 1..Len(sink)
    BY DEF IInv, TypeOK
  <2> QED BY <2>1, RichestIsRichest DEF IInv
<1> HIDE DEF best
<1>4. ReturnedAsClaimed'
  <2>1. best # 0 => sink[best].target
    BY <1>3 DEF IsRichest
  <2>2. exact' => mode = "assertion" /\ sink[best].good
    BY <1>1
  <2>3. best = 0 => \A i \in 1..Len(sink) : ~sink[i].target
    BY <1>3 DEF IsRichest
  <2> QED BY <1>1, <2>1, <2>2, <2>3 DEF ReturnedAsClaimed
<1>5. FallsBackOnlyThen'
  BY <1>1, <1>2 DEF FallsBackOnlyThen, Refused, Fits
<1> QED BY <1>1, <1>4, <1>5 DEF IInv, Scanned, ExactOutcome, LastLook, OtherOutcome

\* The invariant holds throughout every selection.
THEOREM Invariant == Spec => []IInv
<1>1. Init => IInv
  <2> SUFFICES ASSUME Init PROVE IInv
    OBVIOUS
  <2>1. TypeOK
    BY TypeInit
  <2>2. Scanned /\ ExactOutcome /\ OtherOutcome
    BY DEF Init, Scanned, ExactOutcome, OtherOutcome, ReturnedAsClaimed, FallsBackOnlyThen
  <2>3. LastLook
    BY DEF Init, LastLook, Refused
  <2> QED BY <2>1, <2>2, <2>3 DEF IInv
<1>2. IInv /\ [Next]_vars => IInv'
  <2> SUFFICES ASSUME IInv, [Next]_vars PROVE IInv'
    OBVIOUS
  <2>1. TypeOK'
    BY TypeStep DEF IInv
  <2>2. CASE CheckDeadline \/ ScanStep \/ ScanEnds \/ FinalScanEnds
    BY <2>1, <2>2, ExactStep
  <2>3. CASE Poll
    BY <2>1, <2>3, PollStep
  <2>4. CASE FallBack
    BY <2>1, <2>4, FallBackStep
  <2>5. CASE Awake \/ Tick \/ UNCHANGED vars
    BY <2>1, <2>5, WaitStep DEF Awake, Tick, vars
  <2>6. ASSUME NEW m \in Payloads, Consume(m) PROVE IInv'
    BY <2>1, <2>6, ConsumeStep
  <2> QED BY <2>2, <2>3, <2>4, <2>5, <2>6 DEF Next, SelectStep, Done
<1> QED BY <1>1, <1>2, PTL DEF Spec

-----------------------------------------------------------------------------
(* What the tests rely on.                                                 *)

\* SelectMetricSet, which reads the sink again for every payload, returns what
\* one look at the payloads present when it started would have found.
THEOREM ScanIsOneLook == Spec => []OneLook
<1>1. IInv => OneLook
  <2> SUFFICES ASSUME IInv, mode = "exact", at = "done" PROVE OneLook
    BY DEF OneLook
  <2> DEFINE fitting == {i \in 1..from : Fits(sink[i])}
  <2>1. /\ Len(sink) \in Nat /\ from \in Nat /\ 1..from \subseteq 1..Len(sink)
        /\ picked \in 0..Len(sink) /\ TypeOK /\ exact \in BOOLEAN
    BY DEF IInv, TypeOK
  <2>2. CASE exact
    <3>1. /\ picked \in 1..from /\ Fits(sink[picked])
          /\ \A i \in (picked + 1)..from : ~Fits(sink[i])
      BY <2>2 DEF IInv, ExactOutcome
    <3>2. picked \in fitting /\ fitting \subseteq 1..from
      BY <3>1
    <3>3. ASSUME NEW j \in fitting PROVE j <= picked
      <4>1. j \in 1..from /\ Fits(sink[j])
        OBVIOUS
      <4>2. ~(j \in (picked + 1)..from)
        BY <3>1, <4>1
      <4> QED BY <2>1, <3>1, <4>1, <4>2
    <3>4. Newest(fitting) = picked /\ fitting # {}
      <4> HIDE DEF fitting
      <4> QED BY <2>1, <3>2, <3>3, NewestUnique
    <3> QED BY <2>2, <3>4 DEF OneLook
  <2>3. CASE ~exact
    <3>1. (\A i \in 1..from : ~Fits(sink[i])) /\ IsRichest(picked, 1..from)
      BY <2>3 DEF IInv, ExactOutcome
    <3>2. Richest(1..from) = picked
      BY <2>1, <3>1, RichestUnique
    <3>3. fitting = {}
      BY <3>1
    <3> QED BY <2>3, <3>2, <3>3 DEF OneLook
  <2> QED BY <2>2, <2>3
<1> QED BY <1>1, Invariant, PTL

\* Whatever arrives meanwhile, a payload is returned as a match only if it is
\* one, and nil only if no payload of the last look has the target metric.
THEOREM AsClaimed == Spec => []ReturnedAsClaimed
<1>1. IInv => ReturnedAsClaimed
  <2> SUFFICES ASSUME IInv, mode = "exact", at = "done" PROVE ReturnedAsClaimed
    BY DEF IInv, OtherOutcome, ReturnedAsClaimed
  <2>1. CASE exact
    <3>1. picked \in 1..from /\ Fits(sink[picked]) /\ from \in Nat
      BY <2>1 DEF IInv, ExactOutcome, TypeOK
    <3>2. picked # 0
      BY <3>1
    <3> QED BY <3>1, <3>2 DEF ReturnedAsClaimed, Fits
  <2>2. CASE ~exact
    <3>1. IsRichest(picked, 1..from)
      BY <2>2 DEF IInv, ExactOutcome
    <3> QED BY <2>2, <3>1 DEF ReturnedAsClaimed, IsRichest
  <2> QED BY <2>1, <2>2
<1> QED BY <1>1, Invariant, PTL

\* A batch of another shape is taken only when the last look before the deadline
\* found none of the expected shape that passes.
THEOREM FallsBackLast == Spec => []FallsBackOnlyThen
<1>1. IInv => FallsBackOnlyThen
  BY DEF IInv, OtherOutcome, FallsBackOnlyThen
<1> QED BY <1>1, Invariant, PTL

-----------------------------------------------------------------------------
(* Batches while they are prepared: positions may be missing.              *)

\* Datapoints at some positions, with the hash that keepFirstDatapoint sorts by.
PointsOK(dps, c) ==
  /\ dps = [j \in DOMAIN dps |-> dps[j]]
  /\ DOMAIN dps \subseteq Nat
  /\ IsFiniteSet(DOMAIN dps)
  /\ \A j \in DOMAIN dps :
       /\ dps[j] = [attrs |-> dps[j].attrs, bounds |-> dps[j].bounds]
       /\ Hash(SortableAttrs(dps[j].attrs, FlexibleAttrs(c))) \in Nat

\* A metric, a resource and a batch are made of such datapoints.
MetricOK(m, c) ==
  m = [name |-> m.name, type |-> m.type, dps |-> m.dps] /\ PointsOK(m.dps, c)

ResourceOK(r, c) ==
  /\ r = [attrs |-> r.attrs, version |-> r.version, metrics |-> r.metrics]
  /\ r.metrics \in Seq(Range(r.metrics))
  /\ \A k \in DOMAIN r.metrics : MetricOK(r.metrics[k], c)

BatchOK(b, c) == b \in Seq(Range(b)) /\ \A i \in DOMAIN b : ResourceOK(b[i], c)

\* m with some of the datapoints of n.
PartOf(m, n) ==
  /\ m.name = n.name /\ m.type = n.type
  /\ DOMAIN m.dps \subseteq DOMAIN n.dps
  /\ \A j \in DOMAIN m.dps : m.dps[j] = n.dps[j]

\* What the tests select is well formed.
LEMMA BatchesOK ==
  ASSUME NEW b \in Batches, NEW c \in Options
  PROVE  BatchOK(b, c) /\ c.max \in Int
<1>1. ASSUME NEW i \in DOMAIN b, NEW k \in DOMAIN b[i].metrics PROVE MetricOK(b[i].metrics[k], c)
  <2> DEFINE m == b[i].metrics[k]
  <2>1. /\ m = [name |-> m.name, type |-> m.type, dps |-> m.dps]
        /\ m.dps \in Seq(Range(m.dps))
        /\ \A j \in DOMAIN m.dps :
              /\ m.dps[j] = [attrs |-> m.dps[j].attrs, bounds |-> m.dps[j].bounds]
              /\ Hash(SortableAttrs(m.dps[j].attrs, FlexibleAttrs(c))) \in Nat
    BY BatchAssumption
  <2> HIDE DEF m
  <2>2. PICK n \in Nat : DOMAIN m.dps = 1..n /\ m.dps = [j \in 1..n |-> m.dps[j]]
    BY <2>1
  <2>3. IsFiniteSet(DOMAIN m.dps) /\ DOMAIN m.dps \subseteq Nat
    BY <2>2, FS_Interval
  <2> QED BY <2>1, <2>2, <2>3 DEF MetricOK, PointsOK, m
<1> QED BY <1>1, BatchAssumption DEF BatchOK, ResourceOK

\* There are finitely many resources, and metrics of each.
LEMMA FinitelyMany ==
  ASSUME NEW c
  PROVE  /\ \A b : BatchOK(b, c) => IsFiniteSet(DOMAIN b)
         /\ \A r : ResourceOK(r, c) => IsFiniteSet(DOMAIN r.metrics)
<1>1. ASSUME NEW s, s \in Seq(Range(s)) PROVE IsFiniteSet(DOMAIN s)
  <2>1. PICK n \in Nat : DOMAIN s = 1..n
    BY <1>1
  <2> QED BY <2>1, FS_Interval
<1> QED BY <1>1 DEF BatchOK, ResourceOK

\* A metric with fewer datapoints.
LEMMA RestrictedMetric ==
  ASSUME NEW m, NEW c, MetricOK(m, c), NEW S, S \subseteq DOMAIN m.dps
  PROVE  LET r == [m EXCEPT !.dps = Restrict(@, S)] IN
           MetricOK(r, c) /\ PartOf(r, m) /\ DOMAIN r.dps = S /\ (S = DOMAIN m.dps => r = m)
<1> DEFINE r == [m EXCEPT !.dps = Restrict(@, S)]
           nm == m.name
           tp == m.type
           dps == m.dps
<1>1. m = [name |-> nm, type |-> tp, dps |-> dps] /\ PointsOK(dps, c)
  BY DEF MetricOK
<1> HIDE DEF nm, tp, dps
<1>2. r = [name |-> nm, type |-> tp, dps |-> Restrict(dps, S)]
  BY <1>1
<1>3. PointsOK(Restrict(dps, S), c)
  BY <1>1, FS_Subset DEF PointsOK, Restrict, dps
<1>4. S = DOMAIN dps => Restrict(dps, S) = dps
  BY <1>1 DEF PointsOK, Restrict
<1> HIDE DEF r
<1>5. DOMAIN r.dps = S /\ \A j \in S : r.dps[j] = dps[j]
  BY <1>2 DEF Restrict
<1>6. MetricOK(r, c)
  BY <1>2, <1>3 DEF MetricOK
<1>7. PartOf(r, m)
  BY <1>1, <1>2, <1>5 DEF PartOf
<1>8. S = DOMAIN m.dps => r = m
  BY <1>1, <1>2, <1>4
<1> QED BY <1>5, <1>6, <1>7, <1>8 DEF r

\* A part of a part is a part.
LEMMA PartOfPart ==
  ASSUME NEW l, NEW m, NEW n, PartOf(l, m), PartOf(m, n)
  PROVE  PartOf(l, n)
BY DEF PartOf

\* Every metric is part of itself.
LEMMA PartOfItself ==
  ASSUME NEW m
  PROVE  PartOf(m, m)
BY DEF PartOf

\* Reducing the datapoints leaves some of them, and nothing to reduce in what
\* is left of them.
LEMMA Reduced ==
  ASSUME NEW c, NEW m, MetricOK(m, c), c.max \in Int
  PROVE  LET r == ReduceDatapoints(m, c.max) IN
           /\ MetricOK(r, c) /\ PartOf(r, m)
           /\ \A n : MetricOK(n, c) /\ PartOf(n, r) => ReduceDatapoints(n, c.max) = n
<1> DEFINE max == c.max
           D == DOMAIN m.dps
           S == {j \in D : Cardinality({l \in D : l <= j}) <= max}
           r == ReduceDatapoints(m, max)
<1>1. CASE m.type = "exponential"
  BY <1>1, PartOfItself DEF ReduceDatapoints, PartOf
<1>2. CASE m.type # "exponential"
  <2>1. r = [m EXCEPT !.dps = Restrict(@, S)]
    BY <1>2 DEF ReduceDatapoints
  <2>2. MetricOK(r, c) /\ PartOf(r, m) /\ DOMAIN r.dps = S
    <3>1. S \subseteq DOMAIN m.dps
      OBVIOUS
    <3> HIDE DEF S, r
    <3> QED BY <2>1, <3>1, RestrictedMetric
  <2> HIDE DEF r
  <2>3. ASSUME NEW n, MetricOK(n, c), PartOf(n, r) PROVE ReduceDatapoints(n, max) = n
    <3> DEFINE E == DOMAIN n.dps
               T == {j \in E : Cardinality({l \in E : l <= j}) <= max}
    <3>1. E \subseteq S /\ n.type = m.type
      BY <2>2, <2>3 DEF PartOf
    <3>2. ASSUME NEW j \in E PROVE Cardinality({l \in E : l <= j}) <= max
      <4> DEFINE A == {l \in E : l <= j}
                 B == {l \in D : l <= j}
      <4>1. Cardinality(B) <= max /\ B \in SUBSET D /\ A \in SUBSET B
        BY <3>1
      <4>2. IsFiniteSet(D)
        BY DEF MetricOK, PointsOK
      <4> HIDE DEF A, B, D, E
      <4>3. IsFiniteSet(B)
        BY <4>1, <4>2, FS_Subset
      <4>4. IsFiniteSet(A) /\ Cardinality(A) <= Cardinality(B)
        BY <4>1, <4>3, FS_Subset
      <4>5. Cardinality(A) \in Nat /\ Cardinality(B) \in Nat
        BY <4>3, <4>4, FS_CardinalityType
      <4>6. Cardinality(A) <= max
        BY <4>1, <4>4, <4>5
      <4> QED BY <4>6 DEF A
    <3>3. T = E
      BY <3>2
    <3>4. ReduceDatapoints(n, max) = [n EXCEPT !.dps = Restrict(@, T)]
      BY <1>2, <3>1 DEF ReduceDatapoints
    <3> QED
      <4> HIDE DEF T, E
      <4>1. T \subseteq DOMAIN n.dps /\ T = DOMAIN n.dps
        BY <3>3 DEF E
      <4> QED BY <2>3, <3>4, <4>1, RestrictedMetric
  <2> QED BY <2>2, <2>3 DEF r
<1> QED BY <1>1, <1>2

\* The datapoint i of m comes first.
IsFirst(i, m, flexible) ==
  \A j \in DOMAIN m.dps :
    LET x == Hash(SortableAttrs(m.dps[i].attrs, flexible))
        y == Hash(SortableAttrs(m.dps[j].attrs, flexible))
    IN  x < y \/ (x = y /\ i <= j)

\* keepFirstDatapoint keeps a datapoint that comes first.
LEMMA FirstDatapoint ==
  ASSUME NEW c, NEW m, MetricOK(m, c), NEW flexible, flexible = FlexibleAttrs(c), DOMAIN m.dps # {}
  PROVE  \E f \in DOMAIN m.dps :
           /\ IsFirst(f, m, flexible)
           /\ KeepFirstDatapoint(m, flexible) = [m EXCEPT !.dps = Restrict(@, {f})]
<1> DEFINE Rank(i) == Hash(SortableAttrs(m.dps[i].attrs, flexible))
           D == DOMAIN m.dps
           first == CHOOSE i \in D : IsFirst(i, m, flexible)
<1>1. D \subseteq Nat /\ \A j \in D : Rank(j) \in Nat
  BY DEF MetricOK, PointsOK
<1>2. \A i : IsFirst(i, m, flexible) <=>
               \A j \in D : Rank(i) < Rank(j) \/ (Rank(i) = Rank(j) /\ i <= j)
  BY DEF IsFirst
<1>3. KeepFirstDatapoint(m, flexible) = [m EXCEPT !.dps = Restrict(@, {first})]
  BY DEF KeepFirstDatapoint, IsFirst
<1>4. first \in D /\ IsFirst(first, m, flexible)
  <2>1. D # {}
    OBVIOUS
  <2> HIDE DEF Rank, D
  <2> DEFINE Ranks == {Rank(j) : j \in D}
  <2>2. PICK x \in Ranks : \A y \in Ranks : x <= y
    <3>1. Ranks \subseteq Nat /\ Ranks # {}
      BY <1>1, <2>1
    <3> QED BY <3>1, SmallestExists
  <2> DEFINE Best == {j \in D : Rank(j) = x}
  <2>3. PICK i \in Best : \A j \in Best : i <= j
    <3>1. Best \subseteq Nat /\ Best # {}
      BY <1>1
    <3> QED BY <3>1, SmallestExists
  <2>4. ASSUME NEW j \in D PROVE Rank(i) < Rank(j) \/ (Rank(i) = Rank(j) /\ i <= j)
    <3>1. /\ x <= Rank(j) /\ x = Rank(i) /\ (Rank(j) = x => i <= j)
          /\ Rank(j) \in Nat /\ Rank(i) \in Nat
      BY <1>1, <2>2, <2>3
    <3> QED BY <3>1
  <2>5. i \in D /\ IsFirst(i, m, flexible)
    BY <1>2, <2>4
  <2> QED BY <2>5
<1> HIDE DEF first
<1> QED BY <1>3, <1>4

\* Keeping the first datapoint leaves one, if there is any, and nothing to
\* do a second time.
LEMMA KeptFirst ==
  ASSUME NEW c, NEW m, MetricOK(m, c), NEW flexible, flexible = FlexibleAttrs(c)
  PROVE  LET r == KeepFirstDatapoint(m, flexible) IN
           MetricOK(r, c) /\ PartOf(r, m) /\ KeepFirstDatapoint(r, flexible) = r
<1> DEFINE r == KeepFirstDatapoint(m, flexible)
<1>1. CASE DOMAIN m.dps = {}
  BY <1>1, PartOfItself DEF KeepFirstDatapoint
<1>2. CASE DOMAIN m.dps # {}
  <2>1. PICK f \in DOMAIN m.dps : r = [m EXCEPT !.dps = Restrict(@, {f})]
    <3>1. PICK f \in DOMAIN m.dps :
            IsFirst(f, m, flexible) /\ KeepFirstDatapoint(m, flexible) = [m EXCEPT !.dps = Restrict(@, {f})]
      BY <1>2, FirstDatapoint
    <3> QED BY <3>1
  <2> HIDE DEF r
  <2>2. MetricOK(r, c) /\ PartOf(r, m) /\ DOMAIN r.dps = {f}
    BY <2>1, RestrictedMetric
  <2>3. PICK g \in DOMAIN r.dps : KeepFirstDatapoint(r, flexible) = [r EXCEPT !.dps = Restrict(@, {g})]
    BY <2>2, FirstDatapoint
  <2>4. {g} = DOMAIN r.dps
    BY <2>2
  <2>5. KeepFirstDatapoint(r, flexible) = r
    BY <2>2, <2>3, <2>4, RestrictedMetric
  <2> QED BY <2>2, <2>5 DEF r
<1> QED BY <1>1, <1>2

\* PrepareMetric leaves some of the datapoints, and nothing to do in what is
\* left of them.
LEMMA MetricPrepared ==
  ASSUME NEW c, NEW m, MetricOK(m, c), c.max \in Int
  PROVE  LET r == PrepareMetric(m, c) IN
           MetricOK(r, c) /\ PartOf(r, m) /\ PrepareMetric(r, c) = r
<1> DEFINE l == IF c.max > 0 THEN ReduceDatapoints(m, c.max) ELSE m
           r == PrepareMetric(m, c)
           Again(n) == IF c.max > 0 THEN ReduceDatapoints(n, c.max) ELSE n
<1>1. r = IF m.name \in c.first THEN KeepFirstDatapoint(l, FlexibleAttrs(c)) ELSE l
  BY DEF PrepareMetric
<1>2. /\ MetricOK(l, c) /\ PartOf(l, m)
      /\ \A n : MetricOK(n, c) /\ PartOf(n, l) => Again(n) = n
  <2>1. CASE c.max > 0
    BY <2>1, Reduced
  <2>2. CASE ~(c.max > 0)
    BY <2>2, PartOfItself
  <2> QED BY <2>1, <2>2
<1>3. PrepareMetric(r, c) =
        IF r.name \in c.first THEN KeepFirstDatapoint(Again(r), FlexibleAttrs(c)) ELSE Again(r)
  BY DEF PrepareMetric
<1> HIDE DEF l, Again, r
<1>4. /\ MetricOK(r, c) /\ PartOf(r, l)
      /\ m.name \in c.first => KeepFirstDatapoint(r, FlexibleAttrs(c)) = r
  BY <1>1, <1>2, KeptFirst, PartOfItself
<1>5. PartOf(r, m) /\ Again(r) = r
  BY <1>2, <1>4, PartOfPart
<1>6. r.name = m.name
  BY <1>5 DEF PartOf
<1> QED BY <1>3, <1>4, <1>5, <1>6 DEF r

-----------------------------------------------------------------------------
(* The preparation as a whole.                                             *)

\* What is left of the metric at i, k.
Left(b, c, i, k) ==
  LET m == b[i].metrics[k] IN
  IF <<i, k>> \in GetMetric(b, c.selected.name) /\ m.type \in {"gauge", "sum"}
    THEN ChosenDatapoints(m, c) ELSE m

\* prepareMetricsAssertion, metric by metric.
LEMMA PrepareIs ==
  ASSUME NEW b, NEW c, BatchOK(b, c)
  PROVE  Prepare(b, c) =
           [i \in DOMAIN b |->
              [attrs |-> b[i].attrs, version |-> b[i].version,
               metrics |-> [k \in DOMAIN b[i].metrics |-> PrepareMetric(Left(b, c, i, k), c)]]]
<1> DEFINE R == RetainSelectedNumberDatapoint(b, c)
<1>1. ASSUME NEW i \in DOMAIN b
      PROVE R[i] = [attrs |-> b[i].attrs, version |-> b[i].version,
                    metrics |-> [k \in DOMAIN b[i].metrics |-> Left(b, c, i, k)]]
  <2> DEFINE x == b[i].attrs
             y == b[i].version
             z == b[i].metrics
  <2>1. b[i] = [attrs |-> x, version |-> y, metrics |-> z]
    BY DEF BatchOK, ResourceOK
  <2>2. R[i] = [b[i] EXCEPT !.metrics = [k \in DOMAIN z |-> Left(b, c, i, k)]]
    <3> DEFINE Cut(k) == IF /\ <<i, k>> \in GetMetric(b, c.selected.name)
                            /\ z[k].type \in {"gauge", "sum"}
                          THEN ChosenDatapoints(z[k], c) ELSE z[k]
    <3>1. R[i] = [b[i] EXCEPT !.metrics = [k \in DOMAIN z |-> Cut(k)]]
      BY DEF RetainSelectedNumberDatapoint
    <3>2. \A k \in DOMAIN z : Cut(k) = Left(b, c, i, k)
      BY DEF Left
    <3> HIDE DEF Cut
    <3>3. [k \in DOMAIN z |-> Cut(k)] = [k \in DOMAIN z |-> Left(b, c, i, k)]
      BY <3>2
    <3> QED BY <3>1, <3>3
  <2> HIDE DEF x, y, z, R
  <2>3. R[i] = [attrs |-> x, version |-> y, metrics |-> [k \in DOMAIN z |-> Left(b, c, i, k)]]
    BY <2>1, <2>2
  <2> QED BY <2>3 DEF x, y, z
<1>2. Prepare(b, c) = [i \in DOMAIN b |->
         [R[i] EXCEPT !.metrics = [k \in DOMAIN @ |-> PrepareMetric(@[k], c)]]]
  BY DEF Prepare
<1> HIDE DEF R
<1>3. ASSUME NEW i \in DOMAIN b
      PROVE [R[i] EXCEPT !.metrics = [k \in DOMAIN @ |-> PrepareMetric(@[k], c)]] =
              [attrs |-> b[i].attrs, version |-> b[i].version,
               metrics |-> [k \in DOMAIN b[i].metrics |-> PrepareMetric(Left(b, c, i, k), c)]]
  <2> DEFINE x == b[i].attrs
             y == b[i].version
             F == [k \in DOMAIN b[i].metrics |-> Left(b, c, i, k)]
  <2>1. R[i] = [attrs |-> x, version |-> y, metrics |-> F]
    BY <1>1
  <2>2. [k \in DOMAIN F |-> PrepareMetric(F[k], c)] =
          [k \in DOMAIN b[i].metrics |-> PrepareMetric(Left(b, c, i, k), c)]
    OBVIOUS
  <2> HIDE DEF x, y, F
  <2>3. [R[i] EXCEPT !.metrics = [k \in DOMAIN @ |-> PrepareMetric(@[k], c)]] =
          [attrs |-> x, version |-> y, metrics |-> [k \in DOMAIN F |-> PrepareMetric(F[k], c)]]
    BY <2>1
  <2> QED BY <2>2, <2>3 DEF x, y
<1> QED BY <1>2, <1>3

\* retainSelectedNumberDatapoint leaves some of the datapoints.
LEMMA LeftIsPart ==
  ASSUME NEW b, NEW c, BatchOK(b, c), NEW i \in DOMAIN b, NEW k \in DOMAIN b[i].metrics
  PROVE  /\ MetricOK(Left(b, c, i, k), c)
         /\ PartOf(Left(b, c, i, k), b[i].metrics[k])
<1> DEFINE m == b[i].metrics[k]
           S == {j \in DOMAIN m.dps : Chosen(m.dps[j], c)}
<1>1. MetricOK(m, c) /\ S \subseteq DOMAIN m.dps
  BY DEF BatchOK, ResourceOK
<1>2. Left(b, c, i, k) \in {m, [m EXCEPT !.dps = Restrict(@, S)]}
  BY DEF Left, ChosenDatapoints
<1> HIDE DEF m, S
<1>3. MetricOK(Left(b, c, i, k), c) /\ PartOf(Left(b, c, i, k), m)
  BY <1>1, <1>2, RestrictedMetric, PartOfItself
<1> QED BY <1>3 DEF m

\* The preparation keeps resources and metrics and leaves some datapoints.
LEMMA PreparedIsPart ==
  ASSUME NEW b, NEW c, BatchOK(b, c), c.max \in Int
  PROVE  LET P == Prepare(b, c) IN
         /\ BatchOK(P, c)
         /\ P = [i \in DOMAIN b |->
                   [attrs |-> b[i].attrs, version |-> b[i].version, metrics |-> P[i].metrics]]
         /\ DOMAIN P = DOMAIN b /\ Len(P) = Len(b)
         /\ \A i \in DOMAIN b :
              /\ P[i].attrs = b[i].attrs /\ P[i].version = b[i].version
              /\ DOMAIN P[i].metrics = DOMAIN b[i].metrics /\ Len(P[i].metrics) = Len(b[i].metrics)
              /\ \A k \in DOMAIN b[i].metrics :
                   /\ P[i].metrics[k] = PrepareMetric(Left(b, c, i, k), c)
                   /\ PartOf(P[i].metrics[k], Left(b, c, i, k))
                   /\ PartOf(P[i].metrics[k], b[i].metrics[k])
<1> DEFINE P == Prepare(b, c)
           Ms(i) == [k \in DOMAIN b[i].metrics |-> PrepareMetric(Left(b, c, i, k), c)]
<1>1. P = [i \in DOMAIN b |-> [attrs |-> b[i].attrs, version |-> b[i].version, metrics |-> Ms(i)]]
  BY PrepareIs
<1> HIDE DEF P
<1>2. ASSUME NEW i \in DOMAIN b, NEW k \in DOMAIN b[i].metrics
      PROVE LET r == PrepareMetric(Left(b, c, i, k), c) IN
            MetricOK(r, c) /\ PartOf(r, Left(b, c, i, k)) /\ PartOf(r, b[i].metrics[k])
  BY LeftIsPart, MetricPrepared, PartOfPart
<1>3. ASSUME NEW i \in DOMAIN b
      PROVE  /\ Ms(i) \in Seq(Range(Ms(i))) /\ DOMAIN Ms(i) = DOMAIN b[i].metrics
             /\ Len(Ms(i)) = Len(b[i].metrics)
             /\ \A k \in DOMAIN b[i].metrics : Ms(i)[k] = PrepareMetric(Left(b, c, i, k), c)
  <2> DEFINE ms == b[i].metrics
             F == Ms(i)
  <2>1. PICK n \in Nat : DOMAIN ms = 1..n /\ Len(ms) = n
    BY DEF BatchOK, ResourceOK
  <2>2. F = [k \in 1..n |-> F[k]] /\ DOMAIN F = 1..n /\ \A k \in 1..n : F[k] \in Range(F)
    BY <2>1 DEF Range
  <2>3. \A k \in DOMAIN ms : F[k] = PrepareMetric(Left(b, c, i, k), c)
    OBVIOUS
  <2> HIDE DEF F, ms
  <2>4. F \in Seq(Range(F)) /\ Len(F) = n
    BY <2>2
  <2> QED BY <2>1, <2>2, <2>3, <2>4 DEF F, ms
<1> HIDE DEF Ms
<1>4. ASSUME NEW i \in DOMAIN b
      PROVE P[i].attrs = b[i].attrs /\ P[i].version = b[i].version /\ P[i].metrics = Ms(i)
  BY <1>1
<1>5. DOMAIN P = DOMAIN b
  BY <1>1
<1>6. P \in Seq(Range(P)) /\ Len(P) = Len(b)
  <2>1. PICK n \in Nat : DOMAIN b = 1..n /\ Len(b) = n
    BY DEF BatchOK
  <2>2. P = [k \in 1..n |-> P[k]] /\ DOMAIN P = 1..n /\ \A k \in 1..n : P[k] \in Range(P)
    BY <1>1, <2>1 DEF Range
  <2>3. P \in Seq(Range(P)) /\ Len(P) = n
    BY <2>2
  <2> QED BY <2>1, <2>3
<1>7. ASSUME NEW i \in DOMAIN b PROVE ResourceOK(P[i], c)
  <2>1. P[i] = [attrs |-> P[i].attrs, version |-> P[i].version, metrics |-> P[i].metrics]
    BY <1>1, <1>4
  <2>2. \A k \in DOMAIN P[i].metrics : MetricOK(P[i].metrics[k], c)
    BY <1>2, <1>3, <1>4
  <2> QED BY <1>3, <1>4, <2>1, <2>2 DEF ResourceOK
<1>8. BatchOK(P, c)
  BY <1>5, <1>6, <1>7 DEF BatchOK
<1>9. P = [i \in DOMAIN b |->
             [attrs |-> b[i].attrs, version |-> b[i].version, metrics |-> P[i].metrics]]
  BY <1>1, <1>4
<1>10. \A i \in DOMAIN b :
         /\ DOMAIN P[i].metrics = DOMAIN b[i].metrics /\ Len(P[i].metrics) = Len(b[i].metrics)
         /\ \A k \in DOMAIN b[i].metrics :
              /\ P[i].metrics[k] = PrepareMetric(Left(b, c, i, k), c)
              /\ PartOf(P[i].metrics[k], Left(b, c, i, k))
              /\ PartOf(P[i].metrics[k], b[i].metrics[k])
  BY <1>2, <1>3, <1>4
<1> QED BY <1>4, <1>5, <1>6, <1>8, <1>9, <1>10 DEF P

\* A batch that is prepared a second time stays as it is.
LEMMA PreparedTwice ==
  ASSUME NEW b, NEW c, BatchOK(b, c), c.max \in Int
  PROVE  Prepare(Prepare(b, c), c) = Prepare(b, c)
<1> DEFINE P == Prepare(b, c)
           name == c.selected.name
<1>1. /\ BatchOK(P, c)
      /\ P = [i \in DOMAIN b |->
                [attrs |-> b[i].attrs, version |-> b[i].version, metrics |-> P[i].metrics]]
      /\ DOMAIN P = DOMAIN b
      /\ \A i \in DOMAIN b :
           /\ P[i].attrs = b[i].attrs /\ P[i].version = b[i].version
           /\ DOMAIN P[i].metrics = DOMAIN b[i].metrics
           /\ \A k \in DOMAIN b[i].metrics :
                /\ P[i].metrics[k] = PrepareMetric(Left(b, c, i, k), c)
                /\ PartOf(P[i].metrics[k], Left(b, c, i, k))
                /\ PartOf(P[i].metrics[k], b[i].metrics[k])
  BY PreparedIsPart
<1> HIDE DEF P
<1>2. GetMetric(P, name) = GetMetric(b, name)
  <2> DEFINE A(x) == UNION {{i} \X DOMAIN x[i].metrics : i \in DOMAIN x}
             N(x) == {p \in A(x) : x[p[1]].metrics[p[2]].name = name}
  <2>1. A(P) = A(b)
    BY <1>1
  <2>2. ASSUME NEW p \in A(b)
        PROVE P[p[1]].metrics[p[2]].name = b[p[1]].metrics[p[2]].name
    <3>1. p[1] \in DOMAIN b /\ p[2] \in DOMAIN b[p[1]].metrics
      OBVIOUS
    <3> QED BY <1>1, <3>1 DEF PartOf
  <2> HIDE DEF A
  <2>3. N(P) = N(b)
    BY <2>1, <2>2
  <2>4. \A x : GetMetric(x, name) =
          {p \in N(x) : \A q \in N(x) : p[1] < q[1] \/ (p[1] = q[1] /\ p[2] <= q[2])}
    BY DEF GetMetric, A
  <2> QED BY <2>3, <2>4
<1>3. ASSUME NEW i \in DOMAIN b, NEW k \in DOMAIN b[i].metrics
      PROVE  Left(P, c, i, k) = P[i].metrics[k]
  <2> DEFINE n == P[i].metrics[k]
             m == b[i].metrics[k]
             l == Left(b, c, i, k)
             S == {j \in DOMAIN m.dps : Chosen(m.dps[j], c)}
             T == {j \in DOMAIN n.dps : Chosen(n.dps[j], c)}
  <2>1. MetricOK(n, c) /\ MetricOK(m, c) /\ PartOf(n, l) /\ PartOf(n, m)
    BY <1>1 DEF BatchOK, ResourceOK
  <2>2. CASE <<i, k>> \in GetMetric(b, name) /\ m.type \in {"gauge", "sum"}
    <3>1. l = [m EXCEPT !.dps = Restrict(@, S)]
      BY <2>2 DEF Left, ChosenDatapoints
    <3>2. n.type = m.type /\ DOMAIN n.dps \subseteq DOMAIN l.dps
      BY <2>1 DEF PartOf
    <3>3. Left(P, c, i, k) = [n EXCEPT !.dps = Restrict(@, T)]
      BY <1>2, <2>2, <3>2 DEF Left, ChosenDatapoints
    <3>4. S \subseteq DOMAIN m.dps /\ T \subseteq DOMAIN n.dps
      OBVIOUS
    <3>5. DOMAIN l.dps = S
      <4> HIDE DEF S, m, l
      <4> QED BY <2>1, <3>1, <3>4, RestrictedMetric
    <3>6. T = DOMAIN n.dps
      BY <2>1, <3>2, <3>5 DEF PartOf
    <3> HIDE DEF T, n
    <3>7. [n EXCEPT !.dps = Restrict(@, T)] = n
      BY <2>1, <3>4, <3>6, RestrictedMetric
    <3> QED BY <3>3, <3>7 DEF n
  <2>3. CASE ~(<<i, k>> \in GetMetric(b, name) /\ m.type \in {"gauge", "sum"})
    <3>1. n.type = m.type
      BY <2>1 DEF PartOf
    <3> QED BY <1>2, <2>3, <3>1 DEF Left
  <2> QED BY <2>2, <2>3
<1>4. ASSUME NEW i \in DOMAIN b, NEW k \in DOMAIN b[i].metrics
      PROVE  PrepareMetric(Left(P, c, i, k), c) = P[i].metrics[k]
  <2>1. MetricOK(Left(b, c, i, k), c)
    BY LeftIsPart
  <2>2. PrepareMetric(P[i].metrics[k], c) = P[i].metrics[k]
    BY <1>1, <2>1, MetricPrepared
  <2> QED BY <1>3, <2>2
<1>5. Prepare(P, c) =
        [i \in DOMAIN P |->
           [attrs |-> P[i].attrs, version |-> P[i].version,
            metrics |-> [k \in DOMAIN P[i].metrics |-> PrepareMetric(Left(P, c, i, k), c)]]]
  BY <1>1, PrepareIs
<1>6. ASSUME NEW i \in DOMAIN b
      PROVE [k \in DOMAIN P[i].metrics |-> PrepareMetric(Left(P, c, i, k), c)] = P[i].metrics
  <2>1. P[i].metrics = [k \in DOMAIN P[i].metrics |-> P[i].metrics[k]]
    BY <1>1 DEF BatchOK, ResourceOK
  <2> QED BY <1>1, <1>4, <2>1
<1>7. Prepare(P, c) = P
  BY <1>1, <1>5, <1>6
<1> QED BY <1>7 DEF P

-----------------------------------------------------------------------------
(* The file has the resources and metrics of the batch.                    *)

\* The two files that an update writes from a batch, one after the other.
Exactly(b, c) == WriteAssertionFile(Prepare(b, c), c)
Flexibly(b, c) == MarkFlexibleAttrs(Exactly(b, c), c)

\* The file as it is written first.
LEMMA WrittenFile ==
  ASSUME NEW b, NEW c, BatchOK(b, c)
  PROVE  LET f == WriteAssertionFile(b, c) IN
         /\ DOMAIN f = DOMAIN b /\ Len(f) = Len(b)
         /\ \A i \in DOMAIN b :
              /\ f[i].attrs = WriteAttrs(b[i].attrs) /\ f[i].version = Exact(b[i].version)
              /\ DOMAIN f[i].metrics = DOMAIN b[i].metrics
              /\ Len(f[i].metrics) = Len(b[i].metrics)
              /\ \A k \in DOMAIN b[i].metrics : f[i].metrics[k] = WriteMetric(b[i].metrics[k], c)
<1> DEFINE f == WriteAssertionFile(b, c)
           Ms(i) == [k \in DOMAIN b[i].metrics |-> WriteMetric(b[i].metrics[k], c)]
<1>1. f = [i \in DOMAIN b |-> [attrs |-> WriteAttrs(b[i].attrs), version |-> Exact(b[i].version),
                               metrics |-> Ms(i)]]
  BY DEF WriteAssertionFile
<1>2. ASSUME NEW i \in DOMAIN b
      PROVE  /\ DOMAIN Ms(i) = DOMAIN b[i].metrics /\ Len(Ms(i)) = Len(b[i].metrics)
             /\ \A k \in DOMAIN b[i].metrics : Ms(i)[k] = WriteMetric(b[i].metrics[k], c)
  <2>1. PICK n \in Nat : DOMAIN b[i].metrics = 1..n /\ Len(b[i].metrics) = n
    BY DEF BatchOK, ResourceOK
  <2> QED BY <2>1
<1>3. PICK n \in Nat : DOMAIN b = 1..n /\ Len(b) = n
  BY DEF BatchOK
<1> HIDE DEF Ms, f
<1>4. \A i \in DOMAIN b : /\ f[i].attrs = WriteAttrs(b[i].attrs)
                           /\ f[i].version = Exact(b[i].version) /\ f[i].metrics = Ms(i)
  BY <1>1
<1>5. DOMAIN f = DOMAIN b /\ Len(f) = Len(b)
  BY <1>1, <1>3
<1> QED BY <1>2, <1>4, <1>5 DEF f

\* The file once its attributes are marked.
LEMMA MarkedFile ==
  ASSUME NEW b, NEW c, BatchOK(b, c)
  PROVE  LET f == WriteAssertionFile(b, c)
             g == MarkFlexibleAttrs(f, c) IN
         /\ DOMAIN g = DOMAIN b /\ Len(g) = Len(b)
         /\ \A i \in DOMAIN b :
              /\ g[i].attrs = MarkAttrs(WriteAttrs(b[i].attrs), c)
              /\ g[i].version = IF c.version # {} THEN Regex(c.version) ELSE Exact(b[i].version)
              /\ DOMAIN g[i].metrics = DOMAIN b[i].metrics
              /\ Len(g[i].metrics) = Len(b[i].metrics)
              /\ \A k \in DOMAIN b[i].metrics :
                   g[i].metrics[k] = MarkMetric(WriteMetric(b[i].metrics[k], c), c)
<1> DEFINE f == WriteAssertionFile(b, c)
           g == MarkFlexibleAttrs(f, c)
           Ms(i) == [k \in DOMAIN f[i].metrics |-> MarkMetric(f[i].metrics[k], c)]
           V(i) == IF c.version # {} THEN Regex(c.version) ELSE f[i].version
<1>1. g = [i \in DOMAIN f |-> [attrs |-> MarkAttrs(f[i].attrs, c), version |-> V(i),
                               metrics |-> Ms(i)]]
  BY DEF MarkFlexibleAttrs
<1>2. /\ DOMAIN f = DOMAIN b /\ Len(f) = Len(b)
      /\ \A i \in DOMAIN b :
           /\ f[i].attrs = WriteAttrs(b[i].attrs) /\ f[i].version = Exact(b[i].version)
           /\ DOMAIN f[i].metrics = DOMAIN b[i].metrics
           /\ Len(f[i].metrics) = Len(b[i].metrics)
           /\ \A k \in DOMAIN b[i].metrics : f[i].metrics[k] = WriteMetric(b[i].metrics[k], c)
  BY WrittenFile
<1> HIDE DEF f
<1>3. ASSUME NEW i \in DOMAIN b
      PROVE  /\ DOMAIN Ms(i) = DOMAIN b[i].metrics /\ Len(Ms(i)) = Len(b[i].metrics)
             /\ \A k \in DOMAIN b[i].metrics :
                  Ms(i)[k] = MarkMetric(WriteMetric(b[i].metrics[k], c), c)
  <2>1. PICK n \in Nat : DOMAIN b[i].metrics = 1..n /\ Len(b[i].metrics) = n
    BY DEF BatchOK, ResourceOK
  <2>2. DOMAIN f[i].metrics = 1..n
    BY <1>2, <2>1
  <2>3. DOMAIN Ms(i) = 1..n /\ Len(Ms(i)) = n
    BY <2>2
  <2>4. \A k \in 1..n : Ms(i)[k] = MarkMetric(WriteMetric(b[i].metrics[k], c), c)
    BY <1>2, <2>1, <2>2
  <2> QED BY <2>1, <2>3, <2>4
<1>4. PICK n \in Nat : DOMAIN b = 1..n /\ Len(b) = n
  BY DEF BatchOK
<1> HIDE DEF Ms, g
<1>5. \A i \in DOMAIN b : /\ g[i].attrs = MarkAttrs(f[i].attrs, c)
                           /\ g[i].metrics = Ms(i) /\ g[i].version = V(i)
  BY <1>1, <1>2
<1>6. DOMAIN g = DOMAIN b /\ Len(g) = Len(b)
  BY <1>1, <1>2, <1>4
<1> QED BY <1>2, <1>3, <1>5, <1>6 DEF f, g

\* The counts of a file, exact or marked, are those of the batch.
LEMMA FileCounts ==
  ASSUME NEW b, NEW c, BatchOK(b, c), c.max \in Int
  PROVE  /\ ExpectedCounts(Exactly(b, c)) = ExpectedCounts(b)
         /\ ExpectedCounts(Flexibly(b, c)) = ExpectedCounts(b)
<1> DEFINE P == Prepare(b, c)
           f == Exactly(b, c)
           g == Flexibly(b, c)
<1>1. /\ BatchOK(P, c) /\ DOMAIN P = DOMAIN b /\ Len(P) = Len(b)
      /\ \A i \in DOMAIN b : Len(P[i].metrics) = Len(b[i].metrics)
  BY PreparedIsPart
<1>2. f = WriteAssertionFile(P, c) /\ g = MarkFlexibleAttrs(f, c)
  BY DEF Exactly, Flexibly
<1> HIDE DEF P, f, g
<1>3. /\ DOMAIN f = DOMAIN b /\ Len(f) = Len(b) /\ DOMAIN g = DOMAIN b /\ Len(g) = Len(b)
      /\ \A i \in DOMAIN b : /\ Len(f[i].metrics) = Len(b[i].metrics)
                              /\ Len(g[i].metrics) = Len(b[i].metrics)
  BY <1>1, <1>2, WrittenFile, MarkedFile
<1>4. /\ [i \in DOMAIN f |-> Len(f[i].metrics)] = [i \in DOMAIN b |-> Len(b[i].metrics)]
      /\ [i \in DOMAIN g |-> Len(g[i].metrics)] = [i \in DOMAIN b |-> Len(b[i].metrics)]
  BY <1>3
<1> QED BY <1>3, <1>4 DEF ExpectedCounts, f, g

-----------------------------------------------------------------------------
(* A file accepts the batch that it was written from.                      *)

\* The attributes of a datapoint once they are marked.
MarkPointAttrs(a, c) ==
  IF c.existsExcept THEN MarkNonIdentityAttrs(MarkAttrs(a, c), c) ELSE MarkAttrs(a, c)

\* Every element is paired with itself.
LEMMA IdentityIsBijection ==
  ASSUME NEW S
  PROVE  [x \in S |-> x] \in Bijection(S, S)
BY DEF Bijection, Injection, Surjection, IsInjective

\* What the three kinds of expected values accept.
LEMMA Kinds ==
  ASSUME NEW v, NEW x
  PROVE  /\ Satisfies(v, Exact(x)) <=> v = x
         /\ Satisfies(v, Exists)
         /\ Satisfies(v, Regex(x)) <=> v \in x
BY DEF Satisfies, Exact, Exists, Regex

\* The attributes of a with a pattern have values that match it.
AttrsFit(a, c) == \A k \in DOMAIN a \cap DOMAIN c.regex : a[k] \in c.regex[k]

\* Attributes pass with what is written of them, however it is marked.
LEMMA AttrsAccepted ==
  ASSUME NEW a, NEW c, AttrsFit(a, c)
  PROVE  /\ AcceptsAttrs(WriteAttrs(a), a)
         /\ AcceptsAttrs(MarkAttrs(WriteAttrs(a), c), a)
         /\ AcceptsAttrs(MarkPointAttrs(WriteAttrs(a), c), a)
<1> DEFINE w == WriteAttrs(a)
           x == MarkAttrs(w, c)
           y == MarkNonIdentityAttrs(x, c)
<1>1. DOMAIN w = DOMAIN a /\ \A k \in DOMAIN a : w[k] = [how |-> "exact", ok |-> {a[k]}]
  BY DEF WriteAttrs, Exact
<1>2. DOMAIN x = DOMAIN a /\ \A k \in DOMAIN a :
        \/ x[k] = w[k]
        \/ k \in DOMAIN c.regex /\ x[k] = [how |-> "regex", ok |-> c.regex[k]]
        \/ x[k] = [how |-> "exists", ok |-> {}]
  <2> HIDE DEF w
  <2> QED BY <1>1 DEF MarkAttrs, Regex, Exists
<1>3. DOMAIN y = DOMAIN a /\ \A k \in DOMAIN a : y[k] = x[k] \/ y[k] = [how |-> "exists", ok |-> {}]
  <2> HIDE DEF x
  <2> QED BY <1>2 DEF MarkNonIdentityAttrs, Exists
<1> HIDE DEF w, x, y
<1>4. ASSUME NEW k \in DOMAIN a
      PROVE Satisfies(a[k], w[k]) /\ Satisfies(a[k], x[k]) /\ Satisfies(a[k], y[k])
  <2>1. Satisfies(a[k], w[k])
    BY <1>1 DEF Satisfies
  <2>2. k \in DOMAIN c.regex => a[k] \in c.regex[k]
    BY DEF AttrsFit
  <2>3. Satisfies(a[k], x[k])
    BY <1>2, <2>1, <2>2 DEF Satisfies
  <2> QED BY <1>3, <2>1, <2>3 DEF Satisfies
<1>5. AcceptsAttrs(w, a) /\ AcceptsAttrs(x, a) /\ AcceptsAttrs(y, a)
  BY <1>1, <1>2, <1>3, <1>4 DEF AcceptsAttrs
<1>6. MarkPointAttrs(w, c) \in {x, y}
  BY DEF MarkPointAttrs, x, y
<1> QED BY <1>5, <1>6 DEF w, x

\* The datapoints of a metric in the file, exact and marked.
LEMMA FilePoints ==
  ASSUME NEW m, NEW c, MetricOK(m, c)
  PROVE  LET w == WriteMetric(m, c)
             x == MarkMetric(w, c) IN
         /\ w.name = m.name /\ w.type = m.type /\ DOMAIN w.dps = DOMAIN m.dps
         /\ x.name = m.name /\ x.type = m.type /\ DOMAIN x.dps = DOMAIN m.dps
         /\ \A j \in DOMAIN m.dps :
              /\ w.dps[j].attrs = WriteAttrs(m.dps[j].attrs)
              /\ w.dps[j].bounds = IF c.bounds THEN Exact(m.dps[j].bounds) ELSE Exists
              /\ x.dps[j].attrs = MarkPointAttrs(WriteAttrs(m.dps[j].attrs), c)
              /\ x.dps[j].bounds = w.dps[j].bounds
<1> DEFINE w == WriteMetric(m, c)
           x == MarkMetric(w, c)
           nm == m.name
           tp == m.type
           dps == m.dps
           B(j) == IF c.bounds THEN Exact(dps[j].bounds) ELSE Exists
           A(j) == WriteAttrs(dps[j].attrs)
           wd == [j \in DOMAIN dps |-> [attrs |-> A(j), bounds |-> B(j)]]
           xd == [j \in DOMAIN dps |-> [attrs |-> MarkPointAttrs(A(j), c), bounds |-> B(j)]]
<1>1. m = [name |-> nm, type |-> tp, dps |-> dps]
  BY DEF MetricOK
<1>2. w = [m EXCEPT !.dps = wd]
  BY DEF WriteMetric
<1> HIDE DEF nm, tp, dps, w, A, B
<1>3. w = [name |-> nm, type |-> tp, dps |-> wd]
  BY <1>1, <1>2
<1>4. [j \in DOMAIN wd |-> MarkPoint(wd[j], c)] = xd
  <2>1. DOMAIN wd = DOMAIN dps
    OBVIOUS
  <2>2. ASSUME NEW j \in DOMAIN dps
        PROVE MarkPoint(wd[j], c) =
                 [attrs |-> MarkPointAttrs(A(j), c), bounds |-> B(j)]
    <3>1. wd[j] = [attrs |-> A(j), bounds |-> B(j)]
      OBVIOUS
    <3> HIDE DEF wd
    <3> QED BY <3>1 DEF MarkPoint, MarkPointAttrs
  <2> HIDE DEF wd
  <2> QED BY <2>1, <2>2
<1>5. x = [w EXCEPT !.dps = [j \in DOMAIN @ |-> MarkPoint(@[j], c)]]
  BY DEF MarkMetric
<1> HIDE DEF x
<1>6. x = [name |-> nm, type |-> tp, dps |-> xd]
  <2> HIDE DEF xd, wd
  <2>1. w.dps = wd
    BY <1>3
  <2>2. x = [w EXCEPT !.dps = xd]
    BY <1>4, <1>5, <2>1
  <2> QED BY <1>3, <2>2
<1>7. /\ w.name = nm /\ w.type = tp /\ w.dps = wd
      /\ x.name = nm /\ x.type = tp /\ x.dps = xd
  BY <1>3, <1>6
<1>8. DOMAIN wd = DOMAIN dps /\ DOMAIN xd = DOMAIN dps
  OBVIOUS
<1>9. \A j \in DOMAIN dps : /\ wd[j].attrs = A(j) /\ wd[j].bounds = B(j)
                            /\ xd[j].attrs = MarkPointAttrs(A(j), c) /\ xd[j].bounds = B(j)
  OBVIOUS
<1> HIDE DEF wd, xd
<1> QED BY <1>7, <1>8, <1>9 DEF nm, tp, dps, w, x, A, B

\* A metric passes with what is written of it, exact and marked.
LEMMA MetricAccepted ==
  ASSUME NEW m, NEW c, MetricOK(m, c), \A j \in DOMAIN m.dps : AttrsFit(m.dps[j].attrs, c)
  PROVE  LET w == WriteMetric(m, c) IN AcceptsMetric(w, m) /\ AcceptsMetric(MarkMetric(w, c), m)
<1> DEFINE w == WriteMetric(m, c)
           x == MarkMetric(w, c)
           id == [j \in DOMAIN m.dps |-> j]
<1>1. /\ w.name = m.name /\ w.type = m.type /\ DOMAIN w.dps = DOMAIN m.dps
      /\ x.name = m.name /\ x.type = m.type /\ DOMAIN x.dps = DOMAIN m.dps
      /\ \A j \in DOMAIN m.dps :
           /\ w.dps[j].attrs = WriteAttrs(m.dps[j].attrs)
           /\ w.dps[j].bounds = IF c.bounds THEN Exact(m.dps[j].bounds) ELSE Exists
           /\ x.dps[j].attrs = MarkPointAttrs(WriteAttrs(m.dps[j].attrs), c)
           /\ x.dps[j].bounds = w.dps[j].bounds
  BY FilePoints
<1> HIDE DEF w, x
<1>2. ASSUME NEW j \in DOMAIN m.dps
      PROVE AcceptsPoint(w.dps[j], m.dps[j]) /\ AcceptsPoint(x.dps[j], m.dps[j])
  <2>1. /\ AcceptsAttrs(w.dps[j].attrs, m.dps[j].attrs)
        /\ AcceptsAttrs(x.dps[j].attrs, m.dps[j].attrs)
    BY <1>1, AttrsAccepted
  <2>2. Satisfies(m.dps[j].bounds, w.dps[j].bounds)
    BY <1>1, Kinds
  <2> QED BY <1>1, <2>1, <2>2 DEF AcceptsPoint
<1>3. id \in Bijection(DOMAIN m.dps, DOMAIN m.dps) /\ \A j \in DOMAIN m.dps : id[j] = j
  BY IdentityIsBijection
<1> HIDE DEF id
<1>4. AcceptsMetric(w, m)
  BY <1>1, <1>2, <1>3 DEF AcceptsMetric, Paired
<1>5. AcceptsMetric(x, m)
  BY <1>1, <1>2, <1>3 DEF AcceptsMetric, Paired
<1> QED BY <1>4, <1>5 DEF w, x

\* A batch passes with the file that was written from it.
LEMMA BatchAccepted ==
  ASSUME NEW b, NEW c, BatchOK(b, c), PatternsFit(b, c)
  PROVE  LET f == WriteAssertionFile(b, c) IN
           AssertMetrics(f, b) /\ AssertMetrics(MarkFlexibleAttrs(f, c), b)
<1> DEFINE f == WriteAssertionFile(b, c)
           g == MarkFlexibleAttrs(f, c)
           id == [i \in DOMAIN b |-> i]
<1>1. /\ DOMAIN f = DOMAIN b
      /\ \A i \in DOMAIN b :
           /\ f[i].attrs = WriteAttrs(b[i].attrs) /\ f[i].version = Exact(b[i].version)
           /\ DOMAIN f[i].metrics = DOMAIN b[i].metrics
           /\ \A k \in DOMAIN b[i].metrics : f[i].metrics[k] = WriteMetric(b[i].metrics[k], c)
  BY WrittenFile
<1>2. /\ DOMAIN g = DOMAIN b
      /\ \A i \in DOMAIN b :
           /\ g[i].attrs = MarkAttrs(WriteAttrs(b[i].attrs), c)
           /\ g[i].version = IF c.version # {} THEN Regex(c.version) ELSE Exact(b[i].version)
           /\ DOMAIN g[i].metrics = DOMAIN b[i].metrics
           /\ \A k \in DOMAIN b[i].metrics :
                g[i].metrics[k] = MarkMetric(WriteMetric(b[i].metrics[k], c), c)
  BY MarkedFile
<1> HIDE DEF f, g
<1>3. ASSUME NEW i \in DOMAIN b PROVE AcceptsResource(f[i], b[i]) /\ AcceptsResource(g[i], b[i])
  <2> DEFINE r == b[i]
             kd == [k \in DOMAIN r.metrics |-> k]
  <2>1. AttrsFit(r.attrs, c) /\ (c.version # {} => r.version \in c.version)
    BY DEF PatternsFit, AttrsFit
  <2>2. AcceptsAttrs(f[i].attrs, r.attrs) /\ AcceptsAttrs(g[i].attrs, r.attrs)
    BY <1>1, <1>2, <2>1, AttrsAccepted
  <2>3. Satisfies(r.version, f[i].version) /\ Satisfies(r.version, g[i].version)
    BY <1>1, <1>2, <2>1, Kinds
  <2>4. ASSUME NEW k \in DOMAIN r.metrics
        PROVE /\ AcceptsMetric(f[i].metrics[k], r.metrics[k])
              /\ AcceptsMetric(g[i].metrics[k], r.metrics[k])
    <3>1. MetricOK(r.metrics[k], c)
      BY DEF BatchOK, ResourceOK
    <3>2. \A j \in DOMAIN r.metrics[k].dps : AttrsFit(r.metrics[k].dps[j].attrs, c)
      BY DEF PatternsFit, AttrsFit
    <3> QED BY <1>1, <1>2, <3>1, <3>2, MetricAccepted
  <2>5. kd \in Bijection(DOMAIN r.metrics, DOMAIN r.metrics) /\ \A k \in DOMAIN r.metrics : kd[k] = k
    BY IdentityIsBijection
  <2> HIDE DEF kd, r
  <2>6. DOMAIN f[i].metrics = DOMAIN r.metrics /\ DOMAIN g[i].metrics = DOMAIN r.metrics
    BY <1>1, <1>2 DEF r
  <2>7. AcceptsResource(f[i], r)
    BY <2>2, <2>3, <2>4, <2>5, <2>6 DEF AcceptsResource, Paired
  <2>8. AcceptsResource(g[i], r)
    BY <2>2, <2>3, <2>4, <2>5, <2>6 DEF AcceptsResource, Paired
  <2> QED BY <2>7, <2>8 DEF r
<1>4. id \in Bijection(DOMAIN b, DOMAIN b) /\ \A i \in DOMAIN b : id[i] = i
  BY IdentityIsBijection
<1> HIDE DEF id
<1>5. AssertMetrics(f, b)
  BY <1>1, <1>3, <1>4 DEF AssertMetrics, Paired
<1>6. AssertMetrics(g, b)
  BY <1>2, <1>3, <1>4 DEF AssertMetrics, Paired
<1> QED BY <1>5, <1>6 DEF f, g

\* What is left of a batch fits the patterns if the batch does.
LEMMA PreparedFits ==
  ASSUME NEW b, NEW c, BatchOK(b, c), c.max \in Int, PatternsFit(b, c)
  PROVE  PatternsFit(Prepare(b, c), c)
<1> DEFINE P == Prepare(b, c)
<1>1. /\ DOMAIN P = DOMAIN b
      /\ \A i \in DOMAIN b :
           /\ P[i].attrs = b[i].attrs /\ P[i].version = b[i].version
           /\ DOMAIN P[i].metrics = DOMAIN b[i].metrics
           /\ \A k \in DOMAIN b[i].metrics : PartOf(P[i].metrics[k], b[i].metrics[k])
  BY PreparedIsPart
<1> HIDE DEF P
<1>2. ASSUME NEW i \in DOMAIN b, NEW k \in DOMAIN b[i].metrics, NEW j \in DOMAIN P[i].metrics[k].dps
      PROVE AttrsFit(P[i].metrics[k].dps[j].attrs, c)
  <2>1. j \in DOMAIN b[i].metrics[k].dps /\ P[i].metrics[k].dps[j] = b[i].metrics[k].dps[j]
    BY <1>1 DEF PartOf
  <2> QED BY <2>1 DEF PatternsFit, AttrsFit
<1>3. \A i \in DOMAIN b : AttrsFit(b[i].attrs, c) /\ (c.version # {} => b[i].version \in c.version)
  BY DEF PatternsFit, AttrsFit
<1>4. ASSUME NEW i \in DOMAIN P
      PROVE /\ AttrsFit(P[i].attrs, c) /\ (c.version # {} => P[i].version \in c.version)
            /\ \A k \in DOMAIN P[i].metrics : \A j \in DOMAIN P[i].metrics[k].dps :
                 AttrsFit(P[i].metrics[k].dps[j].attrs, c)
  BY <1>1, <1>2, <1>3
<1> QED BY <1>4 DEF PatternsFit, AttrsFit, P

-----------------------------------------------------------------------------
(* What a file accepts has the content of the batch it was written from.   *)

\* Sequences that are paired off have the same elements as often.
LEMMA PairedBags ==
  ASSUME NEW s, NEW t, IsFiniteSet(DOMAIN s), NEW p \in Bijection(DOMAIN s, DOMAIN t),
         \A i \in DOMAIN s : s[i] = t[p[i]]
  PROVE  Bag(s) = Bag(t)
<1>1. /\ p \in [DOMAIN s -> DOMAIN t]
      /\ \A i, j \in DOMAIN s : p[i] = p[j] => i = j
      /\ \A j \in DOMAIN t : \E i \in DOMAIN s : p[i] = j
  BY DEF Bijection, Injection, Surjection, IsInjective
<1>2. Range(s) = Range(t)
  BY <1>1 DEF Range
<1>3. ASSUME NEW x
      PROVE Cardinality({i \in DOMAIN s : s[i] = x}) = Cardinality({j \in DOMAIN t : t[j] = x})
  <2> DEFINE A == {i \in DOMAIN s : s[i] = x}
             B == {j \in DOMAIN t : t[j] = x}
             q == [i \in A |-> p[i]]
  <2>1. q \in [A -> B]
    BY <1>1
  <2>2. \A i, j \in A : q[i] = q[j] => i = j
    BY <1>1
  <2>3. \A j \in B : \E i \in A : q[i] = j
    BY <1>1
  <2>4. A \in SUBSET DOMAIN s
    OBVIOUS
  <2> HIDE DEF A, B, q
  <2>5. ExistsBijection(A, B)
    <3>1. DOMAIN q = A
      BY <2>1
    <3>2. q \in Bijection(A, B)
      BY <2>1, <2>2, <2>3, <3>1 DEF Bijection, Injection, Surjection, IsInjective
    <3> QED BY <3>2 DEF ExistsBijection
  <2>6. IsFiniteSet(A)
    BY <2>4, FS_Subset
  <2>7. Cardinality(A) = Cardinality(B)
    BY <2>5, <2>6, FS_Bijection
  <2> QED BY <2>7 DEF A, B
<1> QED BY <1>2, <1>3 DEF Bag

\* v has the attributes of a, and their values except for some that may change.
AgreeExcept(v, a, K) == DOMAIN v = DOMAIN a /\ \A k \in DOMAIN a \ K : v[k] = a[k]

\* The attributes that may change on a datapoint.
PointMayChange(a, c) == MayChange(c) \cup (IF c.existsExcept THEN DOMAIN a \ c.exact ELSE {})

\* What agrees except for K is the same once K is blurred.
LEMMA AgreeingBlur ==
  ASSUME NEW v, NEW a, NEW K, AgreeExcept(v, a, K)
  PROVE  Blur(v, K) = Blur(a, K)
BY DEF AgreeExcept, Blur

\* The attributes that a file accepts are the same where they are not marked.
LEMMA AcceptedAttrs ==
  ASSUME NEW a, NEW c, NEW e, NEW v, AcceptsAttrs(e, v)
  PROVE  /\ e \in {WriteAttrs(a), MarkAttrs(WriteAttrs(a), c)} => AgreeExcept(v, a, MayChange(c))
         /\ e \in {WriteAttrs(a), MarkPointAttrs(WriteAttrs(a), c)}
              => AgreeExcept(v, a, PointMayChange(a, c))
<1> DEFINE w == WriteAttrs(a)
           x == MarkAttrs(w, c)
           y == MarkPointAttrs(w, c)
           K == MayChange(c)
           L == PointMayChange(a, c)
<1>1. DOMAIN w = DOMAIN a /\ \A k \in DOMAIN a : w[k] = Exact(a[k])
  BY DEF WriteAttrs
<1>2. DOMAIN x = DOMAIN a /\ \A k \in DOMAIN a \ K : x[k] = w[k]
  <2> HIDE DEF w
  <2> QED BY <1>1 DEF MarkAttrs, MayChange
<1>3. DOMAIN y = DOMAIN a /\ \A k \in DOMAIN a \ L : y[k] = w[k]
  <2>1. y = IF c.existsExcept THEN MarkNonIdentityAttrs(x, c) ELSE x
    BY DEF MarkPointAttrs
  <2> HIDE DEF x, y, w
  <2> QED BY <1>1, <1>2, <2>1 DEF MarkNonIdentityAttrs, PointMayChange
<1>4. DOMAIN v = DOMAIN e /\ \A k \in DOMAIN e : Satisfies(v[k], e[k])
  BY DEF AcceptsAttrs
<1> HIDE DEF w, x, y, K, L
<1>5. ASSUME NEW k \in DOMAIN a, Satisfies(v[k], w[k]) PROVE v[k] = a[k]
  BY <1>1, <1>5, Kinds
<1>6. ASSUME e \in {w, x} PROVE AgreeExcept(v, a, K)
  BY <1>1, <1>2, <1>4, <1>5, <1>6 DEF AgreeExcept
<1>7. ASSUME e \in {w, y} PROVE AgreeExcept(v, a, L)
  BY <1>1, <1>3, <1>4, <1>5, <1>7 DEF AgreeExcept
<1> QED BY <1>6, <1>7 DEF w, x, y, K, L

\* A datapoint that passes differs from the one written in what may change.
LEMMA AcceptedPoint ==
  ASSUME NEW d, NEW c, NEW e, NEW v, AcceptsPoint(e, v),
         e.attrs \in {WriteAttrs(d.attrs), MarkPointAttrs(WriteAttrs(d.attrs), c)},
         e.bounds = IF c.bounds THEN Exact(d.bounds) ELSE Exists
  PROVE  BlurredPoint(v, c) = BlurredPoint(d, c)
<1> DEFINE L(a) == PointMayChange(a, c)
<1>1. AgreeExcept(v.attrs, d.attrs, L(d.attrs))
  BY AcceptedAttrs DEF AcceptsPoint
<1>2. L(v.attrs) = L(d.attrs)
  BY <1>1 DEF AgreeExcept, PointMayChange
<1>3. Blur(v.attrs, L(v.attrs)) = Blur(d.attrs, L(d.attrs))
  BY <1>1, <1>2, AgreeingBlur
<1>4. c.bounds => v.bounds = d.bounds
  BY Kinds DEF AcceptsPoint
<1> QED BY <1>3, <1>4 DEF BlurredPoint, PointMayChange

\* A metric and a resource as they count in Content.
BlurredMetric(m, c) == [name |-> m.name, type |-> m.type, dps |-> Bag(BlurredPoints(m, c))]

BlurredResource(r, c) ==
  [attrs   |-> Blur(r.attrs, MayChange(c)),
   version |-> IF c.version # {} THEN 0 ELSE r.version,
   metrics |-> Bag([k \in DOMAIN r.metrics |-> BlurredMetric(r.metrics[k], c)])]

\* Content is the bag of these resources.
LEMMA ContentIs ==
  ASSUME NEW b, NEW c
  PROVE  Content(b, c) = Bag([i \in DOMAIN b |-> BlurredResource(b[i], c)])
BY DEF Content, Blurred, BlurredResource, BlurredMetric

\* A metric that passes differs from the one written in what may change.
LEMMA AcceptedMetric ==
  ASSUME NEW m, NEW c, MetricOK(m, c), NEW v,
         NEW e \in {WriteMetric(m, c), MarkMetric(WriteMetric(m, c), c)}, AcceptsMetric(e, v)
  PROVE  BlurredMetric(v, c) = BlurredMetric(m, c)
<1>1. /\ e.name = m.name /\ e.type = m.type /\ DOMAIN e.dps = DOMAIN m.dps
      /\ \A j \in DOMAIN m.dps :
           /\ e.dps[j].attrs \in {WriteAttrs(m.dps[j].attrs),
                                  MarkPointAttrs(WriteAttrs(m.dps[j].attrs), c)}
           /\ e.dps[j].bounds = IF c.bounds THEN Exact(m.dps[j].bounds) ELSE Exists
  BY FilePoints
<1>2. PICK p \in Bijection(DOMAIN e.dps, DOMAIN v.dps) :
        \A j \in DOMAIN e.dps : AcceptsPoint(e.dps[j], v.dps[p[j]])
  BY DEF AcceptsMetric, Paired
<1>3. p \in Bijection(DOMAIN m.dps, DOMAIN v.dps) /\ \A j \in DOMAIN m.dps : p[j] \in DOMAIN v.dps
  BY <1>1 DEF Bijection, Injection
<1>4. \A j \in DOMAIN m.dps : BlurredPoint(v.dps[p[j]], c) = BlurredPoint(m.dps[j], c)
  BY <1>1, <1>2, AcceptedPoint
<1> DEFINE s == BlurredPoints(m, c)
           t == BlurredPoints(v, c)
<1>5. DOMAIN s = DOMAIN m.dps /\ DOMAIN t = DOMAIN v.dps /\ \A j \in DOMAIN s : s[j] = t[p[j]]
  BY <1>3, <1>4 DEF BlurredPoints
<1>6. IsFiniteSet(DOMAIN m.dps)
  BY DEF MetricOK, PointsOK
<1> HIDE DEF s, t
<1>7. Bag(s) = Bag(t)
  BY <1>3, <1>5, <1>6, PairedBags
<1>8. v.name = m.name /\ v.type = m.type
  BY <1>1 DEF AcceptsMetric
<1> QED BY <1>7, <1>8 DEF BlurredMetric, s, t

\* A batch that passes with the file of another one has its content.
LEMMA AcceptedBatch ==
  ASSUME NEW b, NEW c, BatchOK(b, c), NEW v,
         NEW f \in {WriteAssertionFile(b, c), MarkFlexibleAttrs(WriteAssertionFile(b, c), c)},
         AssertMetrics(f, v)
  PROVE  Content(v, c) = Content(b, c)
<1>1. /\ DOMAIN f = DOMAIN b
      /\ \A i \in DOMAIN b :
           /\ f[i].attrs \in {WriteAttrs(b[i].attrs), MarkAttrs(WriteAttrs(b[i].attrs), c)}
           /\ c.version = {} => f[i].version = Exact(b[i].version)
           /\ DOMAIN f[i].metrics = DOMAIN b[i].metrics
           /\ \A k \in DOMAIN b[i].metrics :
                f[i].metrics[k] \in {WriteMetric(b[i].metrics[k], c),
                                     MarkMetric(WriteMetric(b[i].metrics[k], c), c)}
  BY WrittenFile, MarkedFile
<1>2. PICK p \in Bijection(DOMAIN f, DOMAIN v) : \A i \in DOMAIN f : AcceptsResource(f[i], v[p[i]])
  BY DEF AssertMetrics, Paired
<1>3. p \in Bijection(DOMAIN b, DOMAIN v) /\ \A i \in DOMAIN b : p[i] \in DOMAIN v
  BY <1>1 DEF Bijection, Injection
<1>4. ASSUME NEW i \in DOMAIN b PROVE BlurredResource(v[p[i]], c) = BlurredResource(b[i], c)
  <2> DEFINE r == b[i]
             u == v[p[i]]
             e == f[i]
             s == [k \in DOMAIN r.metrics |-> BlurredMetric(r.metrics[k], c)]
             t == [k \in DOMAIN u.metrics |-> BlurredMetric(u.metrics[k], c)]
  <2>1. AcceptsResource(e, u)
    BY <1>1, <1>2
  <2>2. Blur(u.attrs, MayChange(c)) = Blur(r.attrs, MayChange(c))
    <3>1. AcceptsAttrs(e.attrs, u.attrs)
      BY <2>1 DEF AcceptsResource
    <3>2. AgreeExcept(u.attrs, r.attrs, MayChange(c))
      BY <1>1, <3>1, AcceptedAttrs
    <3> QED BY <3>2, AgreeingBlur
  <2>3. c.version = {} => u.version = r.version
    BY <1>1, <2>1, Kinds DEF AcceptsResource
  <2>4. PICK q \in Bijection(DOMAIN e.metrics, DOMAIN u.metrics) :
          \A k \in DOMAIN e.metrics : AcceptsMetric(e.metrics[k], u.metrics[q[k]])
    BY <2>1 DEF AcceptsResource, Paired
  <2>5. /\ q \in Bijection(DOMAIN r.metrics, DOMAIN u.metrics)
        /\ \A k \in DOMAIN r.metrics : q[k] \in DOMAIN u.metrics
    BY <1>1 DEF Bijection, Injection
  <2>6. \A k \in DOMAIN r.metrics : MetricOK(r.metrics[k], c)
    BY DEF BatchOK, ResourceOK
  <2>7. \A k \in DOMAIN r.metrics :
           BlurredMetric(u.metrics[q[k]], c) = BlurredMetric(r.metrics[k], c)
    BY <1>1, <2>4, <2>6, AcceptedMetric
  <2>8. DOMAIN s = DOMAIN r.metrics /\ DOMAIN t = DOMAIN u.metrics /\ \A k \in DOMAIN s : s[k] = t[q[k]]
    BY <2>5, <2>7
  <2>9. IsFiniteSet(DOMAIN r.metrics)
    BY FinitelyMany DEF BatchOK
  <2> HIDE DEF s, t, r, u
  <2>10. Bag(s) = Bag(t)
    BY <2>5, <2>8, <2>9, PairedBags
  <2> QED BY <2>2, <2>3, <2>10 DEF BlurredResource, s, t, r, u
<1> DEFINE s == [i \in DOMAIN b |-> BlurredResource(b[i], c)]
           t == [i \in DOMAIN v |-> BlurredResource(v[i], c)]
<1>5. DOMAIN s = DOMAIN b /\ DOMAIN t = DOMAIN v /\ \A i \in DOMAIN s : s[i] = t[p[i]]
  BY <1>3, <1>4
<1>6. IsFiniteSet(DOMAIN b)
  BY FinitelyMany
<1> HIDE DEF s, t
<1>7. Bag(s) = Bag(t)
  BY <1>3, <1>5, <1>6, PairedBags
<1> QED BY <1>7, ContentIs DEF s, t

-----------------------------------------------------------------------------
(* From bags to pairs.                                                     *)

\* Sequences with the same elements as often can be paired off.
LEMMA BagsPaired ==
  ASSUME NEW s, NEW t, IsFiniteSet(DOMAIN s), IsFiniteSet(DOMAIN t), Bag(s) = Bag(t)
  PROVE  \E p \in Bijection(DOMAIN s, DOMAIN t) : \A i \in DOMAIN s : s[i] = t[p[i]]
<1> DEFINE A(x) == {i \in DOMAIN s : s[i] = x}
           B(x) == {j \in DOMAIN t : t[j] = x}
<1>1. Range(s) = Range(t) /\ \A x \in Range(s) : Cardinality(A(x)) = Cardinality(B(x))
  <2>1. DOMAIN Bag(s) = Range(s) /\ DOMAIN Bag(t) = Range(t)
    BY DEF Bag
  <2>2. \A x \in Range(s) : Bag(s)[x] = Cardinality(A(x))
    BY DEF Bag
  <2>3. \A x \in Range(t) : Bag(t)[x] = Cardinality(B(x))
    BY DEF Bag
  <2> HIDE DEF A, B
  <2> QED BY <2>1, <2>2, <2>3
<1> DEFINE q == [x \in Range(s) |-> CHOOSE g : g \in Bijection(A(x), B(x))]
           p == [i \in DOMAIN s |-> q[s[i]][i]]
<1>2. ASSUME NEW x \in Range(s) PROVE q[x] \in Bijection(A(x), B(x))
  <2>1. A(x) \in SUBSET DOMAIN s /\ B(x) \in SUBSET DOMAIN t
    OBVIOUS
  <2>2. q[x] = CHOOSE g : g \in Bijection(A(x), B(x))
    OBVIOUS
  <2> HIDE DEF A, B, q
  <2>3. IsFiniteSet(A(x)) /\ IsFiniteSet(B(x))
    BY <2>1, FS_Subset
  <2>4. ExistsBijection(A(x), B(x))
    BY <1>1, <2>3, FS_SameCardinalityBij
  <2>5. \E g : g \in Bijection(A(x), B(x))
    BY <2>4 DEF ExistsBijection
  <2> QED BY <2>2, <2>5
<1>3. ASSUME NEW x \in Range(s)
      PROVE  /\ q[x] \in [A(x) -> B(x)]
             /\ \A i, j \in A(x) : q[x][i] = q[x][j] => i = j
             /\ \A j \in B(x) : \E i \in A(x) : q[x][i] = j
  <2> HIDE DEF A, B, q
  <2> QED BY <1>2 DEF Bijection, Injection, Surjection, IsInjective
<1> HIDE DEF q
<1>4. ASSUME NEW i \in DOMAIN s PROVE s[i] \in Range(s) /\ i \in A(s[i]) /\ p[i] = q[s[i]][i] /\ p[i] \in B(s[i])
  <2>1. s[i] \in Range(s) /\ i \in A(s[i]) /\ p[i] = q[s[i]][i]
    BY DEF Range
  <2> HIDE DEF A, B, p
  <2> QED BY <1>3, <2>1
<1>5. \A i \in DOMAIN s : p[i] \in DOMAIN t /\ t[p[i]] = s[i]
  BY <1>4
<1>6. ASSUME NEW i \in DOMAIN s, NEW j \in DOMAIN s, p[i] = p[j] PROVE i = j
  <2>1. s[i] = s[j]
    BY <1>5, <1>6
  <2> HIDE DEF A, B, p
  <2>2. i \in A(s[i]) /\ j \in A(s[i]) /\ s[i] \in Range(s) /\ q[s[i]][i] = q[s[i]][j]
    BY <1>4, <1>6, <2>1
  <2> QED BY <1>3, <2>2
<1>7. ASSUME NEW j \in DOMAIN t PROVE \E i \in DOMAIN s : p[i] = j
  <2>1. t[j] \in Range(s) /\ j \in B(t[j])
    BY <1>1 DEF Range
  <2>2. PICK i \in A(t[j]) : q[t[j]][i] = j
    <3> HIDE DEF A, B
    <3> QED BY <1>3, <2>1
  <2>3. i \in DOMAIN s /\ s[i] = t[j]
    OBVIOUS
  <2> QED BY <1>4, <2>2, <2>3
<1>8. p \in [DOMAIN s -> DOMAIN t] /\ DOMAIN p = DOMAIN s
  BY <1>5
<1> HIDE DEF p
<1>9. p \in Bijection(DOMAIN s, DOMAIN t)
  BY <1>6, <1>7, <1>8 DEF Bijection, Injection, Surjection, IsInjective
<1> QED BY <1>5, <1>9

\* A bijection between parts of two sets.
LEMMA RestrictedBijection ==
  ASSUME NEW S, NEW T, NEW g \in Bijection(S, T), NEW A, A \subseteq S, NEW B, B \subseteq T,
         \A x \in S : x \in A <=> g[x] \in B
  PROVE  Restrict(g, A) \in Bijection(A, B) /\ \A x \in A : Restrict(g, A)[x] = g[x]
<1> DEFINE q == Restrict(g, A)
<1>1. /\ g \in [S -> T]
      /\ \A i, j \in S : g[i] = g[j] => i = j
      /\ \A j \in T : \E i \in S : g[i] = j
  BY DEF Bijection, Injection, Surjection, IsInjective
<1>2. q \in [A -> B] /\ DOMAIN q = A /\ \A x \in A : q[x] = g[x]
  BY <1>1 DEF Restrict
<1> HIDE DEF q
<1>3. \A j \in B : \E i \in A : q[i] = j
  BY <1>1, <1>2
<1>4. q \in Bijection(A, B)
  BY <1>1, <1>2, <1>3 DEF Bijection, Injection, Surjection, IsInjective
<1> QED BY <1>2, <1>4 DEF q

-----------------------------------------------------------------------------
(* Metrics that match before they are prepared match afterwards.           *)

\* The datapoints at A in m and those at B in n can be paired off.
Match(m, A, n, B, c) ==
  \E g \in Bijection(A, B) : \A j \in A : BlurredPoint(m.dps[j], c) = BlurredPoint(n.dps[g[j]], c)

\* Datapoints of metrics with this name that are the same once they are blurred,
\* and are both selected or both not.
Twins(name, d, e, c) ==
  /\ BlurredPoint(d, c) = BlurredPoint(e, c)
  /\ name = c.selected.name => (Chosen(d, c) <=> Chosen(e, c))

\* As much as the preparation of a metric depends on: the datapoints are twins,
\* in place where the order counts.
Alike(m, n, c) ==
  /\ m.name = n.name /\ m.type = n.type
  /\ IF c.max > 0
       THEN DOMAIN m.dps = DOMAIN n.dps /\ \A j \in DOMAIN m.dps : Twins(m.name, m.dps[j], n.dps[j], c)
       ELSE \E g \in Bijection(DOMAIN m.dps, DOMAIN n.dps) :
              \A j \in DOMAIN m.dps : Twins(m.name, m.dps[j], n.dps[g[j]], c)

\* The datapoints of metrics that are alike can be paired off.
LEMMA AlikeMatches ==
  ASSUME NEW m, NEW n, NEW c, Alike(m, n, c)
  PROVE  Match(m, DOMAIN m.dps, n, DOMAIN n.dps, c)
<1> DEFINE A == DOMAIN m.dps
           g == [x \in A |-> x]
<1>1. g \in Bijection(A, A) /\ \A x \in A : g[x] = x
  BY IdentityIsBijection
<1> HIDE DEF g
<1> QED BY <1>1 DEF Match, Alike, Twins

\* The datapoints at A and B, where a datapoint is in A if its partner is in B.
LEMMA MatchingParts ==
  ASSUME NEW m, NEW n, NEW c, MetricOK(m, c), MetricOK(n, c), Alike(m, n, c),
         NEW A, A \subseteq DOMAIN m.dps, NEW B, B \subseteq DOMAIN n.dps,
         \A j \in DOMAIN m.dps, l \in DOMAIN n.dps :
           Twins(m.name, m.dps[j], n.dps[l], c) /\ (c.max > 0 => j = l) => (j \in A <=> l \in B)
  PROVE  Alike([m EXCEPT !.dps = Restrict(@, A)], [n EXCEPT !.dps = Restrict(@, B)], c)
<1> DEFINE x == [m EXCEPT !.dps = Restrict(@, A)]
           y == [n EXCEPT !.dps = Restrict(@, B)]
<1>1. PartOf(x, m) /\ DOMAIN x.dps = A /\ PartOf(y, n) /\ DOMAIN y.dps = B
  BY RestrictedMetric
<1> HIDE DEF x, y
<1>2. /\ x.name = m.name /\ x.name = y.name /\ x.type = y.type
      /\ \A j \in A : x.dps[j] = m.dps[j]
      /\ \A l \in B : y.dps[l] = n.dps[l]
  BY <1>1 DEF PartOf, Alike
<1>3. CASE c.max > 0
  <2>1. /\ DOMAIN m.dps = DOMAIN n.dps
        /\ \A j \in DOMAIN m.dps : Twins(m.name, m.dps[j], n.dps[j], c)
    BY <1>3 DEF Alike
  <2>2. A = B
    BY <2>1
  <2> QED BY <1>1, <1>2, <1>3, <2>1, <2>2 DEF Alike, x, y
<1>4. CASE ~(c.max > 0)
  <2>1. PICK g \in Bijection(DOMAIN m.dps, DOMAIN n.dps) :
          \A j \in DOMAIN m.dps : Twins(m.name, m.dps[j], n.dps[g[j]], c)
    BY <1>4 DEF Alike
  <2>2. \A j \in DOMAIN m.dps : g[j] \in DOMAIN n.dps
    BY DEF Bijection, Injection
  <2>3. \A j \in DOMAIN m.dps : j \in A <=> g[j] \in B
    BY <1>4, <2>1, <2>2
  <2>4. Restrict(g, A) \in Bijection(A, B) /\ \A j \in A : Restrict(g, A)[j] = g[j]
    <3> DEFINE S == DOMAIN m.dps
               T == DOMAIN n.dps
    <3>1. g \in Bijection(S, T) /\ A \subseteq S /\ B \subseteq T /\ \A j \in S : j \in A <=> g[j] \in B
      BY <2>3
    <3> HIDE DEF S, T
    <3> QED BY <3>1, RestrictedBijection
  <2>5. \E q \in Bijection(A, B) : \A j \in A : Twins(x.name, x.dps[j], y.dps[q[j]], c)
    <3> DEFINE q == Restrict(g, A)
    <3> HIDE DEF q
    <3>1. q \in Bijection(A, B) /\ \A j \in A : q[j] = g[j] /\ q[j] \in B
      BY <2>4 DEF Bijection, Injection, q
    <3>2. \A j \in A : Twins(x.name, x.dps[j], y.dps[q[j]], c)
      BY <1>2, <2>1, <3>1
    <3> QED BY <3>1, <3>2
  <2> QED BY <1>1, <1>2, <1>4, <2>5 DEF Alike, x, y
<1> QED BY <1>3, <1>4

\* Datapoints that are the same once they are blurred.
LEMMA SameBlur ==
  ASSUME NEW d, NEW e, NEW c, BlurredPoint(d, c) = BlurredPoint(e, c)
  PROVE  /\ AgreeExcept(d.attrs, e.attrs, PointMayChange(e.attrs, c))
         /\ c.bounds => d.bounds = e.bounds
<1> DEFINE K(a) == PointMayChange(a, c)
           x == d.attrs
           y == e.attrs
<1>1. \A p : BlurredPoint(p, c) = [attrs |-> Blur(p.attrs, K(p.attrs)),
                                   bounds |-> IF c.bounds THEN p.bounds ELSE 0]
  BY DEF BlurredPoint, PointMayChange
<1>2. Blur(x, K(x)) = Blur(y, K(y)) /\ (c.bounds => d.bounds = e.bounds)
  <2> HIDE DEF K
  <2>1. /\ BlurredPoint(d, c).attrs = BlurredPoint(e, c).attrs
        /\ BlurredPoint(d, c).bounds = BlurredPoint(e, c).bounds
    OBVIOUS
  <2> QED BY <1>1, <2>1
<1> HIDE DEF x, y
<1>3. \A a, L : DOMAIN Blur(a, L) = DOMAIN a /\ \A k \in DOMAIN a \ L : Blur(a, L)[k] = a[k]
  BY DEF Blur
<1>4. DOMAIN x = DOMAIN y
  <2> HIDE DEF K
  <2> QED BY <1>2, <1>3
<1>5. K(x) = K(y)
  BY <1>4 DEF PointMayChange
<1>6. \A k \in DOMAIN y \ K(y) : x[k] = y[k]
  <2> HIDE DEF K
  <2> QED BY <1>2, <1>3, <1>4, <1>5
<1> QED BY <1>2, <1>4, <1>6 DEF AgreeExcept, x, y

\* The same datapoints are chosen of metrics that are alike.
LEMMA ChosenAlike ==
  ASSUME NEW m, NEW n, NEW c, MetricOK(m, c), MetricOK(n, c), Alike(m, n, c), m.name = c.selected.name
  PROVE  Alike(ChosenDatapoints(m, c), ChosenDatapoints(n, c), c)
<1> DEFINE A == {j \in DOMAIN m.dps : Chosen(m.dps[j], c)}
           B == {j \in DOMAIN n.dps : Chosen(n.dps[j], c)}
<1>1. \A j \in DOMAIN m.dps, l \in DOMAIN n.dps :
        Twins(m.name, m.dps[j], n.dps[l], c) => (j \in A <=> l \in B)
  BY DEF Twins
<1>2. A \subseteq DOMAIN m.dps /\ B \subseteq DOMAIN n.dps
  OBVIOUS
<1>3. /\ ChosenDatapoints(m, c) = [m EXCEPT !.dps = Restrict(@, A)]
      /\ ChosenDatapoints(n, c) = [n EXCEPT !.dps = Restrict(@, B)]
  BY DEF ChosenDatapoints
<1> HIDE DEF A, B
<1>4. Alike([m EXCEPT !.dps = Restrict(@, A)], [n EXCEPT !.dps = Restrict(@, B)], c)
  BY <1>1, <1>2, MatchingParts
<1> QED BY <1>3, <1>4

\* The same datapoints are left by ReduceDatapoints of metrics that are alike.
LEMMA ReducedAlike ==
  ASSUME NEW m, NEW n, NEW c, MetricOK(m, c), MetricOK(n, c), Alike(m, n, c), c.max > 0
  PROVE  Alike(ReduceDatapoints(m, c.max), ReduceDatapoints(n, c.max), c)
<1> DEFINE max == c.max
           D(x) == DOMAIN x.dps
           S(x) == {j \in D(x) : Cardinality({l \in D(x) : l <= j}) <= max}
<1>1. m.type = n.type /\ D(m) = D(n)
  BY DEF Alike
<1>2. CASE m.type = "exponential"
  BY <1>1, <1>2 DEF ReduceDatapoints
<1>3. CASE m.type # "exponential"
  <2>1. /\ ReduceDatapoints(m, max) = [m EXCEPT !.dps = Restrict(@, S(m))]
        /\ ReduceDatapoints(n, max) = [n EXCEPT !.dps = Restrict(@, S(n))]
    BY <1>1, <1>3 DEF ReduceDatapoints
  <2>2. S(m) = S(n) /\ S(m) \subseteq DOMAIN m.dps /\ S(n) \subseteq DOMAIN n.dps
    BY <1>1
  <2> HIDE DEF S
  <2>3. Alike([m EXCEPT !.dps = Restrict(@, S(m))], [n EXCEPT !.dps = Restrict(@, S(n))], c)
    BY <2>2, MatchingParts
  <2> QED BY <2>1, <2>3
<1> QED BY <1>2, <1>3

\* The hash tells the series of m and of n apart.
HashTells(m, n, c) ==
  LET mask(p) == SortableAttrs(p.attrs, FlexibleAttrs(c)) IN
  \A j \in DOMAIN m.dps, l \in DOMAIN n.dps :
    Hash(mask(m.dps[j])) = Hash(mask(n.dps[l])) => mask(m.dps[j]) = mask(n.dps[l])

\* keepFirstDatapoint keeps the same series of metrics that are alike.
LEMMA FirstAlike ==
  ASSUME NEW m, NEW n, NEW c, MetricOK(m, c), MetricOK(n, c), Alike(m, n, c),
         HashTells(m, n, c), ~c.existsExcept, ~c.bounds
  PROVE  LET x == KeepFirstDatapoint(m, FlexibleAttrs(c))
             y == KeepFirstDatapoint(n, FlexibleAttrs(c))
         IN  Match(x, DOMAIN x.dps, y, DOMAIN y.dps, c)
<1> DEFINE F == FlexibleAttrs(c)
           Mask(d) == SortableAttrs(d.attrs, F)
           D == DOMAIN m.dps
           E == DOMAIN n.dps
           x == KeepFirstDatapoint(m, F)
           y == KeepFirstDatapoint(n, F)
<1>1. \A d : BlurredPoint(d, c) = [attrs |-> Mask(d), bounds |-> 0]
  BY DEF BlurredPoint, Blur, SortableAttrs, MayChange, FlexibleAttrs
<1>2. PICK g \in Bijection(D, E) : \A j \in D : BlurredPoint(m.dps[j], c) = BlurredPoint(n.dps[g[j]], c)
  <2>1. Match(m, D, n, E, c)
    BY AlikeMatches
  <2> QED BY <2>1 DEF Match
<1>3. /\ \A j \in D : g[j] \in E
      /\ \A l \in E : \E j \in D : g[j] = l
  BY DEF Bijection, Injection, Surjection
<1>4. \A j \in D : Mask(m.dps[j]) = Mask(n.dps[g[j]])
  <2> HIDE DEF Mask, D, E
  <2>1. \A j \in D : BlurredPoint(m.dps[j], c).attrs = BlurredPoint(n.dps[g[j]], c).attrs
    BY <1>2
  <2> QED BY <1>1, <2>1
<1>5. CASE D = {}
  <2>1. E = {}
    BY <1>3, <1>5
  <2>2. x = m /\ y = n
    BY <1>5, <2>1 DEF KeepFirstDatapoint
  <2> QED BY <1>2, <2>2 DEF Match
<1>6. CASE D # {}
  <2>1. E # {}
    BY <1>3, <1>6
  <2>2. PICK i \in D : IsFirst(i, m, F) /\ x = [m EXCEPT !.dps = Restrict(@, {i})]
    BY <1>6, FirstDatapoint
  <2>3. PICK k \in E : IsFirst(k, n, F) /\ y = [n EXCEPT !.dps = Restrict(@, {k})]
    <3>1. DOMAIN n.dps # {}
      BY <2>1
    <3>0. F = FlexibleAttrs(c) /\ MetricOK(n, c)
      OBVIOUS
    <3> HIDE DEF E, D, F
    <3>2. PICK k \in DOMAIN n.dps :
            IsFirst(k, n, F) /\ KeepFirstDatapoint(n, F) = [n EXCEPT !.dps = Restrict(@, {k})]
      BY ONLY <3>0, <3>1, FirstDatapoint
    <3> QED BY <3>2 DEF E
  <2> DEFINE X(j) == Hash(Mask(m.dps[j]))
             Y(l) == Hash(Mask(n.dps[l]))
  <2>4. \A j \in D : X(i) <= X(j) /\ X(j) \in Nat
    BY <2>2 DEF IsFirst, MetricOK, PointsOK
  <2>5. \A l \in E : Y(k) <= Y(l) /\ Y(l) \in Nat
    BY <2>3 DEF IsFirst, MetricOK, PointsOK
  <2>6. Mask(m.dps[i]) = Mask(n.dps[k])
    <3>1. X(i) = Y(g[i])
      BY <1>4
    <3>2. PICK j \in D : g[j] = k
      BY <1>3
    <3>3. X(j) = Y(k)
      BY <1>4, <3>2
    <3> HIDE DEF X, Y, D, E
    <3>4. X(i) = Y(k)
      BY <1>3, <2>4, <2>5, <3>1, <3>2, <3>3
    <3> QED BY <3>4 DEF HashTells, X, Y, D, E
  <2>7. BlurredPoint(m.dps[i], c) = BlurredPoint(n.dps[k], c)
    <3> HIDE DEF Mask
    <3> QED BY <1>1, <2>6
  <2> HIDE DEF x, y
  <2>8. DOMAIN x.dps = {i} /\ x.dps[i] = m.dps[i] /\ DOMAIN y.dps = {k} /\ y.dps[k] = n.dps[k]
    <3>1. {i} \subseteq DOMAIN m.dps /\ {k} \subseteq DOMAIN n.dps
      OBVIOUS
    <3>2. DOMAIN x.dps = {i} /\ PartOf(x, m)
      BY <2>2, <3>1, RestrictedMetric
    <3>3. DOMAIN y.dps = {k} /\ PartOf(y, n)
      BY <2>3, <3>1, RestrictedMetric
    <3> QED BY <3>2, <3>3 DEF PartOf
  <2> DEFINE q == [j \in {i} |-> k]
  <2>9. q \in Bijection({i}, {k}) /\ q[i] = k
    BY DEF Bijection, Injection, Surjection, IsInjective
  <2> HIDE DEF q
  <2>10. Match(x, {i}, y, {k}, c)
    BY <2>7, <2>8, <2>9 DEF Match
  <2> QED BY <2>8, <2>10 DEF x, y
<1> QED BY <1>5, <1>6

\* Metrics that match are the same once they are blurred.
LEMMA MatchedMetrics ==
  ASSUME NEW x, NEW y, NEW c, MetricOK(x, c), x.name = y.name, x.type = y.type,
         Match(x, DOMAIN x.dps, y, DOMAIN y.dps, c)
  PROVE  BlurredMetric(x, c) = BlurredMetric(y, c)
<1>1. PICK g \in Bijection(DOMAIN x.dps, DOMAIN y.dps) :
        \A j \in DOMAIN x.dps : BlurredPoint(x.dps[j], c) = BlurredPoint(y.dps[g[j]], c)
  BY DEF Match
<1>2. \A j \in DOMAIN x.dps : g[j] \in DOMAIN y.dps
  BY DEF Bijection, Injection
<1> DEFINE s == BlurredPoints(x, c)
           t == BlurredPoints(y, c)
<1>3. DOMAIN s = DOMAIN x.dps /\ DOMAIN t = DOMAIN y.dps /\ \A j \in DOMAIN s : s[j] = t[g[j]]
  BY <1>1, <1>2 DEF BlurredPoints
<1>4. IsFiniteSet(DOMAIN x.dps)
  BY DEF MetricOK, PointsOK
<1> HIDE DEF s, t
<1>5. Bag(s) = Bag(t)
  BY <1>1, <1>3, <1>4, PairedBags
<1> QED BY <1>5 DEF BlurredMetric, s, t

\* The order and what else may change make no difference to what is left of a
\* metric.
LEMMA PreparedAlike ==
  ASSUME NEW m, NEW n, NEW c, MetricOK(m, c), MetricOK(n, c), Alike(m, n, c), HashTells(m, n, c),
         c.max \in Int, c.first # {} => ~c.bounds /\ ~c.existsExcept
  PROVE  BlurredMetric(PrepareMetric(m, c), c) = BlurredMetric(PrepareMetric(n, c), c)
<1> DEFINE R(z) == IF c.max > 0 THEN ReduceDatapoints(z, c.max) ELSE z
           x == R(m)
           y == R(n)
           F == FlexibleAttrs(c)
<1>1. \A z : PrepareMetric(z, c) = IF z.name \in c.first THEN KeepFirstDatapoint(R(z), F) ELSE R(z)
  BY DEF PrepareMetric
<1>2. /\ MetricOK(x, c) /\ PartOf(x, m) /\ MetricOK(y, c) /\ PartOf(y, n) /\ Alike(x, y, c)
  <2>1. CASE c.max > 0
    BY <2>1, Reduced, ReducedAlike
  <2>2. CASE ~(c.max > 0)
    BY <2>2, PartOfItself
  <2> QED BY <2>1, <2>2
<1> HIDE DEF R, x, y
<1>3. HashTells(x, y, c)
  BY <1>2 DEF HashTells, PartOf
<1>4. m.name = n.name /\ x.name = y.name /\ x.type = y.type
  BY <1>2 DEF Alike
<1>5. CASE m.name \in c.first
  <2> DEFINE k == KeepFirstDatapoint(x, F)
             l == KeepFirstDatapoint(y, F)
  <2>1. MetricOK(k, c) /\ PartOf(k, x) /\ MetricOK(l, c) /\ PartOf(l, y)
    BY <1>2, KeptFirst
  <2>2. Match(k, DOMAIN k.dps, l, DOMAIN l.dps, c)
    BY <1>2, <1>3, <1>5, FirstAlike
  <2>3. PrepareMetric(m, c) = k /\ PrepareMetric(n, c) = l
    BY <1>1, <1>4, <1>5 DEF x, y
  <2> HIDE DEF k, l
  <2>4. k.name = l.name /\ k.type = l.type
    BY <1>4, <2>1 DEF PartOf
  <2>5. BlurredMetric(k, c) = BlurredMetric(l, c)
    BY <2>1, <2>2, <2>4, MatchedMetrics
  <2> QED BY <2>3, <2>5
<1>6. CASE m.name \notin c.first
  <2>1. PrepareMetric(m, c) = x /\ PrepareMetric(n, c) = y
    BY <1>1, <1>4, <1>6 DEF x, y
  <2>2. Match(x, DOMAIN x.dps, y, DOMAIN y.dps, c)
    BY <1>2, AlikeMatches
  <2> QED BY <1>2, <1>4, <2>1, <2>2, MatchedMetrics
<1> QED BY <1>5, <1>6

-----------------------------------------------------------------------------
(* Batches of the same shape.                                              *)

\* What Shape keeps of a metric and of a resource.
ShapedMetric(m, c) ==
  [name |-> m.name, type |-> m.type,
   dps |-> IF c.max > 0 THEN ShapedPoints(m, c) ELSE Bag(ShapedPoints(m, c))]

ShapedResource(r, c) ==
  [attrs   |-> Blur(r.attrs, MayChange(c)),
   version |-> IF c.version # {} THEN 0 ELSE r.version,
   metrics |-> Bag([k \in DOMAIN r.metrics |-> ShapedMetric(r.metrics[k], c)])]

\* Shape in terms of these.
LEMMA ShapeIs ==
  ASSUME NEW b, NEW c
  PROVE  LET s == [i \in DOMAIN b |-> ShapedResource(b[i], c)]
         IN  Shape(b, c) = IF DOMAIN c.selected.attrs # {} THEN s ELSE Bag(s)
BY DEF Shape, Blurred, ShapedResource, ShapedMetric

\* Metrics of the same shape are alike.
LEMMA ShapedAlike ==
  ASSUME NEW m, NEW n, NEW c, MetricOK(m, c), MetricOK(n, c), ShapedMetric(m, c) = ShapedMetric(n, c)
  PROVE  Alike(m, n, c)
<1> DEFINE s == ShapedPoints(m, c)
           t == ShapedPoints(n, c)
           S(x) == IF c.max > 0 THEN x ELSE Bag(x)
<1>1. DOMAIN s = DOMAIN m.dps /\ DOMAIN t = DOMAIN n.dps
  BY DEF ShapedPoints
<1>2. \A z : LET x == ShapedMetric(z, c) IN
              x.name = z.name /\ x.type = z.type /\ x.dps = S(ShapedPoints(z, c))
  BY DEF ShapedMetric
<1>3. IsFiniteSet(DOMAIN m.dps) /\ IsFiniteSet(DOMAIN n.dps)
  BY DEF MetricOK, PointsOK
<1>4. ASSUME m.name = n.name, NEW j \in DOMAIN m.dps, NEW l \in DOMAIN n.dps, s[j] = t[l]
      PROVE  Twins(m.name, m.dps[j], n.dps[l], c)
  <2> DEFINE C(z, d) == z.name = c.selected.name => Chosen(d, c)
  <2>1. /\ s[j].point = BlurredPoint(m.dps[j], c) /\ s[j].chosen = C(m, m.dps[j])
        /\ t[l].point = BlurredPoint(n.dps[l], c) /\ t[l].chosen = C(n, n.dps[l])
    BY DEF ShapedPoints
  <2> HIDE DEF s, t
  <2>2. BlurredPoint(m.dps[j], c) = BlurredPoint(n.dps[l], c) /\ (C(m, m.dps[j]) <=> C(n, n.dps[l]))
    BY <1>4, <2>1
  <2> QED BY <1>4, <2>2 DEF Twins
<1> HIDE DEF s, t
<1>5. m.name = n.name /\ m.type = n.type /\ S(s) = S(t)
  <2> HIDE DEF S
  <2> QED BY <1>2 DEF s, t
<1>6. CASE c.max > 0
  BY <1>1, <1>5, <1>6, <1>4 DEF Alike
<1>7. CASE ~(c.max > 0)
  <2>1. Bag(s) = Bag(t)
    BY <1>5, <1>7
  <2>2. PICK g \in Bijection(DOMAIN s, DOMAIN t) : \A i \in DOMAIN s : s[i] = t[g[i]]
    BY <1>1, <1>3, <2>1, BagsPaired
  <2>3. \A i \in DOMAIN s : g[i] \in DOMAIN t
    BY DEF Bijection, Injection
  <2>4. \A j \in DOMAIN m.dps : Twins(m.name, m.dps[j], n.dps[g[j]], c)
    BY <1>1, <1>5, <1>4, <2>2, <2>3
  <2> QED BY <1>1, <1>5, <1>7, <2>4 DEF Alike
<1> QED BY <1>6, <1>7

\* The metrics of resources of the same shape.
LEMMA ShapedResources ==
  ASSUME NEW r, NEW u, NEW c, ResourceOK(r, c), ResourceOK(u, c),
         ShapedResource(r, c) = ShapedResource(u, c)
  PROVE  /\ Blur(r.attrs, MayChange(c)) = Blur(u.attrs, MayChange(c))
         /\ c.version = {} => r.version = u.version
         /\ \E q \in Bijection(DOMAIN r.metrics, DOMAIN u.metrics) :
              \A k \in DOMAIN r.metrics : Alike(r.metrics[k], u.metrics[q[k]], c)
<1> DEFINE s == [k \in DOMAIN r.metrics |-> ShapedMetric(r.metrics[k], c)]
           t == [k \in DOMAIN u.metrics |-> ShapedMetric(u.metrics[k], c)]
<1>1. /\ DOMAIN s = DOMAIN r.metrics /\ \A k \in DOMAIN r.metrics : s[k] = ShapedMetric(r.metrics[k], c)
      /\ DOMAIN t = DOMAIN u.metrics /\ \A k \in DOMAIN u.metrics : t[k] = ShapedMetric(u.metrics[k], c)
  OBVIOUS
<1> DEFINE V(z) == IF c.version # {} THEN 0 ELSE z.version
           x == ShapedResource(r, c)
           y == ShapedResource(u, c)
<1>2. /\ x.attrs = Blur(r.attrs, MayChange(c)) /\ x.version = V(r) /\ x.metrics = Bag(s)
      /\ y.attrs = Blur(u.attrs, MayChange(c)) /\ y.version = V(u) /\ y.metrics = Bag(t)
  BY DEF ShapedResource
<1> HIDE DEF s, t
<1>3. /\ Blur(r.attrs, MayChange(c)) = Blur(u.attrs, MayChange(c))
      /\ c.version = {} => r.version = u.version
      /\ Bag(s) = Bag(t)
  BY <1>2
<1>4. IsFiniteSet(DOMAIN s) /\ IsFiniteSet(DOMAIN t)
  BY <1>1, FinitelyMany
<1>5. PICK q \in Bijection(DOMAIN s, DOMAIN t) : \A k \in DOMAIN s : s[k] = t[q[k]]
  BY <1>3, <1>4, BagsPaired
<1>6. \A k \in DOMAIN s : q[k] \in DOMAIN t
  BY DEF Bijection, Injection
<1>7. ASSUME NEW k \in DOMAIN r.metrics PROVE Alike(r.metrics[k], u.metrics[q[k]], c)
  <2>1. q[k] \in DOMAIN u.metrics /\ ShapedMetric(r.metrics[k], c) = ShapedMetric(u.metrics[q[k]], c)
    BY <1>1, <1>5, <1>6
  <2>2. MetricOK(r.metrics[k], c) /\ MetricOK(u.metrics[q[k]], c)
    BY <2>1 DEF ResourceOK
  <2> QED BY <2>1, <2>2, ShapedAlike
<1>8. \E z \in Bijection(DOMAIN r.metrics, DOMAIN u.metrics) :
        \A k \in DOMAIN r.metrics : Alike(r.metrics[k], u.metrics[z[k]], c)
  BY <1>1, <1>5, <1>7
<1> QED BY <1>3, <1>8

\* The resources of batches of the same shape; they come in the same order if
\* a datapoint is selected.
LEMMA ShapedBatches ==
  ASSUME NEW a, NEW b, NEW c, BatchOK(a, c), BatchOK(b, c), Shape(a, c) = Shape(b, c)
  PROVE  \E p \in Bijection(DOMAIN a, DOMAIN b) : \A i \in DOMAIN a :
           /\ ShapedResource(a[i], c) = ShapedResource(b[p[i]], c)
           /\ DOMAIN c.selected.attrs # {} => p[i] = i
<1> DEFINE s == [i \in DOMAIN a |-> ShapedResource(a[i], c)]
           t == [i \in DOMAIN b |-> ShapedResource(b[i], c)]
<1>1. /\ DOMAIN s = DOMAIN a /\ \A i \in DOMAIN a : s[i] = ShapedResource(a[i], c)
      /\ DOMAIN t = DOMAIN b /\ \A i \in DOMAIN b : t[i] = ShapedResource(b[i], c)
  OBVIOUS
<1>2. IF DOMAIN c.selected.attrs # {} THEN s = t ELSE Bag(s) = Bag(t)
  <2>1. Shape(a, c) = IF DOMAIN c.selected.attrs # {} THEN s ELSE Bag(s)
    BY ShapeIs
  <2>2. Shape(b, c) = IF DOMAIN c.selected.attrs # {} THEN t ELSE Bag(t)
    BY ShapeIs
  <2> HIDE DEF s, t
  <2> QED BY <2>1, <2>2
<1> HIDE DEF s, t
<1>3. CASE DOMAIN c.selected.attrs # {}
  <2> DEFINE p == [i \in DOMAIN a |-> i]
  <2>1. DOMAIN a = DOMAIN b /\ \A i \in DOMAIN a : ShapedResource(a[i], c) = ShapedResource(b[i], c)
    BY <1>1, <1>2, <1>3
  <2>2. p \in Bijection(DOMAIN a, DOMAIN b) /\ \A i \in DOMAIN a : p[i] = i
    BY <2>1, IdentityIsBijection
  <2> HIDE DEF p
  <2> QED BY <2>1, <2>2
<1>4. CASE DOMAIN c.selected.attrs = {}
  <2>1. IsFiniteSet(DOMAIN s) /\ IsFiniteSet(DOMAIN t)
    BY <1>1, FinitelyMany
  <2>2. PICK p \in Bijection(DOMAIN s, DOMAIN t) : \A i \in DOMAIN s : s[i] = t[p[i]]
    BY <1>2, <1>4, <2>1, BagsPaired
  <2>3. \A i \in DOMAIN s : p[i] \in DOMAIN t
    BY DEF Bijection, Injection
  <2> QED BY <1>1, <1>4, <2>2, <2>3
<1> QED BY <1>3, <1>4

\* Some metric of the resource has the name.
HasMetric(r, name) == \E k \in DOMAIN r.metrics : r.metrics[k].name = name

\* No two metrics of a resource have the same name.
UniqueNames(b) == \A i \in DOMAIN b : \A k, l \in DOMAIN b[i].metrics :
  b[i].metrics[k].name = b[i].metrics[l].name => k = l

\* GetMetric finds a metric if it is in the first resource that has the name.
LEMMA FirstNamed ==
  ASSUME NEW b, NEW c, BatchOK(b, c), UniqueNames(b), NEW name,
         NEW i \in DOMAIN b, NEW k \in DOMAIN b[i].metrics
  PROVE  <<i, k>> \in GetMetric(b, name) <=>
           b[i].metrics[k].name = name /\ \A h1 \in DOMAIN b : h1 < i => ~HasMetric(b[h1], name)
<1> DEFINE All == UNION {{x} \X DOMAIN b[x].metrics : x \in DOMAIN b}
           Named == {p \in All : b[p[1]].metrics[p[2]].name = name}
<1>1. GetMetric(b, name) =
        {p \in Named : \A q \in Named : p[1] < q[1] \/ (p[1] = q[1] /\ p[2] <= q[2])}
  BY DEF GetMetric
<1>2. /\ \A p \in Named : /\ p[1] \in DOMAIN b /\ p[2] \in DOMAIN b[p[1]].metrics
                          /\ b[p[1]].metrics[p[2]].name = name
  OBVIOUS
<1>3. \A x \in DOMAIN b : \A y \in DOMAIN b[x].metrics :
        b[x].metrics[y].name = name => <<x, y>> \in Named
  OBVIOUS
<1>4. /\ \A x \in DOMAIN b : x \in Nat
      /\ \A x \in DOMAIN b : \A y \in DOMAIN b[x].metrics : y \in Nat
  BY DEF BatchOK, ResourceOK
<1> HIDE DEF Named
<1>5. ASSUME <<i, k>> \in GetMetric(b, name)
      PROVE  b[i].metrics[k].name = name /\ \A h1 \in DOMAIN b : h1 < i => ~HasMetric(b[h1], name)
  <2>1. <<i, k>> \in Named
    BY <1>1, <1>5
  <2>2. ASSUME NEW x \in DOMAIN b, x < i, HasMetric(b[x], name) PROVE FALSE
    <3>1. PICK y \in DOMAIN b[x].metrics : b[x].metrics[y].name = name
      BY <2>2 DEF HasMetric
    <3>2. <<x, y>> \in Named
      BY <1>3, <3>1
    <3>3. i < x \/ i = x
      BY <1>1, <1>5, <3>2
    <3> QED BY <1>4, <2>2, <3>3
  <2> QED BY <1>2, <2>1, <2>2
<1>6. ASSUME b[i].metrics[k].name = name, \A h1 \in DOMAIN b : h1 < i => ~HasMetric(b[h1], name)
      PROVE  <<i, k>> \in GetMetric(b, name)
  <2>1. <<i, k>> \in Named
    BY <1>3, <1>6
  <2>2. ASSUME NEW q \in Named PROVE i < q[1] \/ (i = q[1] /\ k <= q[2])
    <3>1. q[1] \in DOMAIN b /\ q[2] \in DOMAIN b[q[1]].metrics /\ b[q[1]].metrics[q[2]].name = name
      BY <1>2
    <3>2. ~(q[1] < i)
      BY <1>6, <3>1 DEF HasMetric
    <3>3. q[1] \in Nat /\ q[2] \in Nat /\ i \in Nat /\ k \in Nat
      BY <1>4, <3>1
    <3>4. i = q[1] => q[2] = k
      BY <1>6, <3>1 DEF UniqueNames
    <3> QED BY <3>2, <3>3, <3>4
  <2> QED BY <1>1, <2>1, <2>2
<1> QED BY <1>5, <1>6

\* Without a selection retainSelectedNumberDatapoint leaves all.
LEMMA NothingSelected ==
  ASSUME NEW b, NEW c, BatchOK(b, c), DOMAIN c.selected.attrs = {},
         NEW i \in DOMAIN b, NEW k \in DOMAIN b[i].metrics
  PROVE  Left(b, c, i, k) = b[i].metrics[k]
<1> DEFINE m == b[i].metrics[k]
           S == {j \in DOMAIN m.dps : Chosen(m.dps[j], c)}
<1>1. MetricOK(m, c) /\ S = DOMAIN m.dps
  BY DEF BatchOK, ResourceOK, Chosen
<1>2. Left(b, c, i, k) \in {m, [m EXCEPT !.dps = Restrict(@, S)]}
  BY DEF Left, ChosenDatapoints
<1> HIDE DEF S, m
<1>3. [m EXCEPT !.dps = Restrict(@, S)] = m
  BY <1>1, RestrictedMetric
<1> QED BY <1>2, <1>3 DEF m

\* Resources of the same shape have metrics of the same names.
LEMMA SameNames ==
  ASSUME NEW r, NEW u, NEW c, ResourceOK(r, c), ResourceOK(u, c),
         ShapedResource(r, c) = ShapedResource(u, c), NEW name
  PROVE  HasMetric(r, name) <=> HasMetric(u, name)
<1>1. PICK q \in Bijection(DOMAIN r.metrics, DOMAIN u.metrics) :
        \A k \in DOMAIN r.metrics : Alike(r.metrics[k], u.metrics[q[k]], c)
  BY ShapedResources
<1>2. /\ \A k \in DOMAIN r.metrics : q[k] \in DOMAIN u.metrics
      /\ \A l \in DOMAIN u.metrics : \E k \in DOMAIN r.metrics : q[k] = l
  BY DEF Bijection, Injection, Surjection
<1>3. \A k \in DOMAIN r.metrics : r.metrics[k].name = u.metrics[q[k]].name
  BY <1>1 DEF Alike
<1> QED BY <1>2, <1>3 DEF HasMetric

\* What the theorem asks of the series of two batches.
Identified(a, b, c) ==
  /\ \A i \in DOMAIN a, j \in DOMAIN b :
       \A k \in DOMAIN a[i].metrics, l \in DOMAIN b[j].metrics :
         HashTells(a[i].metrics[k], b[j].metrics[l], c)
  /\ c.first # {} => ~c.bounds
  /\ DOMAIN c.selected.attrs # {} => UniqueNames(a) /\ UniqueNames(b)

\* The same datapoints are selected in batches of the same shape.
LEMMA LeftAlike ==
  ASSUME NEW a, NEW b, NEW c, BatchOK(a, c), BatchOK(b, c), Identified(a, b, c),
         NEW p \in Bijection(DOMAIN a, DOMAIN b),
         \A i \in DOMAIN a : /\ ShapedResource(a[i], c) = ShapedResource(b[p[i]], c)
                             /\ DOMAIN c.selected.attrs # {} => p[i] = i,
         NEW i \in DOMAIN a, NEW k \in DOMAIN a[i].metrics, NEW l \in DOMAIN b[p[i]].metrics,
         Alike(a[i].metrics[k], b[p[i]].metrics[l], c)
  PROVE  Alike(Left(a, c, i, k), Left(b, c, p[i], l), c)
<1> DEFINE m == a[i].metrics[k]
           n == b[p[i]].metrics[l]
           name == c.selected.name
<1>1. /\ \A x \in DOMAIN a : p[x] \in DOMAIN b
      /\ \A y \in DOMAIN b : \E x \in DOMAIN a : p[x] = y
  BY DEF Bijection, Injection, Surjection
<1>2. CASE DOMAIN c.selected.attrs = {}
  BY <1>1, <1>2, NothingSelected
<1>3. CASE DOMAIN c.selected.attrs # {}
  <2>1. p[i] = i /\ DOMAIN a = DOMAIN b /\ i \in DOMAIN b /\ l \in DOMAIN b[i].metrics
    BY <1>1, <1>3
  <2>2. \A x \in DOMAIN a : HasMetric(a[x], name) <=> HasMetric(b[x], name)
    <3>1. SUFFICES ASSUME NEW x \in DOMAIN a PROVE HasMetric(a[x], name) <=> HasMetric(b[x], name)
      OBVIOUS
    <3>2. ShapedResource(a[x], c) = ShapedResource(b[x], c)
      BY <1>3
    <3>3. ResourceOK(a[x], c) /\ ResourceOK(b[x], c)
      BY <2>1 DEF BatchOK
    <3> QED BY <3>2, <3>3, SameNames
  <2>3. m.name = n.name /\ m.type = n.type
    BY DEF Alike
  <2>4. UniqueNames(a) /\ UniqueNames(b)
    BY <1>3 DEF Identified
  <2>5. /\ <<i, k>> \in GetMetric(a, name) <=>
             m.name = name /\ \A x \in DOMAIN a : x < i => ~HasMetric(a[x], name)
        /\ <<i, l>> \in GetMetric(b, name) <=>
             n.name = name /\ \A x \in DOMAIN b : x < i => ~HasMetric(b[x], name)
    BY <2>1, <2>4, FirstNamed
  <2>6. <<i, k>> \in GetMetric(a, name) <=> <<i, l>> \in GetMetric(b, name)
    BY <2>1, <2>2, <2>3, <2>5
  <2>7. MetricOK(m, c) /\ MetricOK(n, c)
    BY <1>1 DEF BatchOK, ResourceOK
  <2>8. m.name = name => Alike(ChosenDatapoints(m, c), ChosenDatapoints(n, c), c)
    BY <2>7, ChosenAlike
  <2> QED BY <2>1, <2>3, <2>5, <2>6, <2>8 DEF Left
<1> QED BY <1>2, <1>3

\* What is left of batches of the same shape has the same content.
LEMMA SameShapeSameContent ==
  ASSUME NEW a, NEW b, NEW c, BatchOK(a, c), BatchOK(b, c), c.max \in Int, Identified(a, b, c),
         ~(c.existsExcept /\ c.first # {}), Shape(a, c) = Shape(b, c)
  PROVE  Content(Prepare(a, c), c) = Content(Prepare(b, c), c)
<1>1. PICK p \in Bijection(DOMAIN a, DOMAIN b) : \A i \in DOMAIN a :
        /\ ShapedResource(a[i], c) = ShapedResource(b[p[i]], c)
        /\ DOMAIN c.selected.attrs # {} => p[i] = i
  BY ShapedBatches
<1>2. \A i \in DOMAIN a : p[i] \in DOMAIN b
  BY DEF Bijection, Injection
<1> DEFINE P == Prepare(a, c)
           Q == Prepare(b, c)
<1>3. /\ BatchOK(P, c) /\ DOMAIN P = DOMAIN a
      /\ \A i \in DOMAIN a :
           /\ P[i].attrs = a[i].attrs /\ P[i].version = a[i].version
           /\ DOMAIN P[i].metrics = DOMAIN a[i].metrics
           /\ \A k \in DOMAIN a[i].metrics : P[i].metrics[k] = PrepareMetric(Left(a, c, i, k), c)
  BY PreparedIsPart
<1>4. /\ BatchOK(Q, c) /\ DOMAIN Q = DOMAIN b
      /\ \A i \in DOMAIN b :
           /\ Q[i].attrs = b[i].attrs /\ Q[i].version = b[i].version
           /\ DOMAIN Q[i].metrics = DOMAIN b[i].metrics
           /\ \A k \in DOMAIN b[i].metrics : Q[i].metrics[k] = PrepareMetric(Left(b, c, i, k), c)
  BY PreparedIsPart
<1> HIDE DEF P, Q
<1>5. ASSUME NEW i \in DOMAIN a PROVE BlurredResource(P[i], c) = BlurredResource(Q[p[i]], c)
  <2> DEFINE j == p[i]
             r == a[i]
             u == b[j]
  <2>1. ResourceOK(r, c) /\ ResourceOK(u, c) /\ ShapedResource(r, c) = ShapedResource(u, c)
    BY <1>1, <1>2 DEF BatchOK
  <2>2. /\ Blur(r.attrs, MayChange(c)) = Blur(u.attrs, MayChange(c))
        /\ c.version = {} => r.version = u.version
    BY <2>1, ShapedResources
  <2>3. PICK q \in Bijection(DOMAIN r.metrics, DOMAIN u.metrics) :
          \A k \in DOMAIN r.metrics : Alike(r.metrics[k], u.metrics[q[k]], c)
    BY <2>1, ShapedResources
  <2>4. \A k \in DOMAIN r.metrics : q[k] \in DOMAIN u.metrics
    BY DEF Bijection, Injection
  <2>5. ASSUME NEW k \in DOMAIN r.metrics
        PROVE BlurredMetric(P[i].metrics[k], c) = BlurredMetric(Q[j].metrics[q[k]], c)
    <3> DEFINE x == Left(a, c, i, k)
               y == Left(b, c, j, q[k])
    <3>1. Alike(x, y, c)
      BY <1>1, <2>3, <2>4, LeftAlike
    <3>2. /\ MetricOK(x, c) /\ PartOf(x, r.metrics[k])
          /\ MetricOK(y, c) /\ PartOf(y, u.metrics[q[k]])
      BY <1>2, <2>4, LeftIsPart
    <3>3. HashTells(r.metrics[k], u.metrics[q[k]], c)
      BY <1>2, <2>4 DEF Identified
    <3> HIDE DEF x, y
    <3>4. HashTells(x, y, c)
      BY <3>2, <3>3 DEF HashTells, PartOf
    <3>5. c.first # {} => ~c.bounds /\ ~c.existsExcept
      BY DEF Identified
    <3>6. BlurredMetric(PrepareMetric(x, c), c) = BlurredMetric(PrepareMetric(y, c), c)
      BY <3>1, <3>2, <3>4, <3>5, PreparedAlike
    <3> QED BY <1>2, <1>3, <1>4, <2>4, <3>6 DEF x, y
  <2> DEFINE s == [k \in DOMAIN P[i].metrics |-> BlurredMetric(P[i].metrics[k], c)]
             t == [k \in DOMAIN Q[j].metrics |-> BlurredMetric(Q[j].metrics[k], c)]
  <2>6. DOMAIN P[i].metrics = DOMAIN r.metrics /\ DOMAIN Q[j].metrics = DOMAIN u.metrics
    BY <1>2, <1>3, <1>4
  <2>7. DOMAIN s = DOMAIN r.metrics /\ DOMAIN t = DOMAIN u.metrics /\ \A k \in DOMAIN s : s[k] = t[q[k]]
    BY <2>4, <2>5, <2>6
  <2>8. IsFiniteSet(DOMAIN r.metrics)
    BY <2>1, FinitelyMany
  <2>9. /\ P[i].attrs = r.attrs /\ P[i].version = r.version
        /\ Q[j].attrs = u.attrs /\ Q[j].version = u.version
    BY <1>2, <1>3, <1>4
  <2> HIDE DEF s, t, r, u, j
  <2>10. Bag(s) = Bag(t)
    BY <2>3, <2>7, <2>8, PairedBags
  <2> QED BY <2>2, <2>9, <2>10 DEF BlurredResource, s, t, j
<1> DEFINE s == [i \in DOMAIN P |-> BlurredResource(P[i], c)]
           t == [i \in DOMAIN Q |-> BlurredResource(Q[i], c)]
<1>6. DOMAIN s = DOMAIN a /\ DOMAIN t = DOMAIN b /\ \A i \in DOMAIN s : s[i] = t[p[i]]
  BY <1>2, <1>3, <1>4, <1>5
<1>7. IsFiniteSet(DOMAIN a)
  BY FinitelyMany
<1> HIDE DEF s, t
<1>8. Bag(s) = Bag(t)
  BY <1>1, <1>6, <1>7, PairedBags
<1> QED BY <1>8, ContentIs DEF s, t, P, Q

-----------------------------------------------------------------------------
(* What has the content of the batch that a file was written from is       *)
(* accepted by it.                                                         *)

\* The other way round than AgreeingBlur.
LEMMA BlurAgrees ==
  ASSUME NEW v, NEW a, NEW K, Blur(v, K) = Blur(a, K)
  PROVE  AgreeExcept(v, a, K)
<1>1. \A z : DOMAIN Blur(z, K) = DOMAIN z /\ \A k \in DOMAIN z \ K : Blur(z, K)[k] = z[k]
  BY DEF Blur
<1> QED BY <1>1 DEF AgreeExcept

\* Attributes that agree where nothing is marked are accepted.
LEMMA AgreeingAttrs ==
  ASSUME NEW a, NEW v, NEW c, AttrsFit(v, c)
  PROVE  /\ AgreeExcept(v, a, MayChange(c)) => AcceptsAttrs(MarkAttrs(WriteAttrs(a), c), v)
         /\ AgreeExcept(v, a, PointMayChange(a, c)) => AcceptsAttrs(MarkPointAttrs(WriteAttrs(a), c), v)
<1> DEFINE w == WriteAttrs(a)
           x == MarkAttrs(w, c)
           y == MarkPointAttrs(w, c)
           K == MayChange(c)
           L == PointMayChange(a, c)
<1>1. DOMAIN w = DOMAIN a /\ \A k \in DOMAIN a : w[k] = Exact(a[k]) /\ w[k].how = "exact"
  BY DEF WriteAttrs, Exact
<1>2. /\ DOMAIN x = DOMAIN a
      /\ \A k \in DOMAIN a : IF k \in DOMAIN c.regex THEN x[k] = Regex(c.regex[k])
                             ELSE IF k \in c.volatile THEN x[k] = Exists ELSE x[k] = Exact(a[k])
  <2> HIDE DEF w
  <2>1. DOMAIN x = DOMAIN a
    BY <1>1 DEF MarkAttrs
  <2>2. ASSUME NEW k \in DOMAIN a
        PROVE  /\ k \in DOMAIN c.regex => x[k] = Regex(c.regex[k])
               /\ k \notin DOMAIN c.regex /\ k \in c.volatile => x[k] = Exists
               /\ k \notin DOMAIN c.regex /\ k \notin c.volatile => x[k] = w[k]
    BY <1>1 DEF MarkAttrs
  <2> HIDE DEF x
  <2> QED BY <1>1, <2>1, <2>2
<1>3. /\ DOMAIN y = DOMAIN a
      /\ \A k \in DOMAIN a : y[k] = x[k] \/ y[k] = Exists
      /\ \A k \in DOMAIN a : c.existsExcept /\ k \notin c.exact /\ x[k] = Exact(a[k]) => y[k] = Exists
  <2>1. y = IF c.existsExcept THEN MarkNonIdentityAttrs(x, c) ELSE x
    BY DEF MarkPointAttrs
  <2>2. \A z : Exact(z).how = "exact"
    BY DEF Exact
  <2> HIDE DEF x, y, w
  <2> QED BY <1>2, <2>1, <2>2 DEF MarkNonIdentityAttrs
<1> HIDE DEF w, x, y
<1>4. ASSUME NEW k \in DOMAIN a, k \in DOMAIN v, v[k] = a[k] \/ k \in K PROVE Satisfies(v[k], x[k])
  <2>1. k \in DOMAIN c.regex => v[k] \in c.regex[k]
    BY <1>4 DEF AttrsFit
  <2>2. k \in K => k \in DOMAIN c.regex \/ k \in c.volatile
    BY DEF MayChange
  <2> QED BY <1>2, <1>4, <2>1, <2>2, Kinds
<1>5. ASSUME AgreeExcept(v, a, K) PROVE AcceptsAttrs(x, v)
  BY <1>2, <1>4, <1>5 DEF AgreeExcept, AcceptsAttrs
<1>6. ASSUME AgreeExcept(v, a, L) PROVE AcceptsAttrs(y, v)
  <2>1. SUFFICES ASSUME NEW k \in DOMAIN a PROVE Satisfies(v[k], y[k])
    BY <1>3, <1>6 DEF AgreeExcept, AcceptsAttrs
  <2>2. DOMAIN v = DOMAIN a /\ (k \notin L => v[k] = a[k])
    BY <1>6 DEF AgreeExcept
  <2>3. CASE v[k] = a[k] \/ k \in K
    <3>1. Satisfies(v[k], x[k])
      BY <1>4, <2>2, <2>3
    <3> QED BY <1>3, <3>1, Kinds
  <2>4. CASE ~(v[k] = a[k] \/ k \in K)
    <3>1. c.existsExcept /\ k \notin c.exact
      BY <2>2, <2>4 DEF PointMayChange
    <3>2. x[k] = Exact(a[k])
      BY <1>2, <2>4 DEF MayChange
    <3>3. y[k] = Exists
      BY <1>3, <3>1, <3>2
    <3> QED BY <3>3, Kinds
  <2> QED BY <2>3, <2>4
<1> QED BY <1>5, <1>6 DEF w, x, y

\* A metric that is the same once it is blurred is accepted.
LEMMA SameMetricAccepted ==
  ASSUME NEW m, NEW v, NEW c, MetricOK(m, c), MetricOK(v, c), BlurredMetric(m, c) = BlurredMetric(v, c),
         \A j \in DOMAIN v.dps : AttrsFit(v.dps[j].attrs, c)
  PROVE  AcceptsMetric(MarkMetric(WriteMetric(m, c), c), v)
<1> DEFINE w == WriteMetric(m, c)
           e == MarkMetric(w, c)
           s == BlurredPoints(m, c)
           t == BlurredPoints(v, c)
<1>1. /\ e.name = m.name /\ e.type = m.type /\ DOMAIN e.dps = DOMAIN m.dps
      /\ \A j \in DOMAIN m.dps :
           /\ e.dps[j].attrs = MarkPointAttrs(WriteAttrs(m.dps[j].attrs), c)
           /\ e.dps[j].bounds = IF c.bounds THEN Exact(m.dps[j].bounds) ELSE Exists
  BY FilePoints
<1> HIDE DEF e, w
<1>2. m.name = v.name /\ m.type = v.type /\ Bag(s) = Bag(t)
  <2>1. \A z : LET x == BlurredMetric(z, c) IN
                 x.name = z.name /\ x.type = z.type /\ x.dps = Bag(BlurredPoints(z, c))
    BY DEF BlurredMetric
  <2> QED BY <2>1
<1>3. /\ DOMAIN s = DOMAIN m.dps /\ \A j \in DOMAIN m.dps : s[j] = BlurredPoint(m.dps[j], c)
      /\ DOMAIN t = DOMAIN v.dps /\ \A j \in DOMAIN v.dps : t[j] = BlurredPoint(v.dps[j], c)
  BY DEF BlurredPoints
<1>4. IsFiniteSet(DOMAIN m.dps) /\ IsFiniteSet(DOMAIN v.dps)
  BY DEF MetricOK, PointsOK
<1> HIDE DEF s, t
<1>5. PICK g \in Bijection(DOMAIN s, DOMAIN t) : \A j \in DOMAIN s : s[j] = t[g[j]]
  BY <1>2, <1>3, <1>4, BagsPaired
<1>6. \A j \in DOMAIN s : g[j] \in DOMAIN t
  BY DEF Bijection, Injection
<1>7. ASSUME NEW j \in DOMAIN m.dps PROVE AcceptsPoint(e.dps[j], v.dps[g[j]])
  <2> DEFINE d == m.dps[j]
             u == v.dps[g[j]]
  <2>1. BlurredPoint(u, c) = BlurredPoint(d, c) /\ AttrsFit(u.attrs, c)
    BY <1>3, <1>5, <1>6
  <2> HIDE DEF d, u
  <2>2. AgreeExcept(u.attrs, d.attrs, PointMayChange(d.attrs, c)) /\ (c.bounds => u.bounds = d.bounds)
    BY <2>1, SameBlur
  <2>3. AcceptsAttrs(MarkPointAttrs(WriteAttrs(d.attrs), c), u.attrs)
    BY <2>1, <2>2, AgreeingAttrs
  <2>4. Satisfies(u.bounds, e.dps[j].bounds)
    BY <1>1, <2>2, Kinds DEF d
  <2> QED BY <1>1, <2>3, <2>4 DEF AcceptsPoint, d, u
<1>8. AcceptsMetric(e, v)
  BY <1>1, <1>2, <1>3, <1>5, <1>7 DEF AcceptsMetric, Paired
<1> QED BY <1>8 DEF e, w

\* A batch with the content of another one passes with its marked file.
LEMMA SameContentAccepted ==
  ASSUME NEW b, NEW v, NEW c, BatchOK(b, c), BatchOK(v, c), Content(b, c) = Content(v, c),
         PatternsFit(v, c)
  PROVE  AssertMetrics(MarkFlexibleAttrs(WriteAssertionFile(b, c), c), v)
<1> DEFINE f == WriteAssertionFile(b, c)
           g == MarkFlexibleAttrs(f, c)
           s == [i \in DOMAIN b |-> BlurredResource(b[i], c)]
           t == [i \in DOMAIN v |-> BlurredResource(v[i], c)]
<1>1. /\ DOMAIN g = DOMAIN b
      /\ \A i \in DOMAIN b :
           /\ g[i].attrs = MarkAttrs(WriteAttrs(b[i].attrs), c)
           /\ g[i].version = IF c.version # {} THEN Regex(c.version) ELSE Exact(b[i].version)
           /\ DOMAIN g[i].metrics = DOMAIN b[i].metrics
           /\ \A k \in DOMAIN b[i].metrics :
                g[i].metrics[k] = MarkMetric(WriteMetric(b[i].metrics[k], c), c)
  BY MarkedFile
<1> HIDE DEF f, g
<1>2. /\ DOMAIN s = DOMAIN b /\ \A i \in DOMAIN b : s[i] = BlurredResource(b[i], c)
      /\ DOMAIN t = DOMAIN v /\ \A i \in DOMAIN v : t[i] = BlurredResource(v[i], c)
  OBVIOUS
<1>3. Bag(s) = Bag(t)
  <2>1. Content(b, c) = Bag(s) /\ Content(v, c) = Bag(t)
    BY ContentIs
  <2> QED BY <2>1
<1> HIDE DEF s, t
<1>4. PICK p \in Bijection(DOMAIN s, DOMAIN t) : \A i \in DOMAIN s : s[i] = t[p[i]]
  BY <1>2, <1>3, BagsPaired, FinitelyMany
<1>5. \A i \in DOMAIN s : p[i] \in DOMAIN t
  BY DEF Bijection, Injection
<1>6. ASSUME NEW i \in DOMAIN b PROVE AcceptsResource(g[i], v[p[i]])
  <2> DEFINE r == b[i]
             u == v[p[i]]
             e == g[i]
             y == [k \in DOMAIN r.metrics |-> BlurredMetric(r.metrics[k], c)]
             z == [k \in DOMAIN u.metrics |-> BlurredMetric(u.metrics[k], c)]
  <2>1. p[i] \in DOMAIN v /\ BlurredResource(r, c) = BlurredResource(u, c)
    BY <1>2, <1>4, <1>5
  <2>2. ResourceOK(r, c) /\ ResourceOK(u, c)
    BY <2>1 DEF BatchOK
  <2>3. /\ AttrsFit(u.attrs, c) /\ (c.version # {} => u.version \in c.version)
        /\ \A k \in DOMAIN u.metrics : \A j \in DOMAIN u.metrics[k].dps :
             AttrsFit(u.metrics[k].dps[j].attrs, c)
    BY <2>1 DEF PatternsFit, AttrsFit
  <2>4. /\ e.attrs = MarkAttrs(WriteAttrs(r.attrs), c)
        /\ e.version = IF c.version # {} THEN Regex(c.version) ELSE Exact(r.version)
        /\ DOMAIN e.metrics = DOMAIN r.metrics
        /\ \A k \in DOMAIN r.metrics : e.metrics[k] = MarkMetric(WriteMetric(r.metrics[k], c), c)
    BY <1>1
  <2>5. /\ DOMAIN y = DOMAIN r.metrics /\ \A k \in DOMAIN r.metrics : y[k] = BlurredMetric(r.metrics[k], c)
        /\ DOMAIN z = DOMAIN u.metrics /\ \A k \in DOMAIN u.metrics : z[k] = BlurredMetric(u.metrics[k], c)
    OBVIOUS
  <2>6. /\ BlurredResource(r, c).attrs = Blur(r.attrs, MayChange(c))
        /\ BlurredResource(u, c).attrs = Blur(u.attrs, MayChange(c))
        /\ c.version = {} => /\ BlurredResource(r, c).version = r.version
                             /\ BlurredResource(u, c).version = u.version
        /\ BlurredResource(r, c).metrics = Bag(y)
        /\ BlurredResource(u, c).metrics = Bag(z)
    BY DEF BlurredResource
  <2> HIDE DEF r, u, e, y, z
  <2>7. Bag(y) = Bag(z) /\ Blur(u.attrs, MayChange(c)) = Blur(r.attrs, MayChange(c))
        /\ (c.version = {} => u.version = r.version)
    BY <2>1, <2>6
  <2>8. AcceptsAttrs(e.attrs, u.attrs)
    BY <2>3, <2>4, <2>7, BlurAgrees, AgreeingAttrs
  <2>9. Satisfies(u.version, e.version)
    BY <2>3, <2>4, <2>7, Kinds
  <2>10. PICK q \in Bijection(DOMAIN y, DOMAIN z) : \A k \in DOMAIN y : y[k] = z[q[k]]
    BY <2>2, <2>5, <2>7, BagsPaired, FinitelyMany
  <2>11. \A k \in DOMAIN y : q[k] \in DOMAIN z
    BY DEF Bijection, Injection
  <2>12. ASSUME NEW k \in DOMAIN r.metrics PROVE AcceptsMetric(e.metrics[k], u.metrics[q[k]])
    <3>1. /\ q[k] \in DOMAIN u.metrics
          /\ BlurredMetric(r.metrics[k], c) = BlurredMetric(u.metrics[q[k]], c)
      BY <2>5, <2>10, <2>11
    <3>2. MetricOK(r.metrics[k], c) /\ MetricOK(u.metrics[q[k]], c)
      BY <2>2, <3>1 DEF ResourceOK
    <3>3. \A j \in DOMAIN u.metrics[q[k]].dps : AttrsFit(u.metrics[q[k]].dps[j].attrs, c)
      BY <2>3, <3>1
    <3>4. AcceptsMetric(MarkMetric(WriteMetric(r.metrics[k], c), c), u.metrics[q[k]])
      BY <3>1, <3>2, <3>3, SameMetricAccepted
    <3> QED BY <2>4, <3>4
  <2>13. AcceptsResource(e, u)
    BY <2>4, <2>5, <2>8, <2>9, <2>10, <2>12 DEF AcceptsResource, Paired
  <2> QED BY <2>13 DEF e, u
<1>7. AssertMetrics(g, v)
  BY <1>1, <1>2, <1>4, <1>6 DEF AssertMetrics, Paired
<1> QED BY <1>7 DEF f, g

\* The hypothesis of SameSeriesRunsPass, for two batches.
LEMMA BatchesIdentified ==
  ASSUME SeriesIdentified, NEW a \in Batches, NEW b \in Batches, NEW c \in Options
  PROVE  Identified(a, b, c)
<1> DEFINE All(x) == UNION {{i} \X DOMAIN x[i].metrics : i \in DOMAIN x}
           Points(x) == UNION {Range(x[p[1]].metrics[p[2]].dps) : p \in All(x)}
           Mask(d) == SortableAttrs(d.attrs, FlexibleAttrs(c))
<1>1. \A d, e \in UNION {Points(x) : x \in Batches} : Hash(Mask(d)) = Hash(Mask(e)) => Mask(d) = Mask(e)
  BY DEF SeriesIdentified
<1>2. \A x \in Batches : \A i \in DOMAIN x : \A k \in DOMAIN x[i].metrics :
        \A j \in DOMAIN x[i].metrics[k].dps : x[i].metrics[k].dps[j] \in UNION {Points(z) : z \in Batches}
  <2>1. SUFFICES ASSUME NEW x \in Batches, NEW i \in DOMAIN x, NEW k \in DOMAIN x[i].metrics,
                        NEW j \in DOMAIN x[i].metrics[k].dps
                 PROVE  x[i].metrics[k].dps[j] \in UNION {Points(z) : z \in Batches}
    OBVIOUS
  <2>2. <<i, k>> \in All(x)
    OBVIOUS
  <2>3. x[i].metrics[k].dps[j] \in Range(x[i].metrics[k].dps)
    BY DEF Range
  <2>4. x[i].metrics[k].dps[j] \in Points(x)
    <3> HIDE DEF All
    <3> QED BY <2>2, <2>3
  <2> HIDE DEF Points
  <2> QED BY <2>4
<1> HIDE DEF Points, Mask
<1>3. ASSUME NEW i \in DOMAIN a, NEW k \in DOMAIN a[i].metrics,
             NEW j \in DOMAIN b, NEW l \in DOMAIN b[j].metrics
      PROVE  HashTells(a[i].metrics[k], b[j].metrics[l], c)
  BY <1>1, <1>2 DEF HashTells, Mask
<1>4. c.first # {} => ~c.bounds
  BY DEF SeriesIdentified
<1>5. DOMAIN c.selected.attrs # {} => UniqueNames(a) /\ UniqueNames(b)
  BY DEF SeriesIdentified, UniqueNames
<1> QED BY <1>3, <1>4, <1>5 DEF Identified


\* Without any flexible attribute there is nothing to mark.
LEMMA NothingToMark ==
  ASSUME NEW b, NEW c, BatchOK(b, c), ~Flexible(c)
  PROVE  MarkFlexibleAttrs(WriteAssertionFile(b, c), c) = WriteAssertionFile(b, c)
<1> DEFINE f == WriteAssertionFile(b, c)
<1>1. c.volatile = {} /\ DOMAIN c.regex = {} /\ c.version = {} /\ ~c.existsExcept
  BY DEF Flexible
<1>2. ASSUME NEW a PROVE MarkAttrs(WriteAttrs(a), c) = WriteAttrs(a)
  <2> DEFINE w == WriteAttrs(a)
  <2>1. w = [k \in DOMAIN w |-> w[k]]
    BY DEF WriteAttrs
  <2> HIDE DEF w
  <2>2. MarkAttrs(w, c) = [k \in DOMAIN w |-> w[k]]
    BY <1>1 DEF MarkAttrs
  <2> QED BY <2>1, <2>2 DEF w
<1>3. ASSUME NEW m, MetricOK(m, c) PROVE MarkMetric(WriteMetric(m, c), c) = WriteMetric(m, c)
  <2> DEFINE w == WriteMetric(m, c)
             nm == m.name
             tp == m.type
             dps == m.dps
             B(j) == IF c.bounds THEN Exact(dps[j].bounds) ELSE Exists
             A(j) == WriteAttrs(dps[j].attrs)
             D(j) == [attrs |-> A(j), bounds |-> B(j)]
             wd == [j \in DOMAIN dps |-> D(j)]
  <2>1. m = [name |-> nm, type |-> tp, dps |-> dps]
    BY <1>3 DEF MetricOK
  <2>2. w = [m EXCEPT !.dps = wd]
    BY DEF WriteMetric
  <2>3. \A j : MarkAttrs(A(j), c) = A(j)
    BY <1>2
  <2> HIDE DEF nm, tp, dps, w, A, B
  <2>4. \A j : MarkPoint(D(j), c) = D(j)
    BY <1>1, <2>3 DEF MarkPoint
  <2>5. DOMAIN wd = DOMAIN dps /\ \A j \in DOMAIN dps : wd[j] = D(j)
    OBVIOUS
  <2> HIDE DEF D
  <2>6. [j \in DOMAIN wd |-> MarkPoint(wd[j], c)] = wd
    BY <2>4, <2>5
  <2> HIDE DEF wd
  <2>7. w = [name |-> nm, type |-> tp, dps |-> wd]
    BY <2>1, <2>2
  <2>8. MarkMetric(w, c) = [w EXCEPT !.dps = [j \in DOMAIN @ |-> MarkPoint(@[j], c)]]
    BY DEF MarkMetric
  <2>9. MarkMetric(w, c) = [name |-> nm, type |-> tp, dps |-> [j \in DOMAIN wd |-> MarkPoint(wd[j], c)]]
    BY <2>7, <2>8
  <2> QED BY <2>6, <2>7, <2>9 DEF w
<1> DEFINE Ms(i) == [k \in DOMAIN b[i].metrics |-> WriteMetric(b[i].metrics[k], c)]
           Row(i) == [attrs |-> WriteAttrs(b[i].attrs), version |-> Exact(b[i].version), metrics |-> Ms(i)]
           Marked(r) == [attrs |-> MarkAttrs(r.attrs, c),
                         version |-> IF c.version # {} THEN Regex(c.version) ELSE r.version,
                         metrics |-> [k \in DOMAIN r.metrics |-> MarkMetric(r.metrics[k], c)]]
<1>4. f = [i \in DOMAIN b |-> Row(i)]
  BY DEF WriteAssertionFile
<1>5. MarkFlexibleAttrs(f, c) = [i \in DOMAIN f |-> Marked(f[i])]
  BY DEF MarkFlexibleAttrs
<1>6. ASSUME NEW i \in DOMAIN b PROVE Marked(Row(i)) = Row(i)
  <2>1. \A k \in DOMAIN b[i].metrics :
           MarkMetric(WriteMetric(b[i].metrics[k], c), c) = WriteMetric(b[i].metrics[k], c)
    BY <1>3 DEF BatchOK, ResourceOK
  <2>2. DOMAIN Ms(i) = DOMAIN b[i].metrics /\ \A k \in DOMAIN b[i].metrics : MarkMetric(Ms(i)[k], c) = Ms(i)[k]
    BY <2>1
  <2>3. Ms(i) = [k \in DOMAIN Ms(i) |-> Ms(i)[k]]
    OBVIOUS
  <2> HIDE DEF Ms
  <2>4. [k \in DOMAIN Ms(i) |-> MarkMetric(Ms(i)[k], c)] = Ms(i)
    BY <2>2, <2>3
  <2>5. Row(i).attrs = WriteAttrs(b[i].attrs) /\ Row(i).version = Exact(b[i].version) /\ Row(i).metrics = Ms(i)
    OBVIOUS
  <2> QED BY <1>1, <1>2, <2>4, <2>5
<1> HIDE DEF f, Row, Marked
<1> QED BY <1>4, <1>5, <1>6 DEF f

-----------------------------------------------------------------------------
(* Run after run of the test.                                              *)

\* The file is as it was first written from the batch that is on record, or
\* marked, or it is gone; on the way through an update it is the file of the
\* batch of this run.
AssertionInv ==
  /\ cfg \in Options /\ written \in Batches
  /\ file \in {Missing, Broken, Exactly(written, cfg), Flexibly(written, cfg)}
  /\ stage # "idle" => raw \in Batches /\ verdict # "passed"
  /\ stage = "mark" => file = Exactly(written, cfg)
  /\ stage = "assert" => file \in {Exactly(written, cfg), Flexibly(written, cfg)}
  /\ marked => file \in {Missing, Broken, Flexibly(written, cfg)}
  /\ stage = "assert" /\ marked => file = Flexibly(written, cfg)
  /\ stage = "mark" \/ (stage = "assert" /\ update) => written = raw
  /\ PassedMeansSame

\* The invariant holds of a committed file, and of none.
LEMMA AssertionInvInit ==
  ASSUME InitAssertion
  PROVE  AssertionInv
BY DEF InitAssertion, AssertionInv, PassedMeansSame, Exactly, Flexibly

\* Every step preserves it: Write by PreparedTwice, Compare by AcceptedBatch.
LEMMA AssertionInvNext ==
  ASSUME AssertionInv, [NextAssertion]_assertionVars
  PROVE  AssertionInv'
<1> USE DEF AssertionInv
<1>1. ASSUME NEW u \in BOOLEAN, NEW b \in Batches, Start(u, b) PROVE AssertionInv'
  BY <1>1 DEF Start, PassedMeansSame, Readable
<1>2. CASE Write
  <2>1. BatchOK(raw, cfg) /\ cfg.max \in Int
    BY <1>2, BatchesOK DEF Write
  <2>2. file' = Exactly(raw, cfg)
    BY <1>2, <2>1, PreparedTwice DEF Write, Exactly
  <2> QED BY <1>2, <2>2 DEF Write, PassedMeansSame
<1>3. CASE Mark
  <2>1. BatchOK(Prepare(written, cfg), cfg)
    BY BatchesOK, PreparedIsPart
  <2>2. file' = Flexibly(written, cfg)
    BY <1>3, <2>1, NothingToMark DEF Mark, Flexibly, Exactly
  <2> QED BY <1>3, <2>2 DEF Mark, PassedMeansSame
<1>4. CASE Interrupted
  BY <1>4 DEF Interrupted, PassedMeansSame
<1>5. CASE Compare
  <2>1. ASSUME AssertMetrics(file, Prepare(raw, cfg))
        PROVE  Content(Prepare(raw, cfg), cfg) = Content(Prepare(written, cfg), cfg)
    <3>1. BatchOK(Prepare(written, cfg), cfg)
      BY BatchesOK, PreparedIsPart
    <3>2. file \in {Exactly(written, cfg), Flexibly(written, cfg)}
      BY <1>5 DEF Compare
    <3> QED BY <2>1, <3>1, <3>2, AcceptedBatch DEF Exactly, Flexibly
  <2> QED BY <1>5, <2>1 DEF Compare, PassedMeansSame
<1>6. CASE UNCHANGED assertionVars
  BY <1>6 DEF assertionVars, PassedMeansSame
<1>7. CASE NoMoreRuns
  BY <1>6, <1>7 DEF NoMoreRuns
<1> QED BY <1>1, <1>2, <1>3, <1>4, <1>5, <1>6, <1>7 DEF NextAssertion

\* Whatever updates were interrupted, the file is missing, broken, or one of
\* the two that WriteMetricsAssertion writes from the batch on record.
THEOREM AssertionInvHolds == AssertionSpec => []AssertionInv
BY AssertionInvInit, AssertionInvNext, PTL DEF AssertionSpec

\* A run passes only on a batch with the content that the file was written
\* from: for every batch and every combination of options, the marks of
\* markFlexibleAttrs weaken nothing but what the test declared as flexible.
THEOREM PassedRunsAreTheSame == AssertionSpec => []PassedMeansSame
<1>1. AssertionInv => PassedMeansSame
  BY DEF AssertionInv
<1> QED BY <1>1, AssertionInvHolds, PTL

\* The counts that assertionExpectedCounts reads are those of the whole batch:
\* the preparation removes datapoints only, no metric and no resource.
THEOREM FileCountsTheBatch == AssertionSpec => []CountsOfWholeBatch
<1>1. ASSUME AssertionInv PROVE CountsOfWholeBatch
  <2>1. BatchOK(written, cfg) /\ cfg.max \in Int
    BY <1>1, BatchesOK DEF AssertionInv
  <2> QED BY <1>1, <2>1, FileCounts DEF CountsOfWholeBatch, AssertionInv, Readable
<1> QED BY <1>1, AssertionInvHolds, PTL

\* An update that comes to its comparison passes it, if the patterns of the
\* test match its own batch: preparing twice is preparing once, and no mark is
\* set twice.
THEOREM UpdatesPass == AssertionSpec => UpdatePasses
<1> DEFINE Passes == stage = "assert" /\ update /\ PatternsFit(raw, cfg) => verdict' = "passed"
<1>1. ASSUME AssertionInv, [NextAssertion]_assertionVars PROVE [Passes]_assertionVars
  <2>1. SUFFICES ASSUME NextAssertion, stage = "assert", update, PatternsFit(raw, cfg)
                 PROVE  verdict' = "passed"
    BY <1>1
  <2>2. Compare
    BY <2>1 DEF NextAssertion, Start, Write, Mark, Interrupted, NoMoreRuns
  <2> DEFINE P == Prepare(raw, cfg)
  <2>3. BatchOK(raw, cfg) /\ cfg.max \in Int
    BY <1>1, <2>1, BatchesOK DEF AssertionInv
  <2>4. BatchOK(P, cfg) /\ PatternsFit(P, cfg)
    BY <2>1, <2>3, PreparedIsPart, PreparedFits
  <2>5. file \in {WriteAssertionFile(P, cfg), MarkFlexibleAttrs(WriteAssertionFile(P, cfg), cfg)}
    BY <1>1, <2>1 DEF AssertionInv, Exactly, Flexibly
  <2> HIDE DEF P
  <2>6. AssertMetrics(file, P)
    BY <2>4, <2>5, BatchAccepted
  <2> QED BY <2>2, <2>6 DEF Compare, P
<1>2. AssertionInv /\ [NextAssertion]_assertionVars => [Passes]_assertionVars
  BY <1>1
<1> QED BY <1>2, AssertionInvHolds, PTL DEF AssertionSpec, UpdatePasses

\* A later run with the same series passes, in whatever order they came and
\* whatever the flexible attributes are now: keepFirstDatapoint,
\* ReduceDatapoints and retainSelectedNumberDatapoint leave the same series of
\* both batches, if these can be told apart at all (SeriesIdentified).
THEOREM SameSeriesRunsPass ==
  ASSUME SeriesIdentified
  PROVE  AssertionSpec => SameSeriesPass
<1> DEFINE Same == /\ stage = "assert" /\ ~update /\ marked
                   /\ PatternsFit(raw, cfg)
                   /\ ~(cfg.existsExcept /\ cfg.first # {})
                   /\ Shape(raw, cfg) = Shape(written, cfg)
           Passes == Same => verdict' = "passed"
<1>1. ASSUME AssertionInv, [NextAssertion]_assertionVars PROVE [Passes]_assertionVars
  <2>1. SUFFICES ASSUME NextAssertion, Same PROVE verdict' = "passed"
    BY <1>1
  <2>2. Compare
    BY <2>1 DEF NextAssertion, Start, Write, Mark, Interrupted, NoMoreRuns
  <2> DEFINE P == Prepare(written, cfg)
             Q == Prepare(raw, cfg)
  <2>3. written \in Batches /\ raw \in Batches /\ cfg \in Options
    BY <1>1, <2>1 DEF AssertionInv
  <2>4. BatchOK(written, cfg) /\ BatchOK(raw, cfg) /\ cfg.max \in Int
    BY <2>3, BatchesOK
  <2>5. Identified(written, raw, cfg)
    BY <2>3, BatchesIdentified
  <2>6. Content(P, cfg) = Content(Q, cfg)
    BY <2>1, <2>4, <2>5, SameShapeSameContent
  <2>7. BatchOK(P, cfg) /\ BatchOK(Q, cfg) /\ PatternsFit(Q, cfg)
    BY <2>1, <2>4, PreparedIsPart, PreparedFits
  <2>8. file = MarkFlexibleAttrs(WriteAssertionFile(P, cfg), cfg)
    BY <1>1, <2>1 DEF AssertionInv, Exactly, Flexibly
  <2> HIDE DEF P, Q
  <2>9. AssertMetrics(file, Q)
    BY <2>6, <2>7, <2>8, SameContentAccepted
  <2> QED BY <2>2, <2>9 DEF Compare, Q
<1>2. AssertionInv /\ [NextAssertion]_assertionVars => [Passes]_assertionVars
  BY <1>1
<1> QED BY <1>2, AssertionInvHolds, PTL DEF AssertionSpec, SameSeriesPass
=============================================================================
