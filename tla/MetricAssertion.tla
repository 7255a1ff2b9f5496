-------------------------- MODULE MetricAssertion --------------------------
(***************************************************************************)
(* The expected results of a metrics test: AssertMetricsSnapshot           *)
(* (functional_tests/internal/metricassert.go) prepares the batch that was *)
(* selected, writes it as the assertion file when UPDATE_EXPECTED_RESULTS  *)
(* is set, first with exact values and then with the attributes that may   *)
(* change marked /exists or /regex, and compares the batch with the file.  *)
(*                                                                         *)
(* A batch is a sequence of resources [attrs, version, metrics] (of one    *)
(* scope each), a metric is [name, type, dps] and a datapoint              *)
(* [attrs, bounds]; values and timestamps are not compared. Datapoints     *)
(* that are left of a metric keep their positions. Attribute values are    *)
(* scalars; a regular expression is the set of values that it matches.     *)
(* How the batch is selected is module MetricSelection.                    *)
(***************************************************************************)
EXTENDS Integers, Sequences, FiniteSets, Functions

CONSTANTS
  Batches,  \* the batches that a run may select
  Options,  \* the options of the tests
  Hash(_),  \* pdatautil.MapHash of attributes
  MaxRuns   \* bound on the runs of the test

VARIABLES
  cfg,      \* the options of this test
  file,     \* the assertion file
  written,  \* history: the batch it was last written from
  marked,   \* history: the last update came to its end
  runs, update, raw, \* the runs so far; the current run and its batch
  stage, verdict

assertionVars == <<cfg, file, written, marked, runs, update, raw, stage, verdict>>

-----------------------------------------------------------------------------
(* prepareMetricsAssertion: what is left of a batch before it is compared. *)

\* The first metric with the name, in the order of the batch: {} or one position.
GetMetric(b, name) ==
  LET named == {p \in UNION {{i} \X DOMAIN b[i].metrics : i \in DOMAIN b} :
                  b[p[1]].metrics[p[2]].name = name}
  IN  {p \in named : \A q \in named : p[1] < q[1] \/ (p[1] = q[1] /\ p[2] <= q[2])}

Chosen(d, c) == \A k \in DOMAIN c.selected.attrs :
  k \in DOMAIN d.attrs /\ d.attrs[k] = c.selected.attrs[k]

\* Mutant: a metric that is left without datapoints is removed.
RetainAndRemove(b, c) ==
  [i \in DOMAIN b |-> [b[i] EXCEPT !.metrics =
     SelectSeq(@, LAMBDA m : m.name = c.selected.name => \E j \in DOMAIN m.dps : Chosen(m.dps[j], c))]]

ChosenDatapoints(m, c) ==
  [m EXCEPT !.dps = Restrict(@, {j \in DOMAIN @ : Chosen(@[j], c)})]

RetainSelectedNumberDatapoint(b, c) ==
  [i \in DOMAIN b |-> [b[i] EXCEPT !.metrics =
     [k \in DOMAIN @ |->
        IF <<i, k>> \in GetMetric(b, c.selected.name) /\ @[k].type \in {"gauge", "sum"}
          THEN ChosenDatapoints(@[k], c) ELSE @[k]]]]

\* The first max datapoints in the order of arrival; exponential histograms
\* are not reduced.
ReduceDatapoints(m, max) ==
  IF m.type = "exponential" THEN m
  ELSE [m EXCEPT !.dps =
          Restrict(@, {j \in DOMAIN @ : Cardinality({l \in DOMAIN m.dps : l <= j}) <= max})]

\* Mutant: the attributes with a pattern are not masked.
OnlyVolatileAttrs(c) == c.volatile

FlexibleAttrs(c) == c.volatile \cup DOMAIN c.regex

SortableAttrs(attrs, flexible) ==
  [k \in DOMAIN attrs |-> IF k \in flexible THEN 0 ELSE attrs[k]]

\* Sorted by the hash of the masked attributes; the sort is stable.
KeepFirstDatapoint(m, flexible) ==
  LET rank(i) == Hash(SortableAttrs(m.dps[i].attrs, flexible))
      first   == CHOOSE i \in DOMAIN m.dps : \A j \in DOMAIN m.dps :
                   rank(i) < rank(j) \/ (rank(i) = rank(j) /\ i <= j)
  IN  IF DOMAIN m.dps = {} THEN m ELSE [m EXCEPT !.dps = Restrict(@, {first})]

PrepareMetric(m, c) ==
  LET reduced == IF c.max > 0 THEN ReduceDatapoints(m, c.max) ELSE m
  IN  IF m.name \in c.first THEN KeepFirstDatapoint(reduced, FlexibleAttrs(c)) ELSE reduced

Prepare(b, c) ==
  LET retained == RetainSelectedNumberDatapoint(b, c)
  IN  [i \in DOMAIN b |-> [retained[i] EXCEPT !.metrics = [k \in DOMAIN @ |-> PrepareMetric(@[k], c)]]]

\* Batches are well formed, and a hash is a number.
ASSUME BatchAssumption ==
  /\ \A c \in Options : c.max \in Int
  /\ \A b \in Batches : b \in Seq(Range(b)) /\ \A i \in DOMAIN b :
       /\ b[i] = [attrs |-> b[i].attrs, version |-> b[i].version, metrics |-> b[i].metrics]
       /\ b[i].metrics \in Seq(Range(b[i].metrics))
       /\ \A k \in DOMAIN b[i].metrics : LET m == b[i].metrics[k] IN
            /\ m = [name |-> m.name, type |-> m.type, dps |-> m.dps]
            /\ m.dps \in Seq(Range(m.dps))
            /\ \A j \in DOMAIN m.dps, c \in Options :
                 /\ m.dps[j] = [attrs |-> m.dps[j].attrs, bounds |-> m.dps[j].bounds]
                 /\ Hash(SortableAttrs(m.dps[j].attrs, FlexibleAttrs(c))) \in Nat

-----------------------------------------------------------------------------
(* The assertion file: for every attribute of the batch it was written     *)
(* from, the values that it accepts.                                       *)

Missing == <<"missing">>  \* no such file
Broken  == <<"broken">>   \* cut short while it was written

Exact(v) == [how |-> "exact", ok |-> {v}]
Exists   == [how |-> "exists", ok |-> {}]
Regex(s) == [how |-> "regex", ok |-> s]

WriteAttrs(a) == [k \in DOMAIN a |-> Exact(a[k])]

WriteMetric(m, c) ==
  [m EXCEPT !.dps = [j \in DOMAIN @ |->
     [attrs |-> WriteAttrs(@[j].attrs), bounds |-> IF c.bounds THEN Exact(@[j].bounds) ELSE Exists]]]

\* pmetricassert.WriteAssertionFile
WriteAssertionFile(b, c) ==
  [i \in DOMAIN b |->
     [attrs |-> WriteAttrs(b[i].attrs), version |-> Exact(b[i].version),
      metrics |-> [k \in DOMAIN b[i].metrics |-> WriteMetric(b[i].metrics[k], c)]]]

\* A pattern wins over /exists; what is marked already is left alone.
MarkAttrs(a, c) ==
  [k \in DOMAIN a |->
     IF a[k].how # "exact" THEN a[k]
     ELSE IF k \in DOMAIN c.regex THEN Regex(c.regex[k])
     ELSE IF k \in c.volatile THEN Exists ELSE a[k]]

\* Mutant: a key that ends in /exists or /regex gets /exists once more, so the
\* file asks for an attribute with that suffix in its name.
MarkNonIdentityAgain(a, c) ==
  [k \in DOMAIN a |-> IF k \in c.exact THEN a[k]
     ELSE IF a[k].how = "exact" THEN Exists ELSE Regex({})]

\* Mutant: the attributes of the identity are marked too.
MarkIdentityAttrs(a, c) == [k \in DOMAIN a |-> IF a[k].how = "exact" THEN Exists ELSE a[k]]

\* WithDatapointAttributesAsExistsExcept: all attributes of a datapoint that
\* are not in c.exact.
MarkNonIdentityAttrs(a, c) ==
  [k \in DOMAIN a |-> IF a[k].how = "exact" /\ k \notin c.exact THEN Exists ELSE a[k]]

Flexible(c) ==
  c.volatile # {} \/ DOMAIN c.regex # {} \/ c.version # {} \/ c.existsExcept

MarkPoint(d, c) ==
  [d EXCEPT !.attrs =
     IF c.existsExcept THEN MarkNonIdentityAttrs(MarkAttrs(@, c), c) ELSE MarkAttrs(@, c)]

MarkMetric(m, c) == [m EXCEPT !.dps = [j \in DOMAIN @ |-> MarkPoint(@[j], c)]]

\* markFlexibleAttrs: reads the file that was just written and writes it again.
MarkFlexibleAttrs(f, c) ==
  [i \in DOMAIN f |->
     [attrs |-> MarkAttrs(f[i].attrs, c),
      version |-> IF c.version # {} THEN Regex(c.version) ELSE f[i].version,
      metrics |-> [k \in DOMAIN f[i].metrics |-> MarkMetric(f[i].metrics[k], c)]]]

\* The sum of a sequence of numbers.
Total(s) ==
  LET upTo[n \in 0..Len(s)] == IF n = 0 THEN 0 ELSE upTo[n - 1] + s[n] IN upTo[Len(s)]

\* assertionExpectedCounts, and the counts of a batch that the selection
\* compares with them.
ExpectedCounts(f) ==
  <<Len(f), Total([i \in DOMAIN f |-> Len(f[i].metrics)])>>

\* A file without any metric is refused like one that cannot be parsed.
Readable(f) == f \notin {Missing, Broken} /\ ExpectedCounts(f)[2] # 0

-----------------------------------------------------------------------------
(* pmetricassert.AssertMetrics: resources, metrics and datapoints are      *)
(* paired in any order.                                                    *)

Paired(s, t, fits(_, _)) ==
  \E p \in Bijection(DOMAIN s, DOMAIN t) : \A i \in DOMAIN s : fits(s[i], t[p[i]])

Satisfies(v, e) == e.how = "exists" \/ v \in e.ok

AcceptsAttrs(e, a) == DOMAIN e = DOMAIN a /\ \A k \in DOMAIN e : Satisfies(a[k], e[k])

AcceptsPoint(e, d) == AcceptsAttrs(e.attrs, d.attrs) /\ Satisfies(d.bounds, e.bounds)

AcceptsMetric(e, m) == e.name = m.name /\ e.type = m.type /\ Paired(e.dps, m.dps, AcceptsPoint)

AcceptsResource(e, r) ==
  /\ AcceptsAttrs(e.attrs, r.attrs) /\ Satisfies(r.version, e.version)
  /\ Paired(e.metrics, r.metrics, AcceptsMetric)

AssertMetrics(f, b) == Paired(f, b, AcceptsResource)

-----------------------------------------------------------------------------
(* AssertMetricsSnapshot, run after run of the same test.                  *)

\* The committed file comes from an earlier update, or there is none yet.
InitAssertion ==
  /\ cfg \in Options
  /\ written \in Batches
  /\ file \in {Missing, MarkFlexibleAttrs(WriteAssertionFile(Prepare(written, cfg), cfg), cfg)}
  /\ marked = TRUE
  /\ runs = 0 /\ update = FALSE /\ raw = <<>>
  /\ stage = "idle" /\ verdict = "none"

\* An update reads the counts of the old file as well, and fails without them.
Start(u, b) ==
  /\ stage = "idle" /\ runs < MaxRuns
  /\ runs' = runs + 1 /\ update' = u /\ raw' = b
  /\ IF Readable(file)
       THEN stage' = (IF u THEN "write" ELSE "assert") /\ verdict' = "none"
       ELSE stage' = "idle" /\ verdict' = "failed"
  /\ UNCHANGED <<cfg, file, written, marked>>

\* WriteMetricsAssertion prepares the batch that is prepared already.
Write ==
  /\ stage = "write"
  /\ file' = WriteAssertionFile(Prepare(Prepare(raw, cfg), cfg), cfg)
  /\ written' = raw
  /\ marked' = FALSE
  /\ stage' = "mark"
  /\ UNCHANGED <<cfg, runs, update, raw, verdict>>

Mark ==
  /\ stage = "mark"
  /\ file' = IF Flexible(cfg) THEN MarkFlexibleAttrs(file, cfg) ELSE file
  /\ marked' = TRUE
  /\ stage' = "assert"
  /\ UNCHANGED <<cfg, written, runs, update, raw, verdict>>

\* The process ends, or a read or a write fails, before or while the file is
\* written; os.WriteFile truncates it first.
Interrupted ==
  /\ stage \in {"write", "mark"}
  /\ file' \in {file, Broken}
  /\ stage' = "idle" /\ verdict' = "failed"
  /\ UNCHANGED <<cfg, written, marked, runs, update, raw>>

Compare ==
  /\ stage = "assert"
  /\ verdict' = IF AssertMetrics(file, Prepare(raw, cfg)) THEN "passed" ELSE "failed"
  /\ stage' = "idle"
  /\ UNCHANGED <<cfg, file, written, marked, runs, update, raw>>

\* No further run.
NoMoreRuns == stage = "idle" /\ runs = MaxRuns /\ UNCHANGED assertionVars

NextAssertion ==
  \/ \E u \in BOOLEAN, b \in Batches : Start(u, b)
  \/ Write \/ Mark \/ Interrupted \/ Compare \/ NoMoreRuns

AssertionSpec == InitAssertion /\ [][NextAssertion]_assertionVars

-----------------------------------------------------------------------------
(* What two batches have in common once everything is blurred that a test  *)
(* declares as flexible.                                                   *)

Bag(s) == [x \in Range(s) |-> Cardinality({i \in DOMAIN s : s[i] = x})]

Blur(a, K) == [k \in DOMAIN a |-> IF k \in K THEN 0 ELSE a[k]]

\* What a test declares with WithVolatileAttributes and WithRegexAttributes.
MayChange(c) == c.volatile \cup DOMAIN c.regex

BlurredPoint(d, c) ==
  [attrs  |-> Blur(d.attrs, MayChange(c) \cup
                              (IF c.existsExcept THEN DOMAIN d.attrs \ c.exact ELSE {})),
   bounds |-> IF c.bounds THEN d.bounds ELSE 0]

BlurredPoints(m, c) == [j \in DOMAIN m.dps |-> BlurredPoint(m.dps[j], c)]

\* ... and whether WithSelectedNumberDatapoint would choose them, which may
\* depend on attributes that are blurred.
ShapedPoints(m, c) ==
  [j \in DOMAIN m.dps |-> [point  |-> BlurredPoint(m.dps[j], c),
                           chosen |-> m.name = c.selected.name => Chosen(m.dps[j], c)]]

\* A resource; points says what is kept of the datapoints of a metric.
Blurred(r, c, points(_)) ==
  [attrs   |-> Blur(r.attrs, MayChange(c)),
   version |-> IF c.version # {} THEN 0 ELSE r.version,
   metrics |-> Bag([k \in DOMAIN r.metrics |->
                 [name |-> r.metrics[k].name, type |-> r.metrics[k].type,
                  dps  |-> points(r.metrics[k])]])]

\* The batch in any order.
Content(b, c) ==
  LET points(m) == Bag(BlurredPoints(m, c)) IN Bag([i \in DOMAIN b |-> Blurred(b[i], c, points)])

\* The batch up to the order that the preparation does not depend on:
\* WithMaxDatapointsPerMetric takes datapoints as they come, and
\* WithSelectedNumberDatapoint the first metric with the name.
Shape(b, c) ==
  LET points(m) == IF c.max > 0 THEN ShapedPoints(m, c) ELSE Bag(ShapedPoints(m, c))
      blurred == [i \in DOMAIN b |-> Blurred(b[i], c, points)]
  IN  IF DOMAIN c.selected.attrs # {} THEN blurred ELSE Bag(blurred)

\* The attributes with a pattern have values that match it.
PatternsFit(b, c) ==
  LET fits(a) == \A k \in DOMAIN a \cap DOMAIN c.regex : a[k] \in c.regex[k]
  IN  \A i \in DOMAIN b :
        /\ fits(b[i].attrs) /\ (c.version # {} => b[i].version \in c.version)
        /\ \A k \in DOMAIN b[i].metrics : \A j \in DOMAIN b[i].metrics[k].dps :
             fits(b[i].metrics[k].dps[j].attrs)

\* The series of the batches can be told apart: attributes that differ have
\* different hashes; of several datapoints with the same attributes none is
\* kept for its bounds; and where datapoints are selected, a resource has one
\* metric of a name.
SeriesIdentified ==
  LET points(b) == UNION {Range(b[p[1]].metrics[p[2]].dps) :
                            p \in UNION {{i} \X DOMAIN b[i].metrics : i \in DOMAIN b}}
  IN  \A c \in Options :
        /\ \A d, e \in UNION {points(b) : b \in Batches} :
             LET x == SortableAttrs(d.attrs, FlexibleAttrs(c))
                 y == SortableAttrs(e.attrs, FlexibleAttrs(c))
             IN  Hash(x) = Hash(y) => x = y
        /\ c.first # {} => ~c.bounds
        /\ DOMAIN c.selected.attrs # {} =>
             \A b \in Batches : \A i \in DOMAIN b : \A k, l \in DOMAIN b[i].metrics :
               b[i].metrics[k].name = b[i].metrics[l].name => k = l

(* Properties.                                                             *)

\* An update that comes to its comparison passes it, whatever an earlier
\* update left behind: marking twice (markAttrs, then markNonIdentityAttrs)
\* and preparing twice (AssertMetricsSnapshot, then WriteMetricsAssertion)
\* leave a file that the batch it was written from satisfies.
UpdatePasses ==
  [][stage = "assert" /\ update /\ PatternsFit(raw, cfg) => verdict' = "passed"]_assertionVars

\* A later run with the same series passes, whatever the order in which they
\* came and whatever the values of the attributes that the test declared as
\* volatile or gave a pattern: the choice of keepFirstDatapoint and the marks
\* of markFlexibleAttrs agree on what may change. Only the datapoint of
\* WithSelectedNumberDatapoint has to be there again.
SameSeriesPass ==
  [][/\ stage = "assert" /\ ~update /\ marked
     /\ PatternsFit(raw, cfg)
     /\ ~(cfg.existsExcept /\ cfg.first # {})
     /\ Shape(raw, cfg) = Shape(written, cfg)
     => verdict' = "passed"]_assertionVars

\* A run passes only on a batch with the series that the file was written
\* from: the marks weaken nothing else, and neither does a file that an
\* interrupted update has left exact or broken.
PassedMeansSame ==
  verdict = "passed" =>
    Content(Prepare(raw, cfg), cfg) = Content(Prepare(written, cfg), cfg)

\* The counts that the selection takes from the file are those of the whole
\* batch that it was written from, although the file was written from what
\* the preparation left of it.
CountsOfWholeBatch == Readable(file) => ExpectedCounts(file) = ExpectedCounts(written)
=============================================================================
