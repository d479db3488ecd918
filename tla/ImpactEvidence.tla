--------------------------- MODULE ImpactEvidence ---------------------------
(***************************************************************************)
(* What two comparable runs say about task quality, repeatability and      *)
(* latency: metria.measurements.verification_impact and performance.       *)
(*                                                                         *)
(* A metric is a set: empty when the evidence does not support it, else    *)
(* the singleton of a fraction.                                            *)
(***************************************************************************)
EXTENDS Integers, Sequences, FiniteSets, Functions

Unavailable == {}
Rate(n, d)  == {[n |-> n, d |-> d]}
Passed(record) == Cardinality({i \in DOMAIN record.checks : record.checks[i]})

(* A record without declared checks has no quality evidence, and records of *)
(* different workloads have none together.                                  *)
QualityKnown(left, right) ==
  /\ left.checks # <<>> /\ right.checks # <<>>
  /\ Len(left.checks) = Len(right.checks)

PassRate(record) == Rate(Passed(record), Len(record.checks))

CompareTaskChecks(left, right) ==
  IF QualityKnown(left, right)
    THEN [candidate |-> PassRate(right),
          delta |-> Rate(Passed(right) - Passed(left), Len(left.checks))]
    ELSE [candidate |-> Unavailable, delta |-> Unavailable]

(* Repeatability counts the equal pairs among a prompt's trials, and needs  *)
(* at least two of them.  A capture maps <<trial, prompt>> to tokens.       *)
Trials(record)  == {id[1] : id \in DOMAIN record.capture}
Prompts(record) == {id[2] : id \in DOMAIN record.capture}

RepeatPairs(record) ==
  {r \in Trials(record) \X Trials(record) \X Prompts(record) : r[1] < r[2]}

ReferenceVariability(record) ==
  LET same == {r \in RepeatPairs(record) :
                 record.capture[<<r[1], r[3]>>] = record.capture[<<r[2], r[3]>>]}
  IN  IF Cardinality(Trials(record)) < 2 THEN Unavailable
      ELSE Rate(Cardinality(same), Cardinality(RepeatPairs(record)))

(* The mean of the native request clocks, if every prompt has a usable one. *)
MeasureLatency(record) ==
  IF record.status # "completed" \/ record.clocks = <<>> THEN Unavailable
  ELSE Rate(SumFunction(record.clocks), Len(record.clocks))

(* Latencies compare only when both were measured the same way.             *)
CompareLatency(left, right, comparable) ==
  LET l == MeasureLatency(left)  r == MeasureLatency(right) IN
  IF ~comparable \/ l = Unavailable \/ r = Unavailable \/ left.method # right.method
    THEN Unavailable
  ELSE {[reference |-> a, candidate |-> b] : a \in l, b \in r}

(* No ratio to a baseline of zero.                                          *)
LatencyRatio(latency) ==
  UNION {Rate(l.candidate.n * l.reference.d, l.candidate.d * l.reference.n) :
           l \in {m \in latency : m.reference.n > 0}}
=============================================================================
