-------------------------- MODULE AcceptancePolicy --------------------------
(***************************************************************************)
(* The acceptance policy over the analyses of one pair: metria.policies.   *)
(*                                                                         *)
(* A criterion names a target and bounds it, or expects an exact value.    *)
(* Observed numbers are fractions; their denominators are not negative.    *)
(* Eight targets of the trajectory and of the impact analysis stand for all *)
(* of them: the full match rate, the reference's pass rate, the latency in  *)
(* seconds and the serving targets are read alike.  An analysis here is the *)
(* one of its name that metria registers.  The code also checks that there  *)
(* is just one, of the version, methodology and metric identity the target  *)
(* names, and that its coverage is one; all this holds of these by their    *)
(* construction.                                                            *)
(***************************************************************************)
EXTENDS Integers, FiniteSets

AtMost(a, b) == a.n * b.d <= b.n * a.d
Whole(k)     == [n |-> k, d |-> 1]

Number(analysis, lowest, highest) ==
  [kind |-> "number", analysis |-> analysis, least |-> {Whole(lowest)}, most |-> highest]
Exact(kind, analysis) ==
  [kind |-> kind, analysis |-> analysis, least |-> {}, most |-> {}]

Targets ==
  [agreement     |-> Number("trajectory", 0, {Whole(1)}),
   divergence    |-> Number("trajectory", 0, {Whole(1)}),
   all_match     |-> Exact("boolean", "trajectory"),
   status        |-> Exact("status", "trajectory"),
   pass_rate     |-> Number("impact", 0, {Whole(1)}),
   pass_delta    |-> Number("impact", -1, {Whole(1)}),
   repeatability |-> Number("impact", 0, {Whole(1)}),
   latency_ratio |-> Number("impact", 0, {})]

InDomain(target, v) ==
  /\ \A a \in Targets[target].least : AtMost(a, v)
  /\ \A b \in Targets[target].most : AtMost(v, b)

(* Bounds within the target's domain, an expectation of the target's kind,  *)
(* and no target twice.                                                     *)
ValidCriterion(c) ==
  c.target \in DOMAIN Targets /\
  IF Targets[c.target].kind = "number"
    THEN c.equals = {} /\ c.min \cup c.max # {}
         /\ \A bound \in c.min \cup c.max : InDomain(c.target, bound)
         /\ \A a \in c.min, b \in c.max : AtMost(a, b)
    ELSE c.min = {} /\ c.max = {} /\ Cardinality(c.equals) = 1
         /\ c.equals \subseteq (IF Targets[c.target].kind = "boolean" THEN BOOLEAN
                                ELSE {"completed", "failed", "skipped"})

ValidPolicy(criteria) ==
  /\ criteria # {} /\ \A c \in criteria : ValidCriterion(c)
  /\ \A c, d \in criteria : c.target = d.target => c = d

Reason(text) == [known |-> FALSE, value |-> text]
Value(v)     == [known |-> TRUE,  value |-> v]

(* What an analysis says of a target: `analyses` maps the names of the      *)
(* analyses to their status and, per target, the set of values (empty when  *)
(* the analysis could not support one).  A fraction without a denominator   *)
(* is a number that is not finite.                                          *)
Observe(target, analyses) ==
  LET name == Targets[target].analysis IN
  IF name \notin DOMAIN analyses THEN Reason("missing analysis")
  ELSE IF analyses[name].status # "completed" THEN Reason("incomplete analysis")
  ELSE IF Targets[target].kind = "status" THEN Value(analyses[name].status)
  ELSE IF analyses[name].values[target] = {} THEN Reason("missing metric")
  ELSE LET v == CHOOSE v \in analyses[name].values[target] : TRUE IN
       IF Targets[target].kind = "number" /\ v.d = 0 THEN Reason("not finite")
       ELSE IF Targets[target].kind = "number" /\ ~InDomain(target, v)
         THEN Reason("outside its domain")
       ELSE Value(v)

Satisfied(c, value) ==
  IF Targets[c.target].kind = "number"
    THEN (\A a \in c.min : AtMost(a, value)) /\ (\A b \in c.max : AtMost(value, b))
    ELSE value \in c.equals

CriterionResult(c, analyses) ==
  LET seen == Observe(c.target, analyses) IN
  IF ~seen.known THEN "INSUFFICIENT_EVIDENCE"
  ELSE IF Satisfied(c, seen.value) THEN "PASS" ELSE "FAIL"

(* Missing evidence outweighs a failed criterion.                           *)
EvaluatePolicy(criteria, analyses, verdict) ==
  LET results == {CriterionResult(c, analyses) : c \in criteria} IN
  IF verdict # "VERIFIED" THEN "NOT_EVALUATED"
  ELSE IF "INSUFFICIENT_EVIDENCE" \in results THEN "INSUFFICIENT_EVIDENCE"
  ELSE IF results = {"PASS"} THEN "PASS" ELSE "FAIL"
=============================================================================
