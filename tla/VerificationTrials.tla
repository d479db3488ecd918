-------------------------- MODULE VerificationTrials --------------------------
(***************************************************************************)
(* Repeated verification of one recipe: execute_verification_trials of     *)
(* metria.verification_trials, over the decision verify_recipe takes about *)
(* each pair of runs from the evidence they retained (Comparability,       *)
(* Trajectories, ImpactEvidence, AcceptancePolicy).                        *)
(***************************************************************************)
EXTENDS Comparability, Trajectories, ImpactEvidence, AcceptancePolicy

CONSTANTS
  Warmups,      \* warmup pairs before the measured ones
  Measurements, \* measured pairs
  Recipes,      \* recipes: a comparison plan and a policy ({} without one)
  Pairs,        \* evidence a verification of the pair may retain
  Identities,   \* baseline identities
  NoIdentity    \* of a pair that cannot serve as a baseline

(* What a record retains: leaves under dotted paths, the tokens of its      *)
(* prompts, those of every trial if the run was completed, the outcome of   *)
(* each check and the request clocks.                                       *)
ValidRecord(r) ==
  /\ DOMAIN r.leaves \subseteq Seq(STRING) \ {<<>>}
  /\ IsFiniteSet(DOMAIN r.capture) /\ r.capture \in [DOMAIN r.capture -> Seq(Int)]
  /\ Trials(r) \subseteq Nat
  /\ r.status = "completed" => DOMAIN r.capture = Trials(r) \X Prompts(r)
  /\ r.checks \in Seq(BOOLEAN) /\ r.clocks \in Seq(Nat)

ASSUME TrialsAssumption ==
  /\ Warmups \in Nat /\ Measurements \in Nat \ {0}
  /\ NoIdentity \notin Identities
  /\ \A r \in Recipes : ValidPlan(r.plan) /\ (r.policy = {} \/ ValidPolicy(r.policy))
  /\ \A e \in Pairs : /\ DOMAIN e = {"left", "right", "gaps", "interrupted", "identity"}
                       /\ ValidRecord(e.left) /\ ValidRecord(e.right)
                       /\ e.identity \in Identities \cup {NoIdentity}

VARIABLES
  pc,         \* program point of execute_verification_trials
  recipe,     \* the recipe: [plan, policy]
  pair,       \* the evidence of the pair being verified
  published,  \* verifications that left a result in the output directory
  rows,       \* the pairs of the summary
  measured,   \* the measured pairs: [verdict, identity, timed]
  identity,   \* identity shared by the pairs so far
  exit, status,
  baseline,   \* the earlier summary given: {} or {[status, key]}
  files       \* files of the summary on disk, in the order written

trials == <<rows, measured, identity>>
vars   == <<pc, recipe, pair, published, trials, exit, status, baseline, files>>

-----------------------------------------------------------------------------
(* The decision about one pair.                                             *)

Report(e) == CompareRuns(e.left, e.right, recipe.plan)

Complete(e) == e.left.status = "completed" /\ e.right.status = "completed"

(* The behavioural analysis refuses evidence with gaps and captures it      *)
(* cannot score.                                                            *)
TrajectoryAnalysis(e) ==
  IF e.gaps \/ ~Scorable(e.left.capture, e.right.capture)
    THEN [status |-> "failed", values |-> <<>>]
  ELSE LET c == CompareTrajectories(e.left.capture, e.right.capture) IN
       [status |-> "completed",
        values |-> [agreement |-> {c.agreement}, all_match |-> {c.all_match},
                    divergence |-> IF c.divergence.complete THEN {c.divergence.rate} ELSE {}]]

ImpactAnalysis(e) ==
  IF e.gaps THEN [status |-> "failed", values |-> <<>>]
  ELSE LET checks == CompareTaskChecks(e.left, e.right) IN
       [status |-> "completed",
        values |-> [pass_rate |-> checks.candidate, pass_delta |-> checks.delta,
                    repeatability |-> ReferenceVariability(e.left),
                    latency_ratio |-> LatencyRatio(CompareLatency(e.left, e.right, TRUE))]]

Analyses(e) == [trajectory |-> TrajectoryAnalysis(e), impact |-> ImpactAnalysis(e)]

Judgement(e, analyses) ==
  IF e.interrupted \/ e.left.status = "failed" \/ e.right.status = "failed"
    THEN "EXECUTION_FAILED"
  ELSE IF ~Complete(e) \/ e.gaps THEN "INSUFFICIENT_EVIDENCE"
  ELSE IF ~Report(e).compatible THEN "NOT_COMPARABLE"
  ELSE IF \E name \in DOMAIN analyses : analyses[name].status # "completed"
    THEN "EXECUTION_FAILED"
  ELSE "VERIFIED"

Verdict(e) ==
  LET analyses  == Analyses(e)
      judgement == Judgement(e, analyses)
  IN  IF judgement = "VERIFIED" /\ recipe.policy # {}
        THEN EvaluatePolicy(recipe.policy, analyses, judgement)
        ELSE judgement

ExitCode(e, verdict) ==
  IF e.interrupted THEN 130
  ELSE [VERIFIED |-> 0, PASS |-> 0, FAIL |-> 1, NOT_COMPARABLE |-> 3,
        INSUFFICIENT_EVIDENCE |-> 4, EXECUTION_FAILED |-> 5][verdict]

Row(e) == LET verdict == Verdict(e) IN [verdict |-> verdict, exit |-> ExitCode(e, verdict)]

Timed(e) == CompareLatency(e.left, e.right, Report(e).compatible /\ ~e.gaps) # {}

-----------------------------------------------------------------------------
(* The trials.                                                              *)

NoPair == [identity |-> NoIdentity]

Init ==
  /\ pc = "pair" /\ recipe \in Recipes
  /\ pair = NoPair /\ published = 0
  /\ rows = <<>> /\ measured = <<>> /\ identity = NoIdentity
  /\ exit = 0 /\ status = "completed"
  /\ baseline = {} /\ files = <<>>

Warmup == Len(rows) <= Warmups     \* of the pair whose row is the last one
Ends(code, how) == exit' = code /\ status' = how /\ pc' = "summarize"

(* verify_recipe retains its own result whatever happened in the pair ...   *)
VerifyPair ==
  /\ pc = "pair" /\ Len(rows) < Warmups + Measurements
  /\ pair' \in Pairs
  /\ published' = published + 1
  /\ pc' = "row"
  /\ UNCHANGED <<recipe, trials, exit, status, baseline, files>>

(* ... or raises, as reading the implementation or the artifacts may.       *)
PairRaises ==
  /\ pc \in {"pair", "check"} /\ (pc = "pair" => Len(rows) < Warmups + Measurements)
  /\ Ends(5, "execution_failed")
  /\ pair' = NoPair
  /\ UNCHANGED <<recipe, published, trials, baseline, files>>

AppendRow ==
  /\ pc = "row"
  /\ rows' = Append(rows, Row(pair))
  /\ pc' = "check"
  /\ UNCHANGED <<recipe, pair, published, measured, identity, exit, status, baseline, files>>

(* A pair without a decision stops the trials, and so does one whose        *)
(* identity is unknown or another than that of the pairs before it.         *)
Decided == {"VERIFIED", "PASS", "FAIL"}

Check_Measured ==        \* mistake: warmups do not fix the identity
  /\ pc = "check"
  /\ LET verdict == rows[Len(rows)].verdict IN
     IF verdict \notin Decided
       THEN /\ Ends(rows[Len(rows)].exit,
                    IF rows[Len(rows)].exit = 130 THEN "interrupted"
                    ELSE "verification_failed")
            /\ UNCHANGED <<measured, identity>>
     ELSE IF pair.identity = NoIdentity
       THEN Ends(3, "not_comparable") /\ UNCHANGED <<measured, identity>>
     ELSE /\ identity' = pair.identity
          /\ pc' = "pair"
          /\ measured' = IF Warmup THEN measured
                         ELSE Append(measured, [verdict |-> verdict, timed |-> Timed(pair),
                                                identity |-> pair.identity])
          /\ IF ~Warmup /\ verdict = "FAIL" THEN exit' = 1 /\ status' = "policy_failed"
             ELSE UNCHANGED <<exit, status>>
  /\ pair' = NoPair
  /\ UNCHANGED <<recipe, published, rows, baseline, files>>

Check ==
  /\ pc = "check"
  /\ LET verdict == rows[Len(rows)].verdict IN
     IF verdict \notin Decided
       THEN /\ Ends(rows[Len(rows)].exit,
                    IF rows[Len(rows)].exit = 130 THEN "interrupted"
                    ELSE "verification_failed")
            /\ UNCHANGED <<measured, identity>>
     ELSE IF pair.identity = NoIdentity \/ identity \notin {NoIdentity, pair.identity}
       THEN Ends(3, "not_comparable") /\ UNCHANGED <<measured, identity>>
     ELSE /\ identity' = pair.identity
          /\ pc' = "pair"
          /\ measured' = IF Warmup THEN measured
                         ELSE Append(measured, [verdict |-> verdict, timed |-> Timed(pair),
                                                identity |-> pair.identity])
          /\ IF ~Warmup /\ verdict = "FAIL" THEN exit' = 1 /\ status' = "policy_failed"
             ELSE UNCHANGED <<exit, status>>
  /\ pair' = NoPair
  /\ UNCHANGED <<recipe, published, rows, baseline, files>>

AllPairs ==
  /\ pc = "pair" /\ Len(rows) = Warmups + Measurements
  /\ pc' = "summarize"
  /\ UNCHANGED <<recipe, pair, published, trials, exit, status, baseline, files>>

Interrupt ==
  /\ pc \in {"pair", "row", "check"}
  /\ Ends(130, "interrupted")
  /\ pair' = NoPair
  /\ UNCHANGED <<recipe, published, trials, baseline, files>>

(* A baseline matches only if it was completed with the same identity.      *)
BaselineMatches(b) == b.status = "completed" /\ identity # NoIdentity /\ b.key = identity

Summarize ==
  /\ pc = "summarize"
  /\ \E given \in {{}} \cup {{[status |-> s, key |-> k]} :
                     s \in {"completed", "policy_failed"}, k \in Identities} :
       /\ baseline' = given
       /\ IF exit \in {0, 1} /\ \E b \in given : ~BaselineMatches(b)
            THEN exit' = 3 /\ status' = "baseline_not_comparable"
            ELSE UNCHANGED <<exit, status>>
  /\ pc' = "persist"
  /\ UNCHANGED <<recipe, pair, published, trials, files>>

(* A mean latency only over all the measured pairs, each with its clock.    *)
LatencySamples ==
  IF /\ status \in {"completed", "policy_failed"}
     /\ Len(measured) = Measurements
     /\ \A i \in DOMAIN measured : measured[i].timed
    THEN Measurements ELSE 0

Summary == [status |-> status, exit |-> exit, pairs |-> rows,
            samples |-> LatencySamples]

(* The report, then the summary; an error or an interrupt escapes.          *)
Persist ==
  /\ pc = "persist"
  /\ files' = Append(files, IF files = <<>> THEN "report" ELSE Summary)
  /\ pc' = IF files = <<>> THEN "persist" ELSE "done"
  /\ UNCHANGED <<recipe, pair, published, trials, exit, status, baseline>>

PersistRaises ==
  /\ pc \in {"summarize", "persist"}
  /\ pc' = "raised"
  /\ UNCHANGED <<recipe, pair, published, trials, exit, status, baseline, files>>

Finished == pc \in {"done", "raised"} /\ UNCHANGED vars

Step == VerifyPair \/ AppendRow \/ Check \/ AllPairs \/ Summarize \/ Persist

Next == Step \/ PairRaises \/ Interrupt \/ PersistRaises \/ Finished

(* verify_recipe returns: its processes have deadlines.                     *)
Spec == Init /\ [][Next]_vars

-----------------------------------------------------------------------------
(* Properties.                                                              *)

Verdicts == Decided \cup {"NOT_COMPARABLE", "INSUFFICIENT_EVIDENCE", "EXECUTION_FAILED"}

(* Type correctness; no more pairs than the trial policy asks for.          *)
TypeOK ==
  /\ pc \in {"pair", "row", "check", "summarize", "persist", "done", "raised"}
  /\ recipe \in Recipes /\ (pair = NoPair <=> pc # "row" /\ pc # "check")
  /\ \A i \in DOMAIN rows : rows[i].verdict \in Verdicts /\ rows[i].exit \in {0, 1, 3, 4, 5, 130}
  /\ \A i \in DOMAIN measured : measured[i].verdict \in Decided
  /\ Len(rows) <= Warmups + Measurements /\ Len(measured) <= Measurements
  /\ identity \in Identities \cup {NoIdentity}
  /\ exit \in {0, 1, 3, 4, 5, 130}
  /\ status \in {"completed", "policy_failed", "verification_failed", "not_comparable",
                 "execution_failed", "interrupted", "baseline_not_comparable"}
  /\ Len(files) <= 2

(* A verdict is given only on runs that are alike apart from what the plan  *)
(* lets differ: both complete, the controlled and the blocking dimensions   *)
(* equal as a whole, and every other leaf of evidence equal, varied or      *)
(* waived, where the more specific declaration decides and what a varied    *)
(* dimension governs downstream must at least be there on both sides.       *)
VariedOrWaived(plan, path) ==
  \E d \in plan.vary \cup plan.waiver :
    /\ Covers(d, path)
    /\ \A e \in plan.control \cup plan.block : Covers(e, path) => Len(e) < Len(d)

Downstream(plan, path) ==
  /\ \A d \in Declared(plan) : ~Covers(d.by, path)
  /\ \E d \in plan.vary : Len(d) = 1 /\ Aliases(path, d[1])

Alike(left, right, plan) ==
  /\ \A d \in plan.control \cup plan.block : Dimension(left, d) = Dimension(right, d)
  /\ \A p \in DOMAIN left.leaves \cup DOMAIN right.leaves : Relevant(p) =>
       IF BothHave(left, right, p)
         THEN \/ left.leaves[p] = right.leaves[p]
              \/ VariedOrWaived(plan, p) \/ Downstream(plan, p)
       ELSE VariedOrWaived(plan, p)
  /\ \A n \in DOMAIN left.metrics \cap DOMAIN right.metrics : left.metrics[n] = right.metrics[n]

FailClosed ==
  pc = "row" /\ Verdict(pair) \in Decided =>
    /\ Complete(pair) /\ ~pair.interrupted /\ ~pair.gaps
    /\ Alike(pair.left, pair.right, recipe.plan)

(* PASS says that the retained evidence itself meets every criterion, FAIL  *)
(* that it is all there and misses one: whatever path the numbers took      *)
(* through the analyses, the metrics and the policy.  `Evidence` states     *)
(* from the raw records what each target means.                             *)
CommonPrefix(s, t) ==
  CHOOSE k \in 0..Shorter(s, t) :
    /\ \A i \in 1..k : s[i] = t[i]
    /\ k < Shorter(s, t) => s[k + 1] # t[k + 1]

SameAnswers(record) ==
  LET again == {r \in (DOMAIN record.capture) \X (DOMAIN record.capture) :
                  r[1][1] < r[2][1] /\ r[1][2] = r[2][2]}
  IN [n |-> Cardinality({r \in again : record.capture[r[1]] = record.capture[r[2]]}),
      d |-> Cardinality(again)]

When(supported, value) == IF supported THEN {value} ELSE {}

Evidence(target, l, r) ==
  LET ids    == DOMAIN l.capture
      sum(f) == SumFunction(f)
      passed(record) == Cardinality({k \in 1..Len(record.checks) : record.checks[k]})
      graded == l.checks # <<>> /\ Len(l.checks) = Len(r.checks)
      timed  == l.method = r.method /\ l.clocks # <<>> /\ r.clocks # <<>>
  IN CASE target = "agreement" ->
            {Fraction(sum([i \in ids |-> CommonPrefix(l.capture[i], r.capture[i])]),
                      sum([i \in ids |-> Longer(l.capture[i], r.capture[i])]))}
       [] target = "divergence" ->
            When(\A i \in ids : <<>> \notin {l.capture[i], r.capture[i]},
                 Fraction(Cardinality({i \in ids : l.capture[i] # r.capture[i]}), Cardinality(ids)))
       [] target = "all_match" -> {l.capture = r.capture}
       [] target = "status" -> {"completed"}
       [] target = "pass_rate" -> When(graded, Fraction(passed(r), Len(r.checks)))
       [] target = "pass_delta" -> When(graded, Fraction(passed(r) - passed(l), Len(r.checks)))
       [] target = "repeatability" -> When(SameAnswers(l).d > 0, SameAnswers(l))
       [] target = "latency_ratio" ->
            When(timed /\ sum(l.clocks) > 0,
                 Fraction(sum(r.clocks) * Len(l.clocks), Len(r.clocks) * sum(l.clocks)))

Meets(criterion, value) ==
  IF criterion.equals # {} THEN value \in criterion.equals
  ELSE /\ \A a \in criterion.min : AtMost(a, value)
       /\ \A b \in criterion.max : AtMost(value, b)

PassMeansCriteria ==
  pc = "row" /\ Verdict(pair) \in {"PASS", "FAIL"} =>
    /\ \A c \in recipe.policy : Evidence(c.target, pair.left, pair.right) # {}
    /\ (Verdict(pair) = "PASS") <=>
         \A c \in recipe.policy :
           \A v \in Evidence(c.target, pair.left, pair.right) : Meets(c, v)

(* Trials that exit with 0 ran every pair, decided every one, measured the  *)
(* same artifacts and hardware throughout and the same as the baseline      *)
(* given, and failed none of the measured pairs.                            *)
ExitEarned ==
  pc \in {"persist", "done"} /\ exit = 0 =>
    /\ Len(rows) = Warmups + Measurements
    /\ \A i \in DOMAIN rows : /\ rows[i].verdict \in Decided
                             /\ i > Warmups => rows[i].verdict # "FAIL"
    /\ \A i, j \in DOMAIN measured : measured[i].identity = measured[j].identity
    /\ \A b \in baseline, i \in DOMAIN measured :
         b.status = "completed" /\ b.key = measured[i].identity

(* A mean latency is over all the measured pairs, each of which was timed:  *)
(* it is never a mean of those that happened to have a clock.               *)
LatencyHonest ==
  pc \in {"persist", "done"} /\ Summary.samples > 0 =>
    /\ Summary.samples = Measurements /\ Summary.samples = Len(measured)
    /\ \A i \in DOMAIN measured : measured[i].timed

(* "Retain every pair": unless the trials were interrupted, the summary     *)
(* lists every pair that left a result in the output directory.             *)
PairsRetained ==
  pc = "done" /\ status # "interrupted" => Len(files[2].pairs) = published

(* The exit status, the latency and the list of pairs that the trials leave *)
(* are all of the pairs that really ran.                                    *)
TrialsSound == ExitEarned /\ LatencyHonest /\ PairsRetained
=============================================================================
