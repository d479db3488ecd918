--------------------------- MODULE ComparisonProofs ---------------------------
(***************************************************************************)
(* Proofs about what the repository concludes from a comparison of runs.   *)
(*                                                                         *)
(* VerificationTrials: for any number of warmups and measured pairs and    *)
(* any evidence the pairs retain, what the trials exit with, time and      *)
(* list, what runs a verdict is given on, and what PASS and FAIL say of    *)
(* the evidence.                                                           *)
(*                                                                         *)
(* FidelityScore: for any prompts, answers, engines and edits of the       *)
(* inputs, what a report says of its run, and what two reports that        *)
(* compare have in common.                                                 *)
(***************************************************************************)
EXTENDS VerificationTrials, FidelityScore, FiniteSetTheorems, FunctionTheorems, TLAPS

(* A row without a decision is never one of a good exit.                   *)
RowSet ==
  {r \in [verdict : Verdicts, exit : {0, 1, 3, 4, 5, 130}] :
     r.verdict \notin Decided => r.exit \notin {0, 1}}
MeasuredSet == [verdict : Decided, timed : BOOLEAN, identity : Identities]

Statuses == {"completed", "policy_failed", "verification_failed", "not_comparable",
             "execution_failed", "interrupted", "baseline_not_comparable"}

Shape ==
  /\ pc \in {"pair", "row", "check", "summarize", "persist", "done", "raised"}
  /\ recipe \in Recipes
  /\ pair \in IF pc \in {"row", "check"} THEN Pairs ELSE {NoPair}
  /\ rows \in Seq(RowSet) /\ measured \in Seq(MeasuredSet) /\ published \in Nat
  /\ identity \in Identities \cup {NoIdentity}
  /\ exit \in {0, 1, 3, 4, 5, 130} /\ status \in Statuses
  /\ pc = "check" => Len(rows) > 0
  /\ Len(rows) <= Warmups + Measurements /\ Len(measured) <= Measurements

(* The rows that were judged: all but one that is about to be.             *)
JudgedOnce == IF pc = "check" THEN Len(rows) - 1 ELSE Len(rows)

AllAlike == \A i \in DOMAIN measured : measured[i].identity = identity

GoodRows(n) ==
  /\ \A i \in 1..n : rows[i].verdict \in Decided
  /\ exit = 0 => \A i \in 1..n : i > Warmups => rows[i].verdict # "FAIL"

(* While the trials go on.                                                 *)
Going ==
  pc \in {"pair", "row", "check"} =>
    /\ exit \in {0, 1} /\ status \in {"completed", "policy_failed"}
    /\ GoodRows(JudgedOnce)
    /\ Len(measured) = IF JudgedOnce > Warmups THEN JudgedOnce - Warmups ELSE 0
    /\ pc = "row" => Len(rows) < Warmups + Measurements
    /\ published = IF pc = "row" THEN Len(rows) + 1 ELSE Len(rows)

(* When they are over.                                                     *)
Over ==
  pc \in {"summarize", "persist", "done"} =>
    /\ exit = 0 => Len(rows) = Warmups + Measurements /\ GoodRows(Len(rows))
    /\ status # "interrupted" => published = Len(rows)
    /\ status = "interrupted" => exit = 130
    /\ pc # "summarize" /\ exit = 0 => \A b \in baseline : BaselineMatches(b)

Filed ==
  /\ pc \in {"pair", "row", "check", "summarize"} => files = <<>>
  /\ pc \in {"persist", "raised"} => files \in {<<>>, <<"report">>}
  /\ pc = "done" => Len(files) = 2 /\ files[2].pairs = rows

TrialsInv == Shape /\ AllAlike /\ Going /\ Over /\ Filed

-----------------------------------------------------------------------------
(* The trials keep the invariant.                                          *)

(* A row has a verdict and its exit code, which is a good one only of a    *)
(* decision.                                                               *)
LEMMA VerdictType == ASSUME NEW e PROVE Row(e) \in RowSet
<1>1. Judgement(e, Analyses(e)) \in {"EXECUTION_FAILED", "INSUFFICIENT_EVIDENCE",
                                     "NOT_COMPARABLE", "VERIFIED"}
  BY DEF Judgement
<1>2. Verdict(e) \in Verdicts
  <2>1. EvaluatePolicy(recipe.policy, Analyses(e), "VERIFIED")
          \in {"INSUFFICIENT_EVIDENCE", "PASS", "FAIL"}
    BY DEF EvaluatePolicy
  <2> QED BY <1>1, <2>1 DEF Verdict, Verdicts, Decided
<1>3. /\ ExitCode(e, Verdict(e)) \in {0, 1, 3, 4, 5, 130}
      /\ Verdict(e) \notin Decided => ExitCode(e, Verdict(e)) \notin {0, 1}
  BY <1>2 DEF ExitCode, Verdicts, Decided
<1> QED BY <1>2, <1>3 DEF Row, RowSet

LEMMA TrialsInit == Init => TrialsInv
BY TrialsAssumption DEF Init, TrialsInv, Shape, AllAlike, Going, Over, Filed, GoodRows, JudgedOnce,
  Statuses

LEMMA CheckSteps ==
  ASSUME TrialsInv, Check
  PROVE  TrialsInv'
<1>1. /\ rows \in Seq(RowSet) /\ Len(rows) > 0 /\ rows[Len(rows)] \in RowSet
      /\ pair \in Pairs /\ pc = "check"
  BY DEF Check, TrialsInv, Shape
<1> DEFINE row == rows[Len(rows)]
<1>2. \/ /\ row.verdict \notin Decided /\ pc' = "summarize" /\ exit' = row.exit
         /\ status' = IF row.exit = 130 THEN "interrupted" ELSE "verification_failed"
         /\ UNCHANGED <<measured, identity>>
      \/ /\ pc' = "summarize" /\ exit' = 3 /\ status' = "not_comparable"
         /\ UNCHANGED <<measured, identity>>
      \/ /\ row.verdict \in Decided /\ pair.identity # NoIdentity
         /\ identity \in {NoIdentity, pair.identity} /\ identity' = pair.identity
         /\ pc' = "pair"
         /\ \/ measured' = measured /\ Warmup
            \/ /\ measured' = Append(measured, [verdict |-> row.verdict, timed |-> Timed(pair),
                                                identity |-> pair.identity])
               /\ ~Warmup
         /\ \/ exit' = 1 /\ status' = "policy_failed"
            \/ /\ Warmup \/ row.verdict # "FAIL"
               /\ UNCHANGED <<exit, status>>
  BY DEF Check, Ends
<1>3. /\ row.verdict \in Verdicts /\ row.exit \in {0, 1, 3, 4, 5, 130}
      /\ row.verdict \notin Decided => row.exit \notin {0, 1}
  BY <1>1 DEF RowSet
<1>4. UNCHANGED <<recipe, published, rows, baseline, files>> /\ pair' = NoPair
  BY DEF Check
<1>5. pair.identity \in Identities \cup {NoIdentity} /\ NoIdentity \notin Identities
  BY <1>1, TrialsAssumption
<1>6. /\ Len(measured') <= Measurements
      /\ pc' = "pair" => Len(measured') = IF Len(rows) > Warmups THEN Len(rows) - Warmups ELSE 0
  <2>1. /\ measured \in Seq(MeasuredSet)
        /\ Len(measured) = IF Len(rows) - 1 > Warmups THEN Len(rows) - 1 - Warmups ELSE 0
        /\ Len(rows) <= Warmups + Measurements /\ Len(measured) <= Measurements
    BY <1>1 DEF TrialsInv, Shape, Going, JudgedOnce
  <2>2. \/ pc' = "summarize" /\ measured' = measured
        \/ measured' = measured /\ Len(rows) <= Warmups
        \/ ~(Len(rows) <= Warmups) /\ Len(measured') = Len(measured) + 1
    <3> DEFINE last == [verdict |-> row.verdict, timed |-> Timed(pair), identity |-> pair.identity]
    <3>1. \/ pc' = "summarize" /\ measured' = measured
          \/ measured' = measured /\ Warmup
          \/ ~Warmup /\ measured' = Append(measured, last)
      BY <1>2
    <3> HIDE DEF last
    <3>2. Warmup <=> Len(rows) <= Warmups
      BY DEF Warmup
    <3>3. Len(Append(measured, last)) = Len(measured) + 1
      BY <2>1
    <3> QED BY <3>1, <3>2, <3>3
  <2>3. /\ Warmups \in Nat /\ Measurements \in Nat \ {0} /\ Len(rows) \in Nat
        /\ Len(measured) \in Nat
    BY <1>1, <2>1, TrialsAssumption
  <2>4. CASE pc' = "summarize" /\ measured' = measured
    BY <2>1, <2>4
  <2>5. CASE measured' = measured /\ Len(rows) <= Warmups
    <3>1. ~(Len(rows) - 1 > Warmups) /\ ~(Len(rows) > Warmups)
      BY <2>3, <2>5
    <3> QED BY <2>1, <2>5, <3>1
  <2>6. CASE ~(Len(rows) <= Warmups) /\ Len(measured') = Len(measured) + 1
    <3>1. Len(rows) > Warmups
      BY <2>3, <2>6
    <3>2. Len(measured) = Len(rows) - 1 - Warmups
      BY <2>1, <2>3, <3>1
    <3>3. Len(measured') = Len(rows) - Warmups
      BY <2>3, <2>6, <3>2
    <3> QED BY <2>1, <2>3, <3>1, <3>3
  <2> QED BY <2>2, <2>4, <2>5, <2>6
<1>9. Shape'
  <2>1. measured' \in Seq(MeasuredSet) /\ identity' \in Identities \cup {NoIdentity}
    <3> DEFINE last == [verdict |-> row.verdict, timed |-> Timed(pair),
                        identity |-> pair.identity]
    <3>1. row.verdict \in Decided /\ pair.identity # NoIdentity => last \in MeasuredSet
      BY <1>5 DEF MeasuredSet, Timed
    <3>2. /\ identity' \in Identities \cup {NoIdentity}
          /\ \/ measured' = measured
             \/ /\ row.verdict \in Decided /\ pair.identity # NoIdentity
                /\ measured' = Append(measured, last)
      BY <1>2, <1>5 DEF TrialsInv, Shape
    <3> HIDE DEF last
    <3> QED BY <3>1, <3>2 DEF TrialsInv, Shape
  <2>2. /\ pc' \in {"pair", "summarize"} /\ exit' \in {0, 1, 3, 4, 5, 130}
        /\ status' \in Statuses
    BY <1>2, <1>3 DEF TrialsInv, Shape, Statuses
  <2> QED BY <2>1, <2>2, <1>4, <1>6 DEF TrialsInv, Shape
<1>7. AllAlike'
  <2>1. CASE identity = NoIdentity
    <3>1. \A i \in DOMAIN measured : measured[i] \in MeasuredSet
      BY DEF TrialsInv, Shape
    <3>6. \A i \in DOMAIN measured : FALSE
      BY <2>1, <1>5, <3>1 DEF TrialsInv, AllAlike, MeasuredSet
    <3>2. measured = <<>>
      <4>1. measured \in Seq(MeasuredSet)
        BY DEF TrialsInv, Shape
      <4> QED BY <3>6, <4>1
    <3>3. CASE measured' = measured
      BY <3>2, <3>3 DEF AllAlike
    <3>4. CASE measured' # measured
      <4>1. measured' = Append(measured, [verdict |-> row.verdict, timed |-> Timed(pair),
                                          identity |-> pair.identity])
            /\ identity' = pair.identity
        BY <1>2, <3>4
      <4>2. DOMAIN measured' = {1} /\ measured'[1].identity = identity'
        BY <3>2, <4>1
      <4> QED BY <4>2 DEF AllAlike
    <3> QED BY <3>3, <3>4
  <2>2. CASE identity # NoIdentity
    <3>1. identity' = identity
      BY <1>2, <2>2
    <3>2. CASE measured' = measured
      BY <3>1, <3>2 DEF AllAlike, TrialsInv
    <3>3. CASE measured' # measured
      <4>1. measured' = Append(measured, [verdict |-> row.verdict, timed |-> Timed(pair),
                                          identity |-> pair.identity])
            /\ pair.identity = identity
        BY <1>2, <2>2, <3>3
      <4> DEFINE last == [verdict |-> row.verdict, timed |-> Timed(pair),
                          identity |-> pair.identity]
      <4>2. last.identity = identity
        BY <4>1
      <4> HIDE DEF last
      <4>3. measured \in Seq(MeasuredSet) /\ measured' = Append(measured, last)
        BY <4>1 DEF TrialsInv, Shape, last
      <4>4. \A i \in DOMAIN measured' : measured'[i] = last \/ (i \in DOMAIN measured /\ measured'[i] = measured[i])
        BY <4>3
      <4> QED BY <3>1, <4>2, <4>4 DEF AllAlike, TrialsInv
    <3> QED BY <3>2, <3>3
  <2> QED BY <2>1, <2>2
<1>8. Going' /\ Over' /\ Filed'
  <2>1. CASE pc' = "summarize"
    BY <1>1, <1>2, <1>3, <1>4, <2>1 DEF TrialsInv, Shape, Going, Over, Filed
  <2>2. CASE pc' = "pair"
    <3>1. /\ exit' \in {0, 1} /\ status' \in {"completed", "policy_failed"}
          /\ row.verdict \in Decided
          /\ exit' = 0 => exit = 0 /\ (Warmup \/ row.verdict # "FAIL")
      BY <1>1, <1>2, <2>2 DEF TrialsInv, Going
    <3>2. GoodRows(Len(rows))'
      BY <1>1, <1>4, <3>1, TrialsAssumption DEF TrialsInv, Going, JudgedOnce, GoodRows, Warmup
    <3> QED BY <1>1, <1>4, <1>6, <2>2, <3>1, <3>2 DEF TrialsInv, Going, Over, Filed, JudgedOnce
  <2> QED BY <1>2, <2>1, <2>2
<1> QED BY <1>7, <1>8, <1>9 DEF TrialsInv

LEMMA TrialsStep == TrialsInv /\ [Next]_vars => TrialsInv'
<1> SUFFICES ASSUME TrialsInv, [Next]_vars PROVE TrialsInv'
  OBVIOUS
<1> USE DEF TrialsInv
<1>1. CASE VerifyPair
  BY <1>1, TrialsAssumption DEF VerifyPair, Shape, AllAlike, Going, Over, Filed, GoodRows, JudgedOnce, trials
<1>2. CASE PairRaises
  BY <1>2 DEF PairRaises, Ends, Shape, AllAlike, Going, Over, Filed, GoodRows, trials, Statuses
<1>3. CASE AppendRow
  <2>1. /\ pc = "row" /\ pc' = "check" /\ rows' = Append(rows, Row(pair)) /\ Row(pair) \in RowSet
        /\ UNCHANGED <<recipe, pair, published, measured, identity, exit, status, baseline, files>>
    BY <1>3, VerdictType DEF AppendRow
  <2>2. /\ rows \in Seq(RowSet) /\ rows' \in Seq(RowSet) /\ Len(rows') = Len(rows) + 1
        /\ \A i \in 1..Len(rows) : rows'[i] = rows[i]
    BY <2>1 DEF Shape
  <2>3. GoodRows(Len(rows))
    BY <2>1 DEF Going, JudgedOnce
  <2>4. GoodRows(Len(rows) - 1)'
    <3>1. Len(rows') - 1 = Len(rows) /\ exit' = exit
      BY <2>1, <2>2
    <3>2. \A i \in 1..Len(rows') - 1 : i \in 1..Len(rows) /\ rows'[i] = rows[i]
      BY <2>2, <3>1
    <3> QED BY <2>3, <3>1, <3>2 DEF GoodRows
  <2>5. Shape' /\ AllAlike'
    <3>1. Len(rows') <= Warmups + Measurements
      BY <2>1, <2>2, TrialsAssumption DEF Going
    <3> QED BY <2>1, <2>2, <3>1 DEF Shape, AllAlike
  <2>6. Going' /\ Over' /\ Filed'
    BY <2>1, <2>2, <2>4, TrialsAssumption DEF Going, JudgedOnce, Over, Filed, Shape
  <2> QED BY <2>5, <2>6
<1>4. CASE Check
  BY <1>4, CheckSteps
<1>5. CASE AllPairs
  BY <1>5 DEF AllPairs, Shape, AllAlike, Going, Over, Filed, GoodRows, JudgedOnce, trials
<1>6. CASE Interrupt
  BY <1>6 DEF Interrupt, Ends, Shape, AllAlike, Going, Over, Filed, GoodRows, trials, Statuses
<1>7. CASE Summarize
  <2>1. /\ pc = "summarize" /\ pc' = "persist"
        /\ UNCHANGED <<recipe, pair, published, rows, measured, identity, files>>
        /\ \/ exit' = 3 /\ status' = "baseline_not_comparable" /\ exit \in {0, 1}
           \/ /\ UNCHANGED <<exit, status>>
              /\ exit \in {0, 1} => \A b \in baseline' : BaselineMatches(b)
    BY <1>7 DEF Summarize, trials
  <2>2. \A b \in baseline' : BaselineMatches(b) <=> BaselineMatches(b)'
    BY <2>1 DEF BaselineMatches
  <2>3. Shape' /\ AllAlike' /\ Filed'
    BY <2>1 DEF Shape, AllAlike, Filed, Statuses
  <2>4. Going' /\ Over'
    BY <2>1, <2>2 DEF Going, Over, GoodRows
  <2> QED BY <2>3, <2>4
<1>8. CASE Persist
  <2>1. files' = Append(files, IF files = <<>> THEN "report" ELSE Summary)
        /\ pc' = (IF files = <<>> THEN "persist" ELSE "done") /\ pc = "persist"
        /\ UNCHANGED <<recipe, pair, published, rows, measured, identity, exit, status, baseline>>
    BY <1>8 DEF Persist, trials
  <2>2. Shape' /\ AllAlike' /\ Going'
    BY <2>1 DEF Shape, AllAlike, Going
  <2>3. Over'
    BY <2>1 DEF Over, GoodRows, BaselineMatches
  <2>4. Filed'
    <3>1. Summary.pairs = rows /\ Append(<<>>, "report") = <<"report">>
          /\ Append(<<"report">>, Summary)[2] = Summary
          /\ Len(Append(<<"report">>, Summary)) = 2
      BY DEF Summary
    <3> HIDE DEF Summary
    <3> QED BY <2>1, <3>1 DEF Filed
  <2> QED BY <2>2, <2>3, <2>4
<1>9. CASE PersistRaises
  BY <1>9 DEF PersistRaises, Shape, AllAlike, Going, Over, Filed, trials
<1>10. CASE UNCHANGED vars
  BY <1>10 DEF vars, trials, Shape, AllAlike, Going, Over, Filed, GoodRows, JudgedOnce, BaselineMatches
<1> QED
  BY <1>1, <1>2, <1>3, <1>4, <1>5, <1>6, <1>7, <1>8, <1>9, <1>10 DEF Next, Step, Finished

LEMMA TrialsInvariant == Spec => []TrialsInv
BY TrialsInit, TrialsStep, PTL DEF Spec

-----------------------------------------------------------------------------
(* A set of naturals that is not empty has a least element, and a greatest *)
(* one if it is bounded.                                                   *)
LEMMA LeastElement ==
  ASSUME NEW T \in SUBSET Nat, T # {}
  PROVE  \E x \in T : \A y \in T : x <= y
<1>1. \E x \in T : \A y \in T : <<y, x>> \notin OpToRel(<, Nat)
  BY WFMin, NatLessThanWellFounded, Zenon
<1>2. \E x \in T : \A y \in T : ~(y < x)
  BY <1>1, Zenon DEF OpToRel
<1> QED BY <1>2

LEMMA GreatestElement ==
  ASSUME NEW S \in SUBSET Nat, S # {}, NEW n \in Nat, \A j \in S : j <= n
  PROVE  \E k \in S : \A j \in S : j <= k
<1> DEFINE T == {n - j : j \in S}
<1>1. T \in SUBSET Nat /\ T # {}
  <2>1. PICK j \in S : TRUE
    OBVIOUS
  <2>2. n - j \in T
    BY <2>1
  <2>3. \A i \in S : n - i \in Nat
    OBVIOUS
  <2> QED BY <2>2, <2>3
<1> HIDE DEF T
<1>2. PICK k \in T : \A j \in T : k <= j
  BY <1>1, LeastElement
<1>3. PICK m \in S : k = n - m
  BY DEF T
<1>4. \A j \in S : n - j \in T
  BY DEF T
<1> QED BY <1>2, <1>3, <1>4

-----------------------------------------------------------------------------
(* The report without an issue.                                            *)

(* Two declarations that cover a path are the same if they are as long.    *)
LEMMA CoversFacts ==
  ASSUME NEW d \in Seq(STRING), NEW e \in Seq(STRING), NEW p \in Seq(STRING),
         Covers(d, p), Covers(e, p)
  PROVE  /\ Len(d) <= Len(p)
         /\ Len(d) = Len(e) => d = e
BY DEF Covers, IsPrefix

(* The role of a path is that of its most specific declaration; without one*)
(* it may be inherited from a whole dimension that the path aliases.       *)
LEMMA RoleFacts ==
  ASSUME NEW plan, ValidPlan(plan), NEW p \in Seq(STRING)
  PROVE  LET role == RoleForPath(plan, p)
             direct == {d \in Declared(plan) : Covers(d.by, p)} IN
         /\ role.direct => /\ role.role \in Roles /\ role.by \in plan[role.role]
                           /\ Covers(role.by, p)
                           /\ \A d \in direct : Len(d.by) <= Len(role.by)
         /\ role.direct \in BOOLEAN
         /\ ~role.direct /\ role # Ungoverned =>
              /\ direct = {}
              /\ role.role \in Roles /\ role.by \in plan[role.role]
              /\ \E name \in {"model", "runtime", "scenario"} :
                   role.by = <<name>> /\ Aliases(p, name)
<1> DEFINE direct == {d \in Declared(plan) : Covers(d.by, p)}
           role   == RoleForPath(plan, p)
<1>1. Declared(plan) = UNION {{[by |-> d, role |-> r] : d \in plan[r]} : r \in Roles}
  BY DEF Declared, ValidPlan
<1>2. \A d \in Declared(plan) : /\ d.role \in Roles /\ d.by \in plan[d.role]
                                /\ d.by \in Seq(STRING) \ {<<>>}
  BY <1>1 DEF ValidPlan
<1>3. CASE direct # {}
  <2> DEFINE S == {Len(d.by) : d \in direct}
             n == Len(p)
  <2>1. \A d \in direct : Len(d.by) \in Nat /\ Len(d.by) <= Len(p)
    BY <1>2, CoversFacts
  <2>2. \E k \in S : \A j \in S : j <= k
    <3>1. S \in SUBSET Nat /\ S # {}
      BY <1>3, <2>1
    <3>2. n \in Nat /\ \A j \in S : j <= n
      BY <2>1
    <3> HIDE DEF S, n
    <3> QED BY <3>1, <3>2, GreatestElement
  <2>3. \E d \in direct : \A e \in direct : Len(e.by) <= Len(d.by)
    BY <2>2
  <2> DEFINE d == CHOOSE d \in direct : \A e \in direct : Len(e.by) <= Len(d.by)
  <2>4. d \in direct /\ \A e \in direct : Len(e.by) <= Len(d.by)
    <3> HIDE DEF direct
    <3> QED BY <2>3
  <2>5. role = [role |-> d.role, by |-> d.by, direct |-> TRUE]
    BY <1>3 DEF RoleForPath
  <2> HIDE DEF d, role
  <2> QED BY <1>2, <2>4, <2>5 DEF role
<1>4. CASE direct = {} /\ Inherited(plan, p) # {}
  <2> DEFINE d == CHOOSE d \in Inherited(plan, p) : TRUE
  <2>1. d \in Inherited(plan, p)
    BY <1>4
  <2>2. role = [role |-> d.role, by |-> d.by, direct |-> FALSE]
    BY <1>4 DEF RoleForPath
  <2>3. /\ d.role \in Roles /\ d.by \in plan[d.role]
        /\ \E name \in {"model", "runtime", "scenario"} : d.by = <<name>> /\ Aliases(p, name)
    <3> HIDE DEF d
    <3> QED BY <1>2, <2>1 DEF Inherited
  <2> HIDE DEF d, role, direct
  <2> QED BY <1>4, <2>2, <2>3 DEF role, direct
<1>5. CASE direct = {} /\ Inherited(plan, p) = {}
  <2>1. role = Ungoverned
    BY <1>5 DEF RoleForPath
  <2> QED BY <2>1 DEF Ungoverned
<1> QED BY <1>3, <1>4, <1>5

(* What a report without an issue says of a plan and two records.          *)
LEMMA CompatibleMeansAlike ==
  ASSUME NEW plan, ValidPlan(plan), NEW left, NEW right,
         DOMAIN left.leaves \subseteq Seq(STRING) \ {<<>>},
         DOMAIN right.leaves \subseteq Seq(STRING) \ {<<>>},
         CompareRuns(left, right, plan).compatible
  PROVE  Alike(left, right, plan)
<1>1. /\ DeclaredIssues(left, right, plan) = {} /\ LeafIssues(left, right, plan) = {}
      /\ ~Ambiguous(left, right) /\ IncompatibleMetrics(left, right) = {}
  BY DEF CompareRuns
<1>2. \A r \in Roles : \A d \in plan[r] : [by |-> d, role |-> r] \in Declared(plan)
  BY DEF Declared, ValidPlan
<1>3. \A d \in plan.control \cup plan.block : Dimension(left, d) = Dimension(right, d)
  <2> SUFFICES ASSUME NEW r \in {"control", "block"}, NEW d \in plan[r]
               PROVE  Dimension(left, d) = Dimension(right, d)
    OBVIOUS
  <2> DEFINE it == [by |-> d, role |-> r]
  <2>1. it \in Declared(plan) /\ it.by = d /\ it.role = r
    BY <1>2 DEF Roles
  <2> HIDE DEF it
  <2>2. DeclaredIssue(left, right, it) = {}
    BY <1>1, <2>1 DEF DeclaredIssues
  <2> QED BY <2>1, <2>2 DEF DeclaredIssue
<1>4. ASSUME NEW p \in DOMAIN left.leaves \cup DOMAIN right.leaves, Relevant(p),
             p \in Differences(left, right)
      PROVE  \/ VariedOrWaived(plan, p)
             \/ BothHave(left, right, p) /\ Downstream(plan, p)
  <2> DEFINE role == RoleForPath(plan, p)
             direct == {d \in Declared(plan) : Covers(d.by, p)}
  <2>1. p \in Seq(STRING) /\ LeafIssue(left, right, plan, p) = {}
    BY <1>1, <1>4 DEF LeafIssues
  <2>2. role # Ungoverned /\ (role.direct \/ (BothHave(left, right, p) /\ role.role = "vary"))
    BY <2>1 DEF LeafIssue
  <2>3. /\ role.direct => /\ role.role \in Roles /\ role.by \in plan[role.role]
                          /\ Covers(role.by, p)
                          /\ \A d \in direct : Len(d.by) <= Len(role.by)
        /\ role.direct \in BOOLEAN
        /\ ~role.direct /\ role # Ungoverned =>
             /\ direct = {}
             /\ role.role \in Roles /\ role.by \in plan[role.role]
             /\ \E name \in {"model", "runtime", "scenario"} :
                  role.by = <<name>> /\ Aliases(p, name)
    BY <2>1, RoleFacts
  <2> HIDE DEF role
  <2>4. CASE role.direct /\ role.role \in {"vary", "waiver"}
    <3>1. role.by \in plan.vary \cup plan.waiver /\ Covers(role.by, p)
      BY <2>3, <2>4
    <3>2. ASSUME NEW r \in {"control", "block"}, NEW e \in plan[r], Covers(e, p)
          PROVE  Len(e) < Len(role.by)
      <4> DEFINE it == [by |-> e, role |-> r]
      <4>1. it \in direct /\ it.by = e
        BY <1>2, <3>2 DEF Roles
      <4>2. Len(e) <= Len(role.by)
        BY <2>3, <2>4, <4>1
      <4>3. e \in Seq(STRING) /\ role.by \in Seq(STRING)
        BY <2>3, <2>4, <3>2 DEF ValidPlan, Roles
      <4>4. ~Covers(e, role.by)
        BY <2>3, <2>4, <3>2 DEF ValidPlan, Roles
      <4>5. e # role.by
        BY <4>3, <4>4 DEF Covers, IsPrefix
      <4> QED BY <2>1, <2>3, <2>4, <3>2, <4>2, <4>3, <4>5, CoversFacts
    <3> QED BY <3>1, <3>2 DEF VariedOrWaived
  <2>5. CASE role.direct /\ role.role \notin {"vary", "waiver"}
    <3>1. role.by \in plan.control \cup plan.block /\ Covers(role.by, p)
      BY <2>3, <2>5 DEF Roles
    <3>2. Dimension(left, role.by) = Dimension(right, role.by)
      BY <1>3, <3>1
    <3>3. BothHave(left, right, p) /\ left.leaves[p] = right.leaves[p]
      BY <3>1, <3>2 DEF Dimension, Restrict, BothHave
    <3> QED BY <1>1, <1>4, <3>3 DEF Differences
  <2>6. CASE ~role.direct
    <3>1. direct = {} /\ BothHave(left, right, p) /\ role.role = "vary"
      BY <2>2, <2>3, <2>6
    <3>2. role.by \in plan.vary
      BY <2>2, <2>3, <2>6
    <3>3. PICK name \in {"model", "runtime", "scenario"} : role.by = <<name>> /\ Aliases(p, name)
      BY <2>2, <2>3, <2>6
    <3> QED BY <3>1, <3>2, <3>3 DEF Downstream
  <2> QED BY <2>3, <2>4, <2>5, <2>6
<1>5. \A p \in DOMAIN left.leaves \cup DOMAIN right.leaves : Relevant(p) =>
        IF BothHave(left, right, p)
          THEN \/ left.leaves[p] = right.leaves[p]
               \/ VariedOrWaived(plan, p) \/ Downstream(plan, p)
        ELSE VariedOrWaived(plan, p)
  BY <1>1, <1>4 DEF Differences
<1>6. \A n \in DOMAIN left.metrics \cap DOMAIN right.metrics : left.metrics[n] = right.metrics[n]
  BY <1>1 DEF IncompatibleMetrics
<1> QED BY <1>3, <1>5, <1>6 DEF Alike

(* A decision is only taken after every way out.                           *)
LEMMA VerdictFacts ==
  ASSUME NEW e, Verdict(e) \in Decided
  PROVE  /\ Complete(e) /\ ~e.interrupted /\ ~e.gaps /\ Report(e).compatible
         /\ Judgement(e, Analyses(e)) = "VERIFIED"
         /\ \A name \in DOMAIN Analyses(e) : Analyses(e)[name].status = "completed"
<1>1. Judgement(e, Analyses(e)) = "VERIFIED"
  BY DEF Verdict, Judgement, Decided
<1> QED BY <1>1 DEF Judgement

LEMMA AlikeIfDecided == Shape => FailClosed
<1> SUFFICES ASSUME Shape, pc = "row", Verdict(pair) \in Decided
             PROVE  /\ Complete(pair) /\ ~pair.interrupted /\ ~pair.gaps
                    /\ Alike(pair.left, pair.right, recipe.plan)
  BY DEF FailClosed
<1>1. ValidPlan(recipe.plan) /\ ValidRecord(pair.left) /\ ValidRecord(pair.right)
  BY TrialsAssumption DEF Shape
<1> QED BY <1>1, VerdictFacts, CompatibleMeansAlike DEF Report, ValidRecord

-----------------------------------------------------------------------------
(* The analyses and the evidence.                                          *)

(* Where two answers diverge: after their longest common prefix.           *)
LEMMA DivergenceFacts ==
  ASSUME NEW s \in Seq(Int), NEW t \in Seq(Int)
  PROVE  LET first == FirstDivergence(s, t)
             k == IF first = Matches THEN Len(s) ELSE first IN
         /\ first = Matches <=> s = t
         /\ k \in 0..Shorter(s, t)
         /\ \A i \in 1..k : s[i] = t[i]
         /\ k < Shorter(s, t) => s[k + 1] # t[k + 1]
<1> DEFINE differ == {i \in 1..Shorter(s, t) : s[i] # t[i]}
           first == FirstDivergence(s, t)
<1>1. Shorter(s, t) \in Nat /\ Shorter(s, t) <= Len(s) /\ Shorter(s, t) <= Len(t)
      /\ (Len(s) = Len(t) => Shorter(s, t) = Len(s))
  BY DEF Shorter
<1>2. CASE differ # {}
  <2> DEFINE m == Min(differ)
  <2>1. m \in differ /\ \A i \in differ : m <= i
    <3>1. differ \in SUBSET Nat
      BY <1>1
    <3> HIDE DEF differ
    <3>2. \E i \in differ : \A j \in differ : i <= j
      BY <1>2, <3>1, LeastElement
    <3> QED BY <3>2 DEF Min
  <2>2. first = m - 1
    BY <1>2 DEF FirstDivergence
  <2> HIDE DEF m, first
  <2>3. m \in 1..Shorter(s, t) /\ s[m] # t[m] /\ \A i \in 1..Shorter(s, t) : i < m => s[i] = t[i]
    BY <1>1, <2>1
  <2> QED BY <1>1, <2>2, <2>3 DEF Matches, first
<1>3. CASE differ = {}
  <2>1. first = IF Len(s) = Len(t) THEN Matches ELSE Shorter(s, t)
    BY <1>3 DEF FirstDivergence
  <2>2. \A i \in 1..Shorter(s, t) : s[i] = t[i]
    BY <1>3
  <2> HIDE DEF first, differ
  <2>3. Len(s) = Len(t) => s = t
    BY <1>1, <2>2
  <2> QED BY <1>1, <2>1, <2>2, <2>3 DEF Matches, first
<1> QED BY <1>2, <1>3

(* What a comparison row says of two answers.                              *)
LEMMA PrefixFacts ==
  ASSUME NEW s \in Seq(Int), NEW t \in Seq(Int)
  PROVE  /\ ComparisonRow(s, t).prefix = CommonPrefix(s, t)
         /\ ComparisonRow(s, t).steps = Longer(s, t)
         /\ ComparisonRow(s, t).matched \in BOOLEAN
         /\ ComparisonRow(s, t).matched <=> s = t
         /\ ComparisonRow(s, t).complete \in BOOLEAN
         /\ ComparisonRow(s, t).complete <=> <<>> \notin {s, t}
<1> DEFINE first == FirstDivergence(s, t)
           k == IF first = Matches THEN Len(s) ELSE first
           P(n) == /\ \A i \in 1..n : s[i] = t[i]
                   /\ n < Shorter(s, t) => s[n + 1] # t[n + 1]
<1>1. ComparisonRow(s, t) =
        [first |-> first, matched |-> first = Matches, prefix |-> k,
         steps |-> Longer(s, t), complete |-> s # <<>> /\ t # <<>>]
  BY DEF ComparisonRow
<1>2. (first = Matches <=> s = t) /\ k \in 0..Shorter(s, t) /\ P(k)
  BY DivergenceFacts
<1> HIDE DEF first, k
<1>3. Shorter(s, t) \in Nat
  BY DEF Shorter
<1>4. \A n \in 0..Shorter(s, t) : P(n) => n = k
  BY <1>2, <1>3
<1>5. CommonPrefix(s, t) = CHOOSE n \in 0..Shorter(s, t) : P(n)
  BY DEF CommonPrefix
<1>6. CommonPrefix(s, t) = k
  <2> HIDE DEF P
  <2> QED BY <1>2, <1>4, <1>5
<1> HIDE DEF P
<1>7. /\ ComparisonRow(s, t).prefix = k /\ ComparisonRow(s, t).steps = Longer(s, t)
      /\ ComparisonRow(s, t).matched = (first = Matches)
      /\ ComparisonRow(s, t).complete = (s # <<>> /\ t # <<>>)
  BY <1>1
<1> QED BY <1>2, <1>6, <1>7

(* The behavioural analysis computes what the evidence says ...            *)
LEMMA TrajectoryEvidence ==
  ASSUME NEW e, ValidRecord(e.left), ValidRecord(e.right),
         TrajectoryAnalysis(e).status = "completed"
  PROVE  \A target \in {"agreement", "divergence", "all_match"} :
           TrajectoryAnalysis(e).values[target] = Evidence(target, e.left, e.right)
<1> DEFINE l == e.left.capture
           r == e.right.capture
           ids == DOMAIN l
           table == ComparisonRows(l, r)
           c == CompareTrajectories(l, r)
<1>1. /\ l \in [ids -> Seq(Int)] /\ r \in [DOMAIN r -> Seq(Int)] /\ DOMAIN r = ids
      /\ TrajectoryAnalysis(e).values =
           [agreement |-> {c.agreement}, all_match |-> {c.all_match},
            divergence |-> IF c.divergence.complete THEN {c.divergence.rate} ELSE {}]
  BY DEF TrajectoryAnalysis, ValidRecord, Scorable
<1>2. /\ table = [p \in ids |-> ComparisonRow(l[p], r[p])]
      /\ \A p \in ids : l[p] \in Seq(Int) /\ r[p] \in Seq(Int)
  BY <1>1 DEF ComparisonRows
<1> HIDE DEF l, r, table
<1>3. /\ DOMAIN table = ids
      /\ \A p \in ids : /\ table[p].prefix = CommonPrefix(l[p], r[p])
                        /\ table[p].steps = Longer(l[p], r[p])
                        /\ table[p].matched \in BOOLEAN /\ table[p].complete \in BOOLEAN
                        /\ table[p].matched <=> l[p] = r[p]
                        /\ table[p].complete <=> <<>> \notin {l[p], r[p]}
  BY <1>2, PrefixFacts
<1>4. c.agreement = Fraction(SumFunction([i \in ids |-> CommonPrefix(l[i], r[i])]),
                             SumFunction([i \in ids |-> Longer(l[i], r[i])]))
  <2>1. c.agreement = Fraction(SumFunction([p \in DOMAIN table |-> table[p].prefix]),
                               SumFunction([p \in DOMAIN table |-> table[p].steps]))
    BY DEF CompareTrajectories, table
  <2>2. [p \in DOMAIN table |-> table[p].prefix] = [i \in ids |-> CommonPrefix(l[i], r[i])]
    BY <1>3
  <2>3. [p \in DOMAIN table |-> table[p].steps] = [i \in ids |-> Longer(l[i], r[i])]
    BY <1>3
  <2> QED BY <2>1, <2>2, <2>3
<1>5. c.all_match = (l = r)
  <2>1. c.all_match = ({p \in DOMAIN table : table[p].matched} = DOMAIN table)
    BY DEF CompareTrajectories, table
  <2>2. ({p \in DOMAIN table : table[p].matched} = DOMAIN table) <=> \A p \in ids : l[p] = r[p]
    BY <1>3
  <2>3. (\A p \in ids : l[p] = r[p]) <=> l = r
    BY <1>1 DEF l, r
  <2> QED BY <2>1, <2>2, <2>3
<1>6. (IF c.divergence.complete THEN {c.divergence.rate} ELSE {}) =
        When(\A i \in ids : <<>> \notin {l[i], r[i]},
             Fraction(Cardinality({i \in ids : l[i] # r[i]}), Cardinality(ids)))
  <2> DEFINE complete == {p \in DOMAIN table : table[p].complete}
             diverged == {p \in complete : ~table[p].matched}
  <2>1. /\ c.divergence.complete = (complete = DOMAIN table)
        /\ c.divergence.rate = Fraction(Cardinality(diverged), Cardinality(complete))
    BY DEF CompareTrajectories, SummarizeDivergence, table
  <2>2. (complete = ids) <=> \A i \in ids : <<>> \notin {l[i], r[i]}
    BY <1>3
  <2>3. complete = ids => diverged = {i \in ids : l[i] # r[i]}
    BY <1>3
  <2> HIDE DEF complete, diverged, c
  <2> QED BY <1>3, <2>1, <2>2, <2>3 DEF When
<1> HIDE DEF c
<1>7. Evidence("agreement", e.left, e.right) =
        {Fraction(SumFunction([i \in ids |-> CommonPrefix(l[i], r[i])]),
                  SumFunction([i \in ids |-> Longer(l[i], r[i])]))}
  BY DEF Evidence, l, r
<1>8. Evidence("divergence", e.left, e.right) =
        When(\A i \in ids : <<>> \notin {l[i], r[i]},
             Fraction(Cardinality({i \in ids : l[i] # r[i]}), Cardinality(ids)))
  BY DEF Evidence, l, r
<1>9. Evidence("all_match", e.left, e.right) = {l = r}
  BY DEF Evidence, l, r
<1>10. TrajectoryAnalysis(e).values["agreement"] = {c.agreement}
  BY <1>1
<1>11. TrajectoryAnalysis(e).values["all_match"] = {c.all_match}
  BY <1>1
<1>12. TrajectoryAnalysis(e).values["divergence"]
         = IF c.divergence.complete THEN {c.divergence.rate} ELSE {}
  BY <1>1
<1>13. TrajectoryAnalysis(e).values["agreement"] = Evidence("agreement", e.left, e.right)
  BY <1>4, <1>7, <1>10
<1>14. TrajectoryAnalysis(e).values["all_match"] = Evidence("all_match", e.left, e.right)
  BY <1>5, <1>9, <1>11
<1>15. TrajectoryAnalysis(e).values["divergence"] = Evidence("divergence", e.left, e.right)
  BY <1>6, <1>8, <1>12
<1> QED BY <1>13, <1>14, <1>15

(* ... and so do the task checks, the latency, and the repeatability, which*)
(* is counted over ordered triples there and over pairs of ids here.       *)
LEMMA ChecksEvidence ==
  ASSUME NEW l, NEW r, l.checks \in Seq(BOOLEAN), r.checks \in Seq(BOOLEAN)
  PROVE  /\ CompareTaskChecks(l, r).candidate = Evidence("pass_rate", l, r)
         /\ CompareTaskChecks(l, r).delta = Evidence("pass_delta", l, r)
<1> DEFINE passed(record) == Cardinality({k \in 1..Len(record.checks) : record.checks[k]})
           graded == l.checks # <<>> /\ Len(l.checks) = Len(r.checks)
<1>1. Passed(l) = passed(l) /\ Passed(r) = passed(r)
  <2>1. DOMAIN l.checks = 1..Len(l.checks) /\ DOMAIN r.checks = 1..Len(r.checks)
    OBVIOUS
  <2> QED BY <2>1 DEF Passed
<1>2. QualityKnown(l, r) <=> graded
  BY DEF QualityKnown
<1>3. Evidence("pass_rate", l, r) = When(graded, Fraction(passed(r), Len(r.checks)))
  BY DEF Evidence
<1>4. Evidence("pass_delta", l, r) = When(graded, Fraction(passed(r) - passed(l), Len(r.checks)))
  BY DEF Evidence
<1> HIDE DEF passed
<1>5. CASE graded
  <2>1. CompareTaskChecks(l, r) =
          [candidate |-> Rate(passed(r), Len(r.checks)),
           delta |-> Rate(passed(r) - passed(l), Len(r.checks))]
    BY <1>1, <1>2, <1>5 DEF CompareTaskChecks, PassRate
  <2> QED BY <1>3, <1>4, <1>5, <2>1 DEF When, Rate, Fraction
<1>6. CASE ~graded
  BY <1>2, <1>3, <1>4, <1>6 DEF CompareTaskChecks, When, Unavailable
<1> QED BY <1>5, <1>6

LEMMA LatencyEvidence ==
  ASSUME NEW l, NEW r, l.status = "completed", r.status = "completed",
         l.clocks \in Seq(Nat), r.clocks \in Seq(Nat)
  PROVE  LatencyRatio(CompareLatency(l, r, TRUE)) = Evidence("latency_ratio", l, r)
<1> DEFINE a == [n |-> SumFunction(l.clocks), d |-> Len(l.clocks)]
           b == [n |-> SumFunction(r.clocks), d |-> Len(r.clocks)]
           timed == l.method = r.method /\ l.clocks # <<>> /\ r.clocks # <<>>
           ratio == [n |-> b.n * a.d, d |-> b.d * a.n]
           m == [reference |-> a, candidate |-> b]
<1>1. Evidence("latency_ratio", l, r) = When(timed /\ SumFunction(l.clocks) > 0,
        Fraction(SumFunction(r.clocks) * Len(l.clocks), Len(r.clocks) * SumFunction(l.clocks)))
  BY DEF Evidence
<1>2. Evidence("latency_ratio", l, r) = IF timed /\ a.n > 0 THEN {ratio} ELSE {}
  BY <1>1 DEF When, Fraction
<1>3. CompareLatency(l, r, TRUE) = IF timed THEN {m} ELSE {}
  <2>1. /\ MeasureLatency(l) = IF l.clocks = <<>> THEN {} ELSE {a}
        /\ MeasureLatency(r) = IF r.clocks = <<>> THEN {} ELSE {b}
    BY DEF MeasureLatency, Unavailable, Rate
  <2> HIDE DEF a, b
  <2>2. CASE timed
    <3>1. MeasureLatency(l) = {a} /\ MeasureLatency(r) = {b}
      BY <2>1, <2>2
    <3>2. \A z : z \in CompareLatency(l, r, TRUE) <=> z = m
      BY <2>2, <3>1 DEF CompareLatency, Unavailable
    <3>3. CompareLatency(l, r, TRUE) = {m}
      <4> HIDE DEF m
      <4> QED BY <3>2
    <3> HIDE DEF m, timed
    <3> QED BY <2>2, <3>3
  <2>3. CASE ~timed
    BY <2>1, <2>3 DEF CompareLatency, Unavailable
  <2> QED BY <2>2, <2>3
<1>4. LatencyRatio({m}) = IF a.n > 0 THEN {ratio} ELSE {}
  <2> HIDE DEF a, b
  <2>1. m.reference = a /\ m.candidate = b
    OBVIOUS
  <2> HIDE DEF m
  <2>2. CASE a.n > 0
    <3>1. {x \in {m} : x.reference.n > 0} = {m}
      BY <2>1, <2>2
    <3> QED BY <2>1, <2>2, <3>1 DEF LatencyRatio, Rate
  <2>3. CASE ~(a.n > 0)
    <3>1. {x \in {m} : x.reference.n > 0} = {}
      BY <2>1, <2>3
    <3> QED BY <2>3, <3>1 DEF LatencyRatio
  <2> QED BY <2>2, <2>3
<1>5. LatencyRatio({}) = {}
  BY DEF LatencyRatio
<1> HIDE DEF a, b, m, ratio
<1> QED BY <1>2, <1>3, <1>4, <1>5

LEMMA RepeatEvidence ==
  ASSUME NEW l, ValidRecord(l), l.status = "completed", NEW r
  PROVE  ReferenceVariability(l) = Evidence("repeatability", l, r)
<1> DEFINE ids == DOMAIN l.capture
           T == Trials(l)
           P == Prompts(l)
           R == RepeatPairs(l)
           same == {t \in R : l.capture[<<t[1], t[3]>>] = l.capture[<<t[2], t[3]>>]}
           again == {p \in ids \X ids : p[1][1] < p[2][1] /\ p[1][2] = p[2][2]}
           equal == {p \in again : l.capture[p[1]] = l.capture[p[2]]}
           f == [t \in R |-> <<<<t[1], t[3]>>, <<t[2], t[3]>>>>]
           g == [t \in same |-> <<<<t[1], t[3]>>, <<t[2], t[3]>>>>]
<1>1. IsFiniteSet(ids) /\ ids = T \X P /\ T \in SUBSET Nat
  BY DEF ValidRecord
<1>2. R = {t \in T \X T \X P : t[1] < t[2]}
  BY DEF RepeatPairs
<1>3. /\ ReferenceVariability(l) = IF Cardinality(T) < 2 THEN Unavailable
                                   ELSE Rate(Cardinality(same), Cardinality(R))
      /\ Evidence("repeatability", l, r) =
           When(Cardinality(again) > 0, [n |-> Cardinality(equal), d |-> Cardinality(again)])
  BY DEF ReferenceVariability, Evidence, SameAnswers
<1> HIDE DEF ids, T, P, R
<1>4. f \in Bijection(R, again)
  <2>1. \A t \in R : t[1] \in T /\ t[2] \in T /\ t[3] \in P /\ t[1] < t[2] /\ t = <<t[1], t[2], t[3]>>
    BY <1>2
  <2>2. \A t \in R : f[t] \in again
    BY <1>1, <2>1
  <2>3. \A t, u \in R : f[t] = f[u] => t = u
    BY <2>1
  <2>4. \A p \in again : \E t \in R : f[t] = p
    <3> SUFFICES ASSUME NEW p \in again PROVE \E t \in R : f[t] = p
      OBVIOUS
    <3> DEFINE t == <<p[1][1], p[2][1], p[1][2]>>
    <3>1. t \in R
      BY <1>1, <1>2
    <3>2. f[t] = p
      BY <1>1, <3>1
    <3> QED BY <3>1, <3>2
  <2> QED BY <2>2, <2>3, <2>4 DEF Bijection, Injection, Surjection, IsInjective
<1>5. g \in Bijection(same, equal)
  <2>1. same \in SUBSET R /\ \A t \in same : g[t] = f[t]
    OBVIOUS
  <2>2. \A t \in R : t \in same <=> f[t] \in equal
    BY <1>4 DEF Bijection, Surjection
  <2>3. /\ \A t \in R : f[t] \in again
        /\ \A t, u \in R : f[t] = f[u] => t = u
        /\ \A p \in again : \E t \in R : f[t] = p
    BY <1>4 DEF Bijection, Injection, Surjection, IsInjective
  <2> HIDE DEF f
  <2>4. /\ g \in [same -> equal]
        /\ \A t, u \in same : g[t] = g[u] => t = u
        /\ \A p \in equal : \E t \in same : g[t] = p
    <3>1. \A t \in same : g[t] \in equal
      BY <2>1, <2>2
    <3>2. \A t, u \in same : g[t] = g[u] => t = u
      BY <2>1, <2>3
    <3>3. \A p \in equal : \E t \in same : g[t] = p
      <4> SUFFICES ASSUME NEW p \in equal PROVE \E t \in same : g[t] = p
        OBVIOUS
      <4>1. PICK t \in R : f[t] = p
        BY <2>3
      <4> QED BY <2>1, <2>2, <4>1
    <3> HIDE DEF same, equal
    <3> QED BY <3>1, <3>2, <3>3
  <2> QED BY <2>4 DEF Bijection, Injection, Surjection, IsInjective
<1>6. /\ IsFiniteSet(R) /\ IsFiniteSet(same) /\ IsFiniteSet(again)
      /\ Cardinality(again) = Cardinality(R) /\ Cardinality(equal) = Cardinality(same)
  <2>1. IsFiniteSet(ids \X ids)
    BY <1>1, FS_Product
  <2>2. IsFiniteSet(again)
    BY <2>1, FS_Subset
  <2>3. IsFiniteSet(equal)
    BY <2>2, FS_Subset
  <2> HIDE DEF again, equal, same
  <2>4. ExistsBijection(again, R) /\ ExistsBijection(equal, same)
    BY <1>4, <1>5, Fun_ExistsBijSymmetric DEF ExistsBijection
  <2> QED BY <2>2, <2>3, <2>4, FS_Bijection
<1>7. Cardinality(T) < 2 <=> ~(Cardinality(again) > 0)
  <2>1. IsFiniteSet(T)
    <3> DEFINE h == [id \in ids |-> id[1]]
    <3>1. h \in Surjection(ids, T)
      BY DEF Surjection, ids, T, Trials
    <3> QED BY <1>1, <3>1, FS_Surjection
  <2>2. Cardinality(T) \in Nat /\ Cardinality(again) \in Nat
        /\ (Cardinality(again) = 0 <=> again = {})
    BY <1>6, <2>1, FS_CardinalityType, FS_EmptySet
  <2>3. CASE Cardinality(T) < 2
    <3>1. T = {} \/ \E x : T = {x}
      BY <2>1, <2>2, <2>3, FS_EmptySet, FS_Singleton
    <3>2. again = {}
      <4> SUFFICES ASSUME NEW p \in again PROVE FALSE
        OBVIOUS
      <4>1. p[1][1] \in T /\ p[2][1] \in T /\ p[1][1] < p[2][1]
        BY <1>1
      <4>2. PICK x : T = {x}
        BY <3>1, <4>1
      <4>3. p[1][1] = p[2][1] /\ p[1][1] \in Nat
        BY <1>1, <4>1, <4>2
      <4> QED BY <4>1, <4>3
    <3> QED BY <2>2, <2>3, <3>2
  <2>4. CASE ~(Cardinality(T) < 2)
    <3>1. T # {} /\ \A x : T # {x}
      <4>1. Cardinality(T) # 0 /\ Cardinality(T) # 1
        BY <2>2, <2>4
      <4> QED BY <2>1, <4>1, FS_EmptySet, FS_Singleton, Zenon
    <3>2. PICK x \in T, y \in T : x < y
      <4>1. PICK x \in T, y \in T : x # y
        BY <3>1
      <4> QED BY <1>1, <4>1
    <3>3. PICK p : p \in P
      BY <1>1, <3>1 DEF ids, T, P, Trials, Prompts
    <3>4. <<<<x, p>>, <<y, p>>>> \in again
      BY <1>1, <3>2, <3>3
    <3> QED BY <2>2, <2>4, <3>4
  <2> QED BY <2>3, <2>4
<1> HIDE DEF again, equal, same
<1> QED BY <1>3, <1>6, <1>7 DEF Unavailable, When, Rate

(* The values of completed analyses are the evidence, target by target.    *)
LEMMA AnalysesEvidence ==
  ASSUME NEW e, ValidRecord(e.left), ValidRecord(e.right), Complete(e),
         TrajectoryAnalysis(e).status = "completed", ImpactAnalysis(e).status = "completed",
         NEW target \in DOMAIN Targets, Targets[target].kind # "status"
  PROVE  Analyses(e)[Targets[target].analysis].values[target]
           = Evidence(target, e.left, e.right)
<1>1. Analyses(e)["trajectory"] = TrajectoryAnalysis(e)
      /\ Analyses(e)["impact"] = ImpactAnalysis(e)
  BY DEF Analyses
<1>2. target \in {"agreement", "divergence", "all_match", "status", "pass_rate", "pass_delta",
                  "repeatability", "latency_ratio"}
  BY DEF Targets, Number, Exact
<1>3. CASE target \in {"agreement", "divergence", "all_match"}
  <2>1. Targets[target].analysis = "trajectory"
    BY <1>3 DEF Targets, Number, Exact
  <2> QED BY <1>1, <1>3, <2>1, TrajectoryEvidence
<1>4. CASE target \in {"pass_rate", "pass_delta", "repeatability", "latency_ratio"}
  <2>1. Targets[target].analysis = "impact"
    BY <1>4 DEF Targets, Number, Exact
  <2> DEFINE l == e.left
             r == e.right
  <2>2. ImpactAnalysis(e).values =
          [pass_rate |-> CompareTaskChecks(l, r).candidate,
           pass_delta |-> CompareTaskChecks(l, r).delta,
           repeatability |-> ReferenceVariability(l),
           latency_ratio |-> LatencyRatio(CompareLatency(l, r, TRUE))]
    BY DEF ImpactAnalysis
  <2>3. /\ l.status = "completed" /\ r.status = "completed"
        /\ l.checks \in Seq(BOOLEAN) /\ r.checks \in Seq(BOOLEAN)
        /\ l.clocks \in Seq(Nat) /\ r.clocks \in Seq(Nat)
    BY DEF Complete, ValidRecord
  <2>4. /\ CompareTaskChecks(l, r).candidate = Evidence("pass_rate", l, r)
        /\ CompareTaskChecks(l, r).delta = Evidence("pass_delta", l, r)
        /\ LatencyRatio(CompareLatency(l, r, TRUE)) = Evidence("latency_ratio", l, r)
        /\ ReferenceVariability(l) = Evidence("repeatability", l, r)
    BY <2>3, ChecksEvidence, LatencyEvidence, RepeatEvidence
  <2>5. ImpactAnalysis(e).values[target] = Evidence(target, l, r)
    <3>1. /\ ImpactAnalysis(e).values["pass_rate"] = Evidence("pass_rate", l, r)
          /\ ImpactAnalysis(e).values["pass_delta"] = Evidence("pass_delta", l, r)
          /\ ImpactAnalysis(e).values["repeatability"] = Evidence("repeatability", l, r)
          /\ ImpactAnalysis(e).values["latency_ratio"] = Evidence("latency_ratio", l, r)
      <4> DEFINE a == CompareTaskChecks(l, r).candidate
                 b == CompareTaskChecks(l, r).delta
                 c == ReferenceVariability(l)
                 d == LatencyRatio(CompareLatency(l, r, TRUE))
      <4>1. ImpactAnalysis(e).values =
              [pass_rate |-> a, pass_delta |-> b, repeatability |-> c, latency_ratio |-> d]
        BY <2>2
      <4>2. /\ a = Evidence("pass_rate", l, r) /\ b = Evidence("pass_delta", l, r)
            /\ c = Evidence("repeatability", l, r) /\ d = Evidence("latency_ratio", l, r)
        BY <2>4
      <4> HIDE DEF a, b, c, d, l, r
      <4> QED BY <4>1, <4>2
    <3> HIDE DEF l, r
    <3> QED BY <1>4, <3>1
  <2> QED BY <1>1, <2>1, <2>5
<1>5. CASE target = "status"
  BY <1>5 DEF Targets, Number, Exact
<1> QED BY <1>2, <1>3, <1>4, <1>5

(* What a criterion observes is the one value the evidence supports.       *)
LEMMA ObservedEvidence ==
  ASSUME NEW e, ValidRecord(e.left), ValidRecord(e.right), Complete(e),
         TrajectoryAnalysis(e).status = "completed", ImpactAnalysis(e).status = "completed",
         NEW target \in DOMAIN Targets, Observe(target, Analyses(e)).known
  PROVE  Evidence(target, e.left, e.right) = {Observe(target, Analyses(e)).value}
<1> DEFINE name == Targets[target].analysis
           found == Analyses(e)[name].values[target]
<1>1. /\ name \in DOMAIN Analyses(e) /\ Analyses(e)[name].status = "completed"
      /\ target = "status" <=> Targets[target].kind = "status"
  BY DEF Analyses, Targets, Number, Exact
<1>2. CASE target = "status"
  <2>1. Observe(target, Analyses(e)) = Value("completed")
    BY <1>1, <1>2 DEF Observe
  <2>2. Evidence(target, e.left, e.right) = {"completed"}
    BY <1>2 DEF Evidence
  <2> QED BY <2>1, <2>2 DEF Value
<1>3. CASE target # "status"
  <2>1. found = Evidence(target, e.left, e.right)
    BY <1>1, <1>3, AnalysesEvidence
  <2>2. found # {} /\ Observe(target, Analyses(e)).value = CHOOSE v \in found : TRUE
    BY <1>1, <1>3 DEF Observe, Reason, Value
  <2>3. \E v : Evidence(target, e.left, e.right) \in {{}, {v}}
    BY DEF Evidence, When, Targets, Number, Exact
  <2> HIDE DEF found
  <2> QED BY <2>1, <2>2, <2>3
<1> QED BY <1>2, <1>3

(* A criterion bounds a number or expects a value, never both.             *)
LEMMA SatisfiedMeets ==
  ASSUME NEW c, ValidCriterion(c), NEW v
  PROVE  Satisfied(c, v) <=> Meets(c, v)
<1>1. CASE Targets[c.target].kind = "number"
  BY <1>1 DEF ValidCriterion, Satisfied, Meets
<1>2. CASE Targets[c.target].kind # "number"
  <2>1. c.equals # {}
    BY <1>2, FS_EmptySet DEF ValidCriterion
  <2> QED BY <1>2, <2>1 DEF Satisfied, Meets
<1> QED BY <1>1, <1>2

LEMMA PassIsMeant == Shape => PassMeansCriteria
<1> SUFFICES ASSUME Shape, pc = "row", Verdict(pair) \in {"PASS", "FAIL"}
             PROVE  /\ \A c \in recipe.policy : Evidence(c.target, pair.left, pair.right) # {}
                    /\ (Verdict(pair) = "PASS") <=>
                         \A c \in recipe.policy :
                           \A v \in Evidence(c.target, pair.left, pair.right) : Meets(c, v)
  BY DEF PassMeansCriteria
<1> DEFINE A == Analyses(pair)
           outcomes == {CriterionResult(c, A) : c \in recipe.policy}
<1>1. /\ ValidRecord(pair.left) /\ ValidRecord(pair.right) /\ Complete(pair)
      /\ TrajectoryAnalysis(pair).status = "completed"
      /\ ImpactAnalysis(pair).status = "completed"
      /\ Judgement(pair, A) = "VERIFIED"
  <2>1. Verdict(pair) \in Decided
    BY DEF Decided
  <2>2. /\ A["trajectory"] = TrajectoryAnalysis(pair) /\ A["impact"] = ImpactAnalysis(pair)
        /\ DOMAIN A = {"trajectory", "impact"}
    BY DEF Analyses
  <2> QED BY <2>1, <2>2, VerdictFacts, TrialsAssumption DEF Shape
<1> HIDE DEF A
<1>2. recipe.policy # {} /\ Verdict(pair) = EvaluatePolicy(recipe.policy, A, "VERIFIED")
  BY <1>1 DEF Verdict, A
<1>3. \A c \in recipe.policy : ValidCriterion(c) /\ c.target \in DOMAIN Targets
  BY <1>2, TrialsAssumption DEF Shape, ValidPolicy, ValidCriterion
<1>4. /\ "INSUFFICIENT_EVIDENCE" \notin outcomes
      /\ (Verdict(pair) = "PASS") <=> outcomes = {"PASS"}
  BY <1>2 DEF EvaluatePolicy
<1>5. ASSUME NEW c \in recipe.policy
      PROVE  /\ Evidence(c.target, pair.left, pair.right) = {Observe(c.target, A).value}
             /\ (CriterionResult(c, A) = "PASS") <=> Meets(c, Observe(c.target, A).value)
  <2>1. Observe(c.target, A).known
    BY <1>4 DEF CriterionResult
  <2>2. Evidence(c.target, pair.left, pair.right) = {Observe(c.target, A).value}
    BY <1>1, <1>3, <2>1, ObservedEvidence DEF A
  <2>3. (CriterionResult(c, A) = "PASS") <=> Satisfied(c, Observe(c.target, A).value)
    BY <2>1 DEF CriterionResult
  <2> QED BY <1>3, <2>2, <2>3, SatisfiedMeets
<1>6. outcomes = {"PASS"} <=> \A c \in recipe.policy : CriterionResult(c, A) = "PASS"
  BY <1>2
<1> HIDE DEF outcomes
<1> QED BY <1>4, <1>5, <1>6

-----------------------------------------------------------------------------
(* Type correctness.                                                       *)
THEOREM TrialsTypeCorrect == Spec => []TypeOK
<1>1. TrialsInv => TypeOK
  <2> SUFFICES ASSUME TrialsInv PROVE TypeOK
    OBVIOUS
  <2>1. pair = NoPair <=> pc # "row" /\ pc # "check"
    BY TrialsAssumption DEF TrialsInv, Shape, NoPair
  <2>2. /\ \A i \in DOMAIN rows : rows[i] \in RowSet
        /\ \A i \in DOMAIN measured : measured[i] \in MeasuredSet
    BY DEF TrialsInv, Shape
  <2>3. Len(files) <= 2
    <3>1. Len(<<>>) <= 2 /\ Len(<<"report">>) <= 2
      OBVIOUS
    <3>2. files = <<>> \/ files = <<"report">> \/ Len(files) = 2
      BY DEF TrialsInv, Shape, Filed
    <3>3. CASE Len(files) = 2
      BY <3>3
    <3> QED BY <3>1, <3>2, <3>3
  <2> QED BY <2>1, <2>2, <2>3 DEF TrialsInv, Shape, Statuses, RowSet, MeasuredSet, TypeOK
<1> QED BY <1>1, TrialsInvariant, PTL

(* Exit status 0 is earned by every pair, a mean latency covers them all,  *)
(* and the summary lists every pair that left a result, unless interrupted.*)
THEOREM TrialsAreSound == Spec => []TrialsSound
<1>1. TrialsInv => TrialsSound
  <2> SUFFICES ASSUME TrialsInv PROVE TrialsSound
    OBVIOUS
  <2>1. ExitEarned
    <3> SUFFICES ASSUME pc \in {"persist", "done"}, exit = 0
                 PROVE  /\ Len(rows) = Warmups + Measurements
                        /\ GoodRows(Len(rows)) /\ \A b \in baseline : BaselineMatches(b)
      BY DEF TrialsInv, Shape, AllAlike, ExitEarned, GoodRows, BaselineMatches
    <3> QED BY DEF TrialsInv, Over
  <2>2. LatencyHonest
    BY TrialsAssumption DEF LatencyHonest, Summary, LatencySamples
  <2>3. PairsRetained
    BY DEF TrialsInv, Over, Filed, PairsRetained
  <2> QED BY <2>1, <2>2, <2>3 DEF TrialsSound
<1> QED BY <1>1, TrialsInvariant, PTL

(* A verdict is only given on complete runs, without gaps in the evidence, *)
(* that are alike apart from what the plan lets differ.                    *)
THEOREM VerdictsFailClosed == Spec => []FailClosed
<1>1. TrialsInv => FailClosed
  BY AlikeIfDecided DEF TrialsInv
<1> QED BY <1>1, TrialsInvariant, PTL

(* PASS and FAIL say what the retained evidence itself says of the policy, *)
(* whatever path the numbers took through the analyses.                    *)
THEOREM VerdictsMeanEvidence == Spec => []PassMeansCriteria
<1>1. TrialsInv => PassMeansCriteria
  BY PassIsMeant DEF TrialsInv
<1> QED BY <1>1, TrialsInvariant, PTL

-----------------------------------------------------------------------------
(* Two scoring commands and a comparison of their reports (FidelityScore). *)

(* First is the element of least rank.                                     *)
LEMMA FirstFacts ==
  ASSUME NEW rank, rank \in [DOMAIN rank -> Nat], NEW S \in SUBSET DOMAIN rank, S # {}
  PROVE  /\ First(S, rank) \in S
         /\ \A y \in S : rank[First(S, rank)] <= rank[y]
<1> DEFINE T == {rank[x] : x \in S}
<1>1. T \in SUBSET Nat /\ T # {}
  OBVIOUS
<1>2. \E k \in T : \A j \in T : k <= j
  <2> HIDE DEF T
  <2> QED BY <1>1, LeastElement
<1>3. \E x \in S : \A y \in S : rank[x] <= rank[y]
  BY <1>2
<1> QED BY <1>3 DEF First

Phases == {"floor_a", "floor_b", "floor", "gtm", "kld", "rniah", "plad", "compose"}

(* The phase that runs is due, and every phase before it is over.          *)
LEMMA PhaseFacts ==
  ASSUME due \subseteq Phases, due # {}
  PROVE  /\ Phase \in due
         /\ Phase \notin {"floor_a", "floor_b"} => "floor_a" \notin due /\ "floor_b" \notin due
         /\ Phase = "compose" => due = {"compose"}
<1>1. PhaseRank \in [Phases -> Nat] /\ DOMAIN PhaseRank = Phases
  BY DEF PhaseRank, Phases
<1>2. Phase \in due /\ \A y \in due : PhaseRank[Phase] <= PhaseRank[y]
  BY <1>1, FirstFacts DEF Phase
<1>3. /\ PhaseRank["floor_a"] = 1 /\ PhaseRank["floor_b"] = 2 /\ PhaseRank["floor"] = 3
      /\ PhaseRank["gtm"] = 4 /\ PhaseRank["kld"] = 5 /\ PhaseRank["rniah"] = 6
      /\ PhaseRank["plad"] = 7 /\ PhaseRank["compose"] = 8
  BY DEF PhaseRank
<1>4. "floor_a" \in due \/ "floor_b" \in due => Phase \in {"floor_a", "floor_b"}
  BY <1>2, <1>3 DEF Phases
<1>5. Phase = "compose" => \A y \in due : y = "compose"
  BY <1>2, <1>3 DEF Phases
<1> QED BY <1>2, <1>4, <1>5

(* Trajectories that agree on every prompt are the same.                   *)
LEMMA IdenticalMeansSame ==
  ASSUME NEW s \in Seq(STRING), NEW t \in Seq(STRING), Diff(s, t).first = Identical
  PROVE  s = t
<1> DEFINE n     == Lesser(Len(s), Len(t))
           apart == {i \in 1..n : s[i] # t[i]}
<1>1. n \in Nat /\ n <= Len(s) /\ n <= Len(t) /\ (Len(s) = Len(t) => n = Len(s))
  BY DEF Lesser
<1>2. apart = {}
  <2> SUFFICES ASSUME apart # {} PROVE FALSE
    OBVIOUS
  <2>1. Min(apart) \in apart
    <3>1. apart \in SUBSET Nat
      BY <1>1
    <3> HIDE DEF apart
    <3>2. \E x \in apart : \A y \in apart : x <= y
      BY <3>1, LeastElement
    <3> QED BY <3>2 DEF Min
  <2>2. Diff(s, t).first = Min(apart) - 1
    BY DEF Diff
  <2> DEFINE m == Min(apart)
  <2>3. m \in 1..n
    BY <2>1
  <2> HIDE DEF m
  <2> QED BY <1>1, <2>2, <2>3 DEF Identical, m
<1>3. Diff(s, t).first = IF Len(s) = Len(t) THEN Identical ELSE n
  BY <1>2 DEF Diff
<1>4. Len(s) = Len(t)
  <2> HIDE DEF n
  <2> QED BY <1>1, <1>3 DEF Identical
<1>5. \A i \in 1..n : s[i] = t[i]
  BY <1>2
<1> HIDE DEF n, apart
<1> QED BY <1>1, <1>4, <1>5

LEMMA AllMatchMeansSame ==
  ASSUME NEW refs \in Seq(Seq(STRING)), NEW cands \in Seq(Seq(STRING)),
         Len(refs) = Len(cands), AllMatch(refs, cands)
  PROVE  refs = cands
<1>1. \A i \in 1..Len(refs) : refs[i] = cands[i]
  <2> SUFFICES ASSUME NEW i \in 1..Len(refs) PROVE refs[i] = cands[i]
    OBVIOUS
  <2>1. refs[i] \in Seq(STRING) /\ cands[i] \in Seq(STRING) /\ i \in DOMAIN refs
    OBVIOUS
  <2> QED BY <2>1, IdenticalMeansSame DEF AllMatch
<1> QED BY <1>1

-----------------------------------------------------------------------------
(* What a report says of the axes that were run: they are its active axes, *)
(* those with a reliable reference contribute, and the composite is their  *)
(* mean.                                                                   *)
Accounted(body, axes) ==
  /\ Active(body) = axes
  /\ Contributors(body) = {a \in axes : a = "rniah" => body.axes[a].confidence = "ok"}
  /\ body.composite =
       HarmonicMean([a \in Contributors(body) |-> CHOOSE v \in body.axes[a].score : TRUE])

LEMMA ReportFacts ==
  ASSUME NEW c \in Configurations, NEW axes, axes \cap Skipped(c) = {}, axes \subseteq Axes,
         NEW all, DOMAIN all = axes \cup Skipped(c),
         "rniah" \in axes => all["rniah"].confidence \in {"ok", "low"},
         NEW measure, NEW identities, NEW changed
  PROVE  LET body == JsonReport(c, all, CompositeOf(c, all, measure), identities, changed) IN
         /\ body.cfg = c /\ body.floor = measure
         /\ body.identities = identities /\ body.changed = changed
         /\ Accounted(body, axes)
<1> DEFINE comp == CompositeOf(c, all, measure)
           body == JsonReport(c, all, comp, identities, changed)
           good == {a \in axes : a = "rniah" => all[a].confidence = "ok"}
<1>2. /\ comp.scores = [a \in good |-> all[a].score]
      /\ comp.floor = measure /\ comp.value = HarmonicMean(comp.scores)
  <2>1. {a \in DOMAIN all \ Skipped(c) : a = "rniah" => all[a].confidence = "ok"} = good
    OBVIOUS
  <2> HIDE DEF good
  <2> QED BY <2>1 DEF CompositeOf
<1> HIDE DEF comp
<1>3. /\ body.cfg = c /\ body.floor = measure
      /\ body.identities = identities /\ body.changed = changed
      /\ body.composite = comp.value
      /\ body.axes = [a \in DOMAIN all |-> AxisEntry(a, all[a], comp)]
  BY <1>2 DEF JsonReport
<1> HIDE DEF body
<1>4. Skipped(c) \subseteq {"gtm", "kld"}
  BY DEF Skipped
<1>5. DOMAIN comp.scores = good /\ good \subseteq axes
  BY <1>2
<1>6. \A a \in good : comp.scores[a] = all[a].score
  BY <1>2
<1>7. ASSUME NEW a \in axes
      PROVE  /\ body.axes[a].score = {all[a].score} /\ ~body.axes[a].skipped
             /\ a = "rniah" => body.axes[a].confidence = all[a].confidence
             /\ body.axes[a].excluded <=> a \notin good
  <2>1. body.axes[a] = AxisEntry(a, all[a], comp)
    BY <1>3
  <2>2. a \in good \/ a = "rniah"
    OBVIOUS
  <2>3. body.axes[a].score = {all[a].score}
    BY <1>5, <2>1, <2>2 DEF AxisEntry
  <2>4. body.axes[a].skipped = (a \in {"gtm", "kld"} /\ ~(a \in DOMAIN comp.scores))
    BY <2>1 DEF AxisEntry
  <2>5. a = "rniah" => body.axes[a].confidence = all[a].confidence
    BY <2>1 DEF AxisEntry
  <2>6. body.axes[a].excluded
          = (a = "rniah" /\ (all[a].confidence = "low" \/ ~(a \in DOMAIN comp.scores)))
    BY <2>1 DEF AxisEntry
  <2> QED BY <1>5, <2>2, <2>3, <2>4, <2>5, <2>6
<1>8. ASSUME NEW a \in Skipped(c) PROVE body.axes[a].skipped
  <2>1. body.axes[a] = AxisEntry(a, all[a], comp)
    BY <1>3
  <2>2. body.axes[a].skipped = (a \in {"gtm", "kld"} /\ ~(a \in DOMAIN comp.scores))
    BY <2>1 DEF AxisEntry
  <2> QED BY <1>4, <1>5, <2>2
<1>9. Active(body) = axes
  BY <1>3, <1>7, <1>8 DEF Active
<1>10. Contributors(body) = good
  BY <1>5, <1>7, <1>9 DEF Contributors
<1>11. good = {a \in axes : a = "rniah" => body.axes[a].confidence = "ok"}
  BY <1>7
<1>12. [a \in good |-> CHOOSE v \in body.axes[a].score : TRUE] = comp.scores
  BY <1>2, <1>5, <1>7
<1>13. Accounted(body, axes)
  BY <1>2, <1>3, <1>9, <1>10, <1>11, <1>12 DEF Accounted
<1> QED BY <1>3, <1>13 DEF body, comp

-----------------------------------------------------------------------------
Points == {"idle", "resolve", "capture", "axes", "write", "html", "judged"}
Stamped == [content : Int, stamp : Nat]
InRun == {"resolve", "capture", "axes", "write", "html"}

Typed ==
  /\ point \in Points /\ run \in 0..2 /\ session \in Configurations \X Configurations
  /\ point \in InRun => run \in Runs
  /\ disk \in [Sources -> Stamped]
  /\ DOMAIN watched \subseteq Sources /\ \A r \in DOMAIN watched : watched[r] \in Stamped
  /\ todo \subseteq Sources /\ due \subseteq Phases
  /\ outs \in [ref : Seq(Seq(STRING)), cand : Seq(Seq(STRING))]
  /\ Len(outs.cand) <= Len(outs.ref) /\ Len(outs.ref) <= PromptCount
  /\ reads \in [Runs -> SUBSET (Sources \X Int)]
  /\ ran \in [Runs -> SUBSET Axes] /\ repeated \in [Runs -> BOOLEAN]
  /\ DOMAIN reports = Runs

(* A run starts from nothing, and has a report once it composed one.       *)
Clean ==
  /\ point \in {"idle", "resolve", "capture"} =>
       DOMAIN results = {} /\ DOMAIN floorScores = {} /\ outs = NoAnswers
  /\ point \in {"resolve", "capture"} => due = PhasesOf(cfg)
  /\ \A i \in Runs : i > run \/ (i = run /\ point \in {"resolve", "capture"}) =>
       reads[i] = {} /\ ran[i] = {} /\ repeated[i]
  /\ \A i \in Runs : i > run \/ (i = run /\ point \in {"resolve", "capture", "axes"}) =>
       reports[i] = NoReport
  /\ point = "write" => reports[run] # NoReport

(* A source whose stamp is the captured one still has the captured bytes,  *)
(* and so has everything that was read of it since.                        *)
Unedited(r) == r \in DOMAIN watched /\ disk[r].stamp = watched[r].stamp

Seen ==
  /\ \A r \in DOMAIN watched : /\ watched[r].stamp <= disk[r].stamp
                               /\ Unedited(r) => watched[r].content = disk[r].content
  /\ point = "axes" =>
       \A use \in reads[run] : Unedited(use[1]) => use[2] = watched[use[1]].content

(* The axes that ran are those whose phases are over.                      *)
AxesOf(c) == PhasesOf(c) \cap Axes
ReadBy(axes) == InputsOf(axes) \cup {"model", "runtime"}

Progress ==
  point = "axes" =>
    /\ due \subseteq PhasesOf(cfg) /\ "compose" \in due
    /\ "floor" \notin due => "floor_a" \notin due /\ "floor_b" \notin due
    /\ ran[run] = AxesOf(cfg) \ due /\ DOMAIN results = ran[run]
    /\ "rniah" \in DOMAIN results => results["rniah"].confidence \in {"ok", "low"}
    /\ \A use \in reads[run] : use[1] \in ReadBy(AxesOf(cfg))

(* The floor is behind a run only if it was reached, and trajectories that *)
(* differ stand in its way.                                                *)
FloorReached(ratio) == AtLeastHalves(ratio, 2 * MinFloor)

FloorKept ==
  point = "axes" =>
    /\ ~repeated[run] => "gtm" \in DOMAIN floorScores /\ ~floorScores["gtm"].full
    /\ cfg.floor /\ "floor" \notin due => repeated[run] /\ FloorReached(floor)

(* What a report says is true of its run.                                  *)
TrueOf(body, c, same, axes, uses) ==
  /\ body.cfg = c /\ axes = AxesOf(c) /\ Accounted(body, axes)
  /\ c.floor => same /\ FloorReached(body.floor)
  /\ \A use \in uses :
       /\ use[1] \in ReadBy(axes)
       /\ use[1] \in DOMAIN body.identities \ body.changed =>
            use[2] = body.identities[use[1]]

Reported ==
  \A i \in Runs :
    \/ reports[i] = NoReport
    \/ /\ reports[i] = [state |-> reports[i].state, body |-> reports[i].body]
       /\ TrueOf(reports[i].body, session[i], repeated[i], ran[i], reads[i])

Compared ==
  verdict # <<>> =>
    point = "judged" /\ \E override \in BOOLEAN : verdict = CompareReports(reports, override)

ScoreInv == Typed /\ Clean /\ Seen /\ Progress /\ FloorKept /\ Reported /\ Compared

LEMMA Started == ScoreInit => ScoreInv
<1> SUFFICES ASSUME ScoreInit PROVE ScoreInv
  OBVIOUS
<1> USE DEF ScoreInit
<1>1. Typed BY ScoreAssumption DEF Typed, Points, InRun, Stamped, Runs, NoAnswers, Phases
<1>2. Clean BY DEF Clean, Runs, NoReport
<1>3. Seen /\ Progress /\ FloorKept /\ Compared BY DEF Seen, Progress, FloorKept, Compared
<1>4. Reported BY DEF Reported, Runs
<1> QED BY <1>1, <1>2, <1>3, <1>4 DEF ScoreInv

(* The reports and what they are about stay.                               *)
LEMMA ReportsStay ==
  ASSUME Reported, UNCHANGED <<session, reports>>,
         \A i \in Runs : reports[i] = NoReport \/ (/\ reads'[i] = reads[i] /\ ran'[i] = ran[i]
                                                   /\ repeated'[i] = repeated[i])
  PROVE  Reported'
BY DEF Reported

LEMMA EditKeeps ==
  ASSUME ScoreInv, NEW r \in Editable, Edit(r)
  PROVE  ScoreInv'
<1> USE DEF ScoreInv, Edit, command, capture, scoring, history, cfg
<1>1. r \in Sources BY ScoreAssumption
<1>2. Typed' BY <1>1 DEF Typed, Stamped
<1>3. Clean' BY DEF Clean
<1>4. Seen'
  <2>1. /\ disk[r].stamp < disk'[r].stamp /\ disk[r].stamp \in Nat
        /\ \A s \in Sources \ {r} : disk'[s] = disk[s]
    BY <1>1 DEF Typed, Stamped
  <2>2. \A s \in DOMAIN watched : s \in Sources /\ watched[s].stamp \in Nat
    BY DEF Typed, Stamped
  <2>3. \A s \in DOMAIN watched : s = r => ~Unedited(s)'
    BY <1>1, <2>1, <2>2 DEF Seen, Unedited, Typed, Stamped
  <2> QED BY <2>1, <2>2, <2>3 DEF Seen, Unedited, Typed
<1>5. Progress' /\ FloorKept' BY DEF Progress, FloorKept
<1>6. Reported' BY ReportsStay
<1>7. Compared' BY DEF Compared
<1> QED BY <1>2, <1>3, <1>4, <1>5, <1>6, <1>7

(* A command that is left leaves nothing of its own but a report.          *)
LEMMA LeaveKeeps ==
  ASSUME ScoreInv, point \notin {"idle", "judged"},
         point' = "idle" /\ due' = {} /\ outs' = NoAnswers /\ results' = <<>>,
         floorScores' = <<>> /\ todo' = {} /\ watched' = <<>>,
         UNCHANGED <<disk, command, reports, verdict, history>>
  PROVE  ScoreInv'
<1> USE DEF ScoreInv, command, history, cfg
<1>1. Typed'
  BY ScoreAssumption DEF Typed, Points, InRun, NoAnswers, Stamped
<1>2. Clean' BY DEF Clean, Typed, Points
<1>3. Seen' /\ Progress' /\ FloorKept' BY DEF Seen, Unedited, Progress, FloorKept
<1>4. Reported' BY ReportsStay
<1>5. Compared' BY DEF Compared
<1> QED BY <1>1, <1>2, <1>3, <1>4, <1>5

LEMMA BeginKeeps ==
  ASSUME ScoreInv, Begin
  PROVE  ScoreInv'
<1> USE DEF ScoreInv, Begin, history, cfg
<1>1. run' = run + 1 /\ run' \in Runs /\ session' = session /\ session[run + 1] \in Configurations
  BY DEF Typed, Runs
<1>2. Captured(session[run + 1]) \subseteq Sources
  BY DEF Captured, SelectedInputs, Executables, Sources, Inputs
<1>3. PhasesOf(session[run + 1]) \subseteq Phases
  BY DEF PhasesOf, Phases
<1>4. Typed' BY <1>1, <1>2, <1>3 DEF Typed, Points, InRun, Runs
<1>5. Clean' BY <1>1 DEF Clean, Typed, Runs
<1>6. Seen' /\ Progress' /\ FloorKept' BY DEF Seen, Unedited, Progress, FloorKept, Clean
<1>7. Reported' BY ReportsStay
<1>8. Compared' BY DEF Compared
<1> QED BY <1>4, <1>5, <1>6, <1>7, <1>8

LEMMA ResolveKeeps ==
  ASSUME ScoreInv, Resolve
  PROVE  ScoreInv'
<1> USE DEF ScoreInv, Resolve, command, capture, scoring, history, cfg
<1>1. Typed' BY DEF Typed, Points, InRun
<1>2. Clean' BY DEF Clean
<1>3. Seen' /\ Progress' /\ FloorKept' BY DEF Seen, Unedited, Progress, FloorKept
<1>4. Reported' BY ReportsStay
<1>5. Compared' BY DEF Compared
<1> QED BY <1>1, <1>2, <1>3, <1>4, <1>5

LEMMA CaptureNextKeeps ==
  ASSUME ScoreInv, CaptureNext
  PROVE  ScoreInv'
<1> USE DEF ScoreInv, command, scoring, history, cfg
<1> DEFINE r == First(todo, CaptureRank)
<1>1. r \in todo
  <2>1. CaptureRank \in [Sources -> Nat] /\ DOMAIN CaptureRank = Sources
    BY DEF CaptureRank, Sources, Inputs
  <2> QED BY <2>1, FirstFacts DEF CaptureNext, Typed
<1>2. /\ point = "capture" /\ todo' = todo \ {r}
      /\ watched' = With(watched, r, disk[r]) \/ watched' = watched
      /\ UNCHANGED <<disk, command, point, scoring, temps, reports, rc, verdict, history>>
  BY DEF CaptureNext
<1> HIDE DEF r
<1>3. r \in Sources /\ disk[r] \in Stamped
  BY <1>1 DEF Typed
<1>4. /\ DOMAIN watched' \subseteq Sources
      /\ \A s \in DOMAIN watched' : \/ s = r /\ watched'[s] = disk[s]
                                    \/ s \in DOMAIN watched /\ watched'[s] = watched[s]
  BY <1>2, <1>3 DEF With, Typed
<1>5. Typed' BY <1>2, <1>3, <1>4 DEF Typed, InRun
<1>6. Clean' BY <1>2 DEF Clean
<1>7. Seen' BY <1>2, <1>3, <1>4 DEF Seen, Unedited, Stamped
<1>8. Progress' /\ FloorKept' BY <1>2 DEF Progress, FloorKept
<1>9. Reported' BY <1>2, ReportsStay
<1>10. Compared' BY <1>2 DEF Compared
<1> QED BY <1>5, <1>6, <1>7, <1>8, <1>9, <1>10

LEMMA CaptureDoneKeeps ==
  ASSUME ScoreInv, CaptureDone
  PROVE  ScoreInv'
<1> USE DEF ScoreInv, CaptureDone, command, capture, scoring, history, cfg
<1>1. Typed' BY DEF Typed, Points, InRun
<1>2. Clean' BY DEF Clean
<1>3. run \in Runs /\ reads[run] = {} /\ ran[run] = {} /\ repeated[run] /\ due = PhasesOf(cfg)
      /\ DOMAIN results = {}
  BY DEF Clean, Typed, InRun
<1>4. Seen' BY <1>3 DEF Seen, Unedited
<1>5. "compose" \in due /\ ("floor" \notin due => "floor_a" \notin due /\ "floor_b" \notin due)
      /\ (cfg.floor => "floor" \in due)
  BY <1>3 DEF PhasesOf
<1>6. Progress' BY <1>3, <1>5 DEF Progress, AxesOf
<1>7. FloorKept' BY <1>3, <1>5 DEF FloorKept
<1>8. Reported' BY ReportsStay
<1>9. Compared' BY DEF Compared
<1> QED BY <1>1, <1>2, <1>4, <1>6, <1>7, <1>8, <1>9

(* What a phase reads, its axis reads.                                     *)
LEMMA PhaseReads ==
  ASSUME NEW c, NEW p \in PhasesOf(c)
  PROVE  /\ p \in {"floor_a", "gtm", "plad"} => "prompts" \in ReadBy(AxesOf(c))
         /\ p \in {"floor_b", "kld"} => "corpus" \in ReadBy(AxesOf(c))
         /\ p = "rniah" => "haystack" \in ReadBy(AxesOf(c))
         /\ {"model", "runtime"} \subseteq ReadBy(AxesOf(c))
BY DEF PhasesOf, AxesOf, ReadBy, InputsOf, Axes

(* While the axes run, nothing changes but the run itself.                 *)
LEMMA AxisFrame ==
  ASSUME ScoreInv, point = "axes",
         UNCHANGED <<disk, command, point, capture, reports, verdict>>,
         \A i \in Runs \ {run} : /\ reads'[i] = reads[i] /\ ran'[i] = ran[i]
                                 /\ repeated'[i] = repeated[i]
  PROVE  Clean' /\ Reported' /\ Compared'
<1> USE DEF ScoreInv, command, capture, cfg
<1>1. run \in Runs /\ reports[run] = NoReport
  BY DEF Typed, InRun, Clean
<1>2. Clean' BY <1>1 DEF Clean, Runs
<1>3. Reported' BY <1>1, ReportsStay
<1>4. Compared' BY DEF Compared
<1> QED BY <1>2, <1>3, <1>4

(* What is read now are the bytes that are there.                          *)
LEMMA UseKeeps ==
  ASSUME ScoreInv, point = "axes", NEW R \in SUBSET ReadBy(AxesOf(cfg)), Use(R),
         UNCHANGED <<disk, command, point, capture>>
  PROVE  /\ reads' \in [Runs -> SUBSET (Sources \X Int)]
         /\ Seen'
         /\ \A use \in reads'[run] : use[1] \in ReadBy(AxesOf(cfg))
         /\ \A i \in Runs \ {run} : reads'[i] = reads[i]
<1> USE DEF ScoreInv, command, capture
<1>1. run \in Runs /\ R \subseteq Sources
  BY DEF Typed, InRun, ReadBy, InputsOf, Sources, Inputs
<1> DEFINE new == {<<r, disk[r].content>> : r \in R}
<1>2. new \subseteq Sources \X Int
  BY <1>1 DEF Typed, Stamped
<1>3. /\ reads'[run] = reads[run] \cup new
      /\ reads' \in [Runs -> SUBSET (Sources \X Int)]
      /\ \A i \in Runs \ {run} : reads'[i] = reads[i]
  <2>1. reads' = [reads EXCEPT ![run] = reads[run] \cup new]
    BY DEF Use
  <2> HIDE DEF new
  <2> QED BY <1>1, <1>2, <2>1 DEF Typed
<1>4. \A use \in new : /\ use[1] \in R
                        /\ Unedited(use[1]) => use[2] = watched[use[1]].content
  BY <1>1 DEF Seen, Unedited
<1>5. reads'[run] = reads[run] \cup new
  BY <1>3
<1>6. Seen'
  <2>1. \A r \in DOMAIN watched : /\ watched[r].stamp <= disk[r].stamp
                                 /\ Unedited(r) => watched[r].content = disk[r].content
    BY DEF Seen
  <2>2. \A use \in reads[run] : Unedited(use[1]) => use[2] = watched[use[1]].content
    BY DEF Seen
  <2>3. \A use \in reads'[run] : Unedited(use[1]) => use[2] = watched[use[1]].content
    <3> SUFFICES ASSUME NEW use \in reads'[run]
                 PROVE  Unedited(use[1]) => use[2] = watched[use[1]].content
      OBVIOUS
    <3>1. use \in reads[run] \/ use \in new
      BY <1>5
    <3>2. CASE use \in reads[run]
      BY <2>2, <3>2
    <3>3. CASE use \in new
      BY <1>4, <3>3
    <3> QED BY <3>1, <3>2, <3>3
  <2>4. \A r : Unedited(r)' <=> Unedited(r)
    BY DEF Unedited
  <2> QED BY <2>1, <2>3, <2>4 DEF Seen
<1>7. \A use \in reads'[run] : use[1] \in ReadBy(AxesOf(cfg))
  <2>1. \A use \in reads[run] : use[1] \in ReadBy(AxesOf(cfg))
    BY DEF Progress
  <2>2. ASSUME NEW use \in new PROVE use[1] \in ReadBy(AxesOf(cfg))
    BY <1>4, <2>2
  <2> QED BY <1>5, <2>1, <2>2, Zenon
<1> QED BY <1>3, <1>6, <1>7

(* The phase that runs.                                                    *)
LEMMA Running ==
  ASSUME ScoreInv, point = "axes"
  PROVE  /\ run \in Runs /\ cfg \in Configurations
         /\ due \subseteq Phases /\ Phase \in due /\ Phase \in PhasesOf(cfg)
         /\ Phase \notin {"floor_a", "floor_b"} => "floor_a" \notin due /\ "floor_b" \notin due
         /\ Phase = "compose" => due = {"compose"}
<1>1. due \subseteq Phases /\ due # {}
  BY DEF ScoreInv, Typed, Progress
<1> QED BY <1>1, PhaseFacts DEF ScoreInv, Typed, Progress, InRun, Runs, cfg

LEMMA LoadKeeps ==
  ASSUME ScoreInv, Load
  PROVE  ScoreInv'
<1>1. /\ point = "axes" /\ Phase \in {"floor_a", "gtm", "rniah", "plad"}
      /\ Use({IF Phase = "rniah" THEN "haystack" ELSE "prompts"})
      /\ UNCHANGED <<disk, command, point, capture, due, outs, results, floorScores, floor,
                     reports, verdict, ran, repeated>>
  BY DEF Load, At
<1>2. {IF Phase = "rniah" THEN "haystack" ELSE "prompts"} \subseteq ReadBy(AxesOf(cfg))
  BY <1>1, Running, PhaseReads
<1>3. /\ reads' \in [Runs -> SUBSET (Sources \X Int)] /\ Seen'
      /\ \A use \in reads'[run] : use[1] \in ReadBy(AxesOf(cfg))
      /\ \A i \in Runs \ {run} : reads'[i] = reads[i]
  BY <1>1, <1>2, UseKeeps
<1>4. Clean' /\ Reported' /\ Compared'
  BY <1>1, <1>3, AxisFrame
<1>5. Typed' BY <1>1, <1>3 DEF ScoreInv, Typed, command, capture, InRun
<1>6. Progress' /\ FloorKept'
  BY <1>1, <1>3 DEF ScoreInv, Progress, FloorKept, command, capture, cfg
<1> QED BY <1>3, <1>4, <1>5, <1>6 DEF ScoreInv

LEMMA DecodeKeeps ==
  ASSUME ScoreInv, NEW answer \in Answers, Decode(answer)
  PROVE  ScoreInv'
<1>1. /\ point = "axes" /\ Use({"model", "runtime"}) /\ Len(outs.cand) < PromptCount
      /\ outs' = IF RefsNext THEN [outs EXCEPT !.ref = Append(outs.ref, answer)]
                             ELSE [outs EXCEPT !.cand = Append(outs.cand, answer)]
      /\ UNCHANGED <<disk, command, point, capture, due, results, floorScores, floor,
                     reports, verdict, ran, repeated>>
  BY DEF Decode, At
<1>2. {"model", "runtime"} \subseteq ReadBy(AxesOf(cfg))
  BY <1>1, Running, PhaseReads
<1>3. /\ reads' \in [Runs -> SUBSET (Sources \X Int)] /\ Seen'
      /\ \A use \in reads'[run] : use[1] \in ReadBy(AxesOf(cfg))
      /\ \A i \in Runs \ {run} : reads'[i] = reads[i]
  BY <1>1, <1>2, UseKeeps
<1>4. Clean' /\ Reported' /\ Compared'
  BY <1>1, <1>3, AxisFrame
<1>5. /\ outs' \in [ref : Seq(Seq(STRING)), cand : Seq(Seq(STRING))]
      /\ Len(outs'.cand) <= Len(outs'.ref) /\ Len(outs'.ref) <= PromptCount
  <2> DEFINE n == Len(outs.ref)
             m == Len(outs.cand)
  <2>1. /\ answer \in Seq(STRING) /\ PromptCount \in Nat
        /\ outs.ref \in Seq(Seq(STRING)) /\ outs.cand \in Seq(Seq(STRING))
        /\ n \in Nat /\ m \in Nat /\ m <= n /\ n <= PromptCount /\ m < PromptCount
        /\ outs \in [ref : Seq(Seq(STRING)), cand : Seq(Seq(STRING))]
    BY <1>1, ScoreAssumption DEF ScoreInv, Typed
  <2>2. CASE RefsNext
    <3>1. n < PromptCount
      BY <2>1, <2>2 DEF RefsNext
    <3>2. outs'.ref = Append(outs.ref, answer) /\ outs'.cand = outs.cand
          /\ outs' = [ref |-> Append(outs.ref, answer), cand |-> outs.cand]
      BY <1>1, <2>1, <2>2
    <3> QED BY <2>1, <3>1, <3>2
  <2>3. CASE ~RefsNext
    <3>1. m < n
      BY <2>1, <2>3 DEF RefsNext
    <3>2. outs'.ref = outs.ref /\ outs'.cand = Append(outs.cand, answer)
          /\ outs' = [ref |-> outs.ref, cand |-> Append(outs.cand, answer)]
      BY <1>1, <2>1, <2>3
    <3> QED BY <2>1, <3>1, <3>2
  <2> QED BY <2>2, <2>3
<1>6. Typed' BY <1>1, <1>3, <1>5 DEF ScoreInv, Typed, command, capture, InRun
<1>7. Progress' /\ FloorKept'
  BY <1>1, <1>3 DEF ScoreInv, Progress, FloorKept, command, capture, cfg
<1> QED BY <1>3, <1>4, <1>6, <1>7 DEF ScoreInv

(* A phase that ends is no longer due, and its axis has been run.          *)
LEMMA PhaseEnds ==
  ASSUME ScoreInv, point = "axes", Phase # "compose", NextPhase,
         ran' = [ran EXCEPT ![run] = ran[run] \cup ({Phase} \cap Axes)]
  PROVE  /\ due' \subseteq Phases /\ due' \subseteq PhasesOf(cfg) /\ "compose" \in due'
         /\ "floor" \notin due' => "floor_a" \notin due' /\ "floor_b" \notin due'
         /\ Phase # "floor" => ("floor" \in due' <=> "floor" \in due)
         /\ ran'[run] = AxesOf(cfg) \ due' /\ ran' \in [Runs -> SUBSET Axes]
         /\ \A i \in Runs \ {run} : ran'[i] = ran[i]
         /\ outs' = NoAnswers
<1> DEFINE P == Phase
<1>1. /\ run \in Runs /\ P \in due /\ P \in PhasesOf(cfg) /\ due \subseteq Phases
      /\ P = "floor" => "floor_a" \notin due /\ "floor_b" \notin due
  BY Running
<1>2. due' = due \ {P} /\ outs' = NoAnswers
  BY DEF NextPhase
<1>3. /\ due \subseteq PhasesOf(cfg) /\ "compose" \in due
      /\ "floor" \notin due => "floor_a" \notin due /\ "floor_b" \notin due
      /\ ran[run] = AxesOf(cfg) \ due
  BY DEF ScoreInv, Progress
<1>4. /\ ran'[run] = ran[run] \cup ({P} \cap Axes)
      /\ ran' \in [Runs -> SUBSET Axes] /\ \A i \in Runs \ {run} : ran'[i] = ran[i]
  BY <1>1 DEF ScoreInv, Typed
<1>5. P # "compose"
  OBVIOUS
<1> HIDE DEF P
<1>6. ran'[run] = AxesOf(cfg) \ due'
  BY <1>1, <1>2, <1>3, <1>4 DEF AxesOf
<1> QED BY <1>1, <1>2, <1>3, <1>4, <1>5, <1>6 DEF P

(* Axis A, and its part of the floor.                                      *)
LEMMA ScoreAxisAKeeps ==
  ASSUME ScoreInv, ScoreAxisA
  PROVE  ScoreInv'
<1>1. /\ point = "axes" /\ Phase \in {"floor_a", "gtm"} /\ Len(outs.cand) = PromptCount
      /\ ~IsRaised(ResultA) /\ NextPhase
      /\ UNCHANGED <<disk, mishaps, command, point, capture, floor, temps, reports, rc, verdict,
                     reads>>
  BY DEF ScoreAxisA, At
<1>2. \/ /\ Phase = "floor_a" /\ floorScores' = With(floorScores, "gtm", ResultA)
         /\ repeated' = [repeated EXCEPT ![run] = outs.ref = outs.cand]
         /\ UNCHANGED <<results, ran>>
      \/ /\ Phase = "gtm"
         /\ results' = With(results, "gtm", [score |-> ResultA.score, method |-> cfg.axisA])
         /\ ran' = [ran EXCEPT ![run] = ran[run] \cup {"gtm"}]
         /\ UNCHANGED <<floorScores, repeated>>
  BY <1>1 DEF ScoreAxisA
<1>3. run \in Runs /\ cfg' = cfg /\ ran \in [Runs -> SUBSET Axes] /\ repeated \in [Runs -> BOOLEAN]
  BY <1>1, Running DEF ScoreInv, Typed, cfg, command
<1>4. ran' = [ran EXCEPT ![run] = ran[run] \cup ({Phase} \cap Axes)]
  BY <1>2, <1>3 DEF Axes
<1>5. /\ due' \subseteq Phases /\ due' \subseteq PhasesOf(cfg) /\ "compose" \in due'
      /\ "floor" \notin due' => "floor_a" \notin due' /\ "floor_b" \notin due'
      /\ "floor" \in due' <=> "floor" \in due
      /\ ran'[run] = AxesOf(cfg) \ due' /\ ran' \in [Runs -> SUBSET Axes]
      /\ \A i \in Runs \ {run} : ran'[i] = ran[i]
      /\ outs' = NoAnswers
  BY <1>1, <1>4, PhaseEnds
<1>6. repeated' \in [Runs -> BOOLEAN] /\ \A i \in Runs \ {run} : repeated'[i] = repeated[i]
  BY <1>2, <1>3
<1>7. Clean' /\ Reported' /\ Compared'
  BY <1>1, <1>5, <1>6, AxisFrame
<1>8. Typed'
  BY <1>1, <1>5, <1>6, ScoreAssumption DEF ScoreInv, Typed, command, capture, InRun, NoAnswers
<1>9. Seen' BY <1>1 DEF ScoreInv, Seen, Unedited, command, capture
<1>10. Progress'
  <2>1. /\ DOMAIN results = ran[run]
        /\ "rniah" \in DOMAIN results => results["rniah"].confidence \in {"ok", "low"}
        /\ \A use \in reads[run] : use[1] \in ReadBy(AxesOf(cfg))
    BY <1>1 DEF ScoreInv, Progress
  <2>2. DOMAIN results' = ran'[run]
    BY <1>2, <1>3, <2>1 DEF With
  <2>3. "rniah" \in DOMAIN results' => results'["rniah"].confidence \in {"ok", "low"}
    BY <1>2, <2>1 DEF With
  <2> QED BY <1>1, <1>3, <1>5, <2>1, <2>2, <2>3 DEF Progress, command
<1>11. FloorKept'
  <2>1. CASE Phase = "floor_a"
    <3>1. /\ "gtm" \in DOMAIN floorScores' /\ floorScores'["gtm"] = ResultA
          /\ repeated'[run] = (outs.ref = outs.cand)
      BY <1>2, <1>3, <2>1 DEF With
    <3>2. ResultA = GtmResult(outs.ref, outs.cand)
      BY <1>1 DEF ResultA, TrajectoryResult, IsRaised, Raised
    <3>3. ResultA.full = AllMatch(outs.ref, outs.cand)
      BY <3>2 DEF GtmResult
    <3>4. Len(outs.ref) = Len(outs.cand)
      BY <1>1, ScoreAssumption DEF ScoreInv, Typed
    <3>5. ResultA.full => outs.ref = outs.cand
      BY <3>3, <3>4, AllMatchMeansSame DEF ScoreInv, Typed
    <3>6. "floor" \in due
      BY <1>1, <2>1, Running DEF ScoreInv, Progress
    <3> QED BY <1>1, <1>5, <3>1, <3>5, <3>6 DEF FloorKept, command
  <2>2. CASE Phase = "gtm"
    BY <1>1, <1>2, <1>3, <1>5, <2>2 DEF ScoreInv, FloorKept, command
  <2> QED BY <1>2, <2>1, <2>2
<1> QED BY <1>7, <1>8, <1>9, <1>10, <1>11 DEF ScoreInv

(* A step of an axis that only reads.                                      *)
LEMMA ReadKeeps ==
  ASSUME ScoreInv, point = "axes", NEW R \in SUBSET ReadBy(AxesOf(cfg)), Use(R),
         UNCHANGED <<disk, command, point, capture, due, outs, results, floorScores, floor,
                     reports, verdict, ran, repeated>>
  PROVE  ScoreInv'
<1>1. /\ reads' \in [Runs -> SUBSET (Sources \X Int)] /\ Seen'
      /\ \A use \in reads'[run] : use[1] \in ReadBy(AxesOf(cfg))
      /\ \A i \in Runs \ {run} : reads'[i] = reads[i]
  BY UseKeeps
<1>2. Clean' /\ Reported' /\ Compared'
  BY <1>1, AxisFrame
<1>3. Typed' BY <1>1 DEF ScoreInv, Typed, command, capture, InRun
<1>4. Progress' /\ FloorKept'
  BY <1>1 DEF ScoreInv, Progress, FloorKept, command, capture, cfg
<1> QED BY <1>1, <1>2, <1>3, <1>4 DEF ScoreInv

LEMMA KldReads ==
  ASSUME ScoreInv, point = "axes", Phase \in {"floor_b", "kld"}
  PROVE  {"corpus"} \subseteq ReadBy(AxesOf(cfg))
         /\ {"model", "runtime", "corpus"} \subseteq ReadBy(AxesOf(cfg))
BY Running, PhaseReads

LEMMA BuildBaseKeeps ==
  ASSUME ScoreInv, BuildBase
  PROVE  ScoreInv'
<1>1. point = "axes" /\ Phase \in {"floor_b", "kld"}
  BY DEF BuildBase, At
<1> QED BY <1>1, KldReads, ReadKeeps DEF BuildBase

LEMMA WriteSidecarKeeps ==
  ASSUME ScoreInv, WriteSidecar
  PROVE  ScoreInv'
<1>1. point = "axes" /\ Phase \in {"floor_b", "kld"}
  BY DEF WriteSidecar, At
<1> QED BY <1>1, KldReads, ReadKeeps DEF WriteSidecar

(* Axis B, by any engine, and its part of the floor.                       *)
LEMMA KldKeeps ==
  ASSUME ScoreInv, point = "axes", Phase \in {"floor_b", "kld"}, NEW result, Kld(result),
         Use({"model", "runtime", "corpus"}),
         UNCHANGED <<disk, command, point, capture, floor, reports, verdict, repeated>>
  PROVE  ScoreInv'
<1>1. \/ /\ Phase = "floor_b" /\ floorScores' = With(floorScores, "kld", result)
         /\ UNCHANGED <<results, ran>>
      \/ /\ Phase = "kld" /\ results' = With(results, "kld", result)
         /\ ran' = [ran EXCEPT ![run] = ran[run] \cup {"kld"}]
         /\ UNCHANGED floorScores
  BY DEF Kld
<1>2. NextPhase
  BY DEF Kld
<1>3. run \in Runs /\ cfg' = cfg /\ ran \in [Runs -> SUBSET Axes]
  BY Running DEF ScoreInv, Typed, cfg, command
<1>4. ran' = [ran EXCEPT ![run] = ran[run] \cup ({Phase} \cap Axes)]
  BY <1>1, <1>3 DEF Axes
<1>5. /\ due' \subseteq Phases /\ due' \subseteq PhasesOf(cfg) /\ "compose" \in due'
      /\ "floor" \notin due' => "floor_a" \notin due' /\ "floor_b" \notin due'
      /\ "floor" \in due' <=> "floor" \in due
      /\ ran'[run] = AxesOf(cfg) \ due' /\ ran' \in [Runs -> SUBSET Axes]
      /\ \A i \in Runs \ {run} : ran'[i] = ran[i]
      /\ outs' = NoAnswers
  BY <1>2, <1>4, PhaseEnds
<1>6. /\ reads' \in [Runs -> SUBSET (Sources \X Int)] /\ Seen'
      /\ \A use \in reads'[run] : use[1] \in ReadBy(AxesOf(cfg))
      /\ \A i \in Runs \ {run} : reads'[i] = reads[i]
  BY KldReads, UseKeeps
<1>7. Clean' /\ Reported' /\ Compared'
  BY <1>5, <1>6, AxisFrame
<1>8. Typed'
  BY <1>5, <1>6, ScoreAssumption DEF ScoreInv, Typed, command, capture, InRun, NoAnswers
<1>9. Progress'
  <2>1. /\ DOMAIN results = ran[run]
        /\ "rniah" \in DOMAIN results => results["rniah"].confidence \in {"ok", "low"}
    BY DEF ScoreInv, Progress
  <2>2. DOMAIN results' = ran'[run]
    BY <1>1, <1>3, <2>1 DEF With
  <2>3. "rniah" \in DOMAIN results' => results'["rniah"].confidence \in {"ok", "low"}
    BY <1>1, <2>1 DEF With
  <2> QED BY <1>3, <1>5, <1>6, <2>2, <2>3 DEF Progress, command
<1>10. FloorKept'
  <2>1. "gtm" \in DOMAIN floorScores =>
          "gtm" \in DOMAIN floorScores' /\ floorScores'["gtm"] = floorScores["gtm"]
    BY <1>1 DEF With
  <2> QED BY <1>3, <1>5, <2>1 DEF ScoreInv, FloorKept, command
<1> QED BY <1>6, <1>7, <1>8, <1>9, <1>10 DEF ScoreInv

LEMMA ScoreCandidateKeeps ==
  ASSUME ScoreInv, NEW score, ScoreCandidate(score)
  PROVE  ScoreInv'
<1> DEFINE result == [score |-> score, method |-> "llama_perplexity", coverage |-> <<>>]
<1>1. /\ point = "axes" /\ Phase \in {"floor_b", "kld"} /\ Kld(result)
      /\ Use({"model", "runtime", "corpus"})
      /\ UNCHANGED <<disk, command, point, capture, floor, reports, verdict, repeated>>
  BY DEF ScoreCandidate, At
<1> HIDE DEF result
<1> QED BY <1>1, KldKeeps

LEMMA NativeKldKeeps ==
  ASSUME ScoreInv, NEW ref, NEW cand, NativeKld(ref, cand)
  PROVE  ScoreInv'
<1> DEFINE result == [score |-> AggregateTopK(ref, cand).score, method |-> "normalized_top_k",
                      coverage |-> <<AggregateTopK(ref, cand).scored, AggregateTopK(ref, cand).skipped>>]
<1>1. /\ point = "axes" /\ Phase \in {"floor_b", "kld"} /\ Kld(result)
      /\ Use({"model", "runtime", "corpus"})
      /\ UNCHANGED <<disk, command, point, capture, floor, reports, verdict, repeated>>
  BY DEF NativeKld, At
<1> HIDE DEF result
<1> QED BY <1>1, KldKeeps

LEMMA MlxKldKeeps ==
  ASSUME ScoreInv, NEW score, MlxKld(score)
  PROVE  ScoreInv'
<1> DEFINE result == [score |-> score, method |-> "unnamed", coverage |-> <<>>]
<1>1. /\ point = "axes" /\ Phase \in {"floor_b", "kld"} /\ Kld(result)
      /\ Use({"model", "runtime", "corpus"})
      /\ UNCHANGED <<disk, command, point, capture, floor, reports, verdict, repeated>>
  BY DEF MlxKld, At
<1> HIDE DEF result
<1> QED BY <1>1, KldKeeps

(* Axes C and D.                                                           *)
LEMMA ProbeKeeps ==
  ASSUME ScoreInv, point = "axes", Phase \in {"rniah", "plad"}, NextPhase,
         NEW result, results' = With(results, Phase, result),
         Phase = "rniah" => result.confidence \in {"ok", "low"},
         ran' = [ran EXCEPT ![run] = ran[run] \cup {Phase}], Use({"model", "runtime"}),
         UNCHANGED <<disk, command, point, capture, floorScores, floor, reports, verdict,
                     repeated>>
  PROVE  ScoreInv'
<1>1. {"model", "runtime"} \subseteq ReadBy(AxesOf(cfg))
  BY Running, PhaseReads
<1>2. run \in Runs /\ cfg' = cfg /\ ran \in [Runs -> SUBSET Axes]
  BY Running DEF ScoreInv, Typed, cfg, command
<1>3. {Phase} \cap Axes = {Phase}
  BY DEF Axes
<1>4. /\ due' \subseteq Phases /\ due' \subseteq PhasesOf(cfg) /\ "compose" \in due'
      /\ "floor" \notin due' => "floor_a" \notin due' /\ "floor_b" \notin due'
      /\ "floor" \in due' <=> "floor" \in due
      /\ ran'[run] = AxesOf(cfg) \ due' /\ ran' \in [Runs -> SUBSET Axes]
      /\ \A i \in Runs \ {run} : ran'[i] = ran[i]
      /\ outs' = NoAnswers
  BY <1>3, PhaseEnds
<1>5. /\ reads' \in [Runs -> SUBSET (Sources \X Int)] /\ Seen'
      /\ \A use \in reads'[run] : use[1] \in ReadBy(AxesOf(cfg))
      /\ \A i \in Runs \ {run} : reads'[i] = reads[i]
  BY <1>1, UseKeeps
<1>6. Clean' /\ Reported' /\ Compared'
  BY <1>4, <1>5, AxisFrame
<1>7. Typed'
  BY <1>4, <1>5, ScoreAssumption DEF ScoreInv, Typed, command, capture, InRun, NoAnswers
<1>8. Progress'
  <2>1. /\ DOMAIN results = ran[run]
        /\ "rniah" \in DOMAIN results => results["rniah"].confidence \in {"ok", "low"}
    BY DEF ScoreInv, Progress
  <2>2. ran'[run] = ran[run] \cup {Phase}
    BY <1>2
  <2> DEFINE P == Phase
  <2>3. DOMAIN results' = DOMAIN results \cup {P} /\ results'[P] = result
        /\ \A a \in DOMAIN results \ {P} : results'[a] = results[a]
    BY DEF With
  <2>4. P = "rniah" => result.confidence \in {"ok", "low"}
    OBVIOUS
  <2>5. ran'[run] = ran[run] \cup {P}
    BY <2>2
  <2> HIDE DEF P
  <2>6. DOMAIN results' = ran'[run]
    BY <2>1, <2>3, <2>5
  <2>7. "rniah" \in DOMAIN results' => results'["rniah"].confidence \in {"ok", "low"}
    BY <2>1, <2>3, <2>4
  <2> QED BY <1>2, <1>4, <1>5, <2>6, <2>7 DEF Progress, command
<1>9. FloorKept'
  BY <1>2, <1>4 DEF ScoreInv, FloorKept, command
<1> QED BY <1>5, <1>6, <1>7, <1>8, <1>9 DEF ScoreInv

LEMMA RetrieveKeeps ==
  ASSUME ScoreInv, NEW hits, Retrieve(hits)
  PROVE  ScoreInv'
<1> DEFINE result == RniahResult(Cells, (Lengths \X Positions) \ Cells, 1, hits)
<1>1. /\ point = "axes" /\ Phase = "rniah" /\ NextPhase
      /\ results' = With(results, Phase, result)
      /\ ran' = [ran EXCEPT ![run] = ran[run] \cup {Phase}] /\ Use({"model", "runtime"})
      /\ UNCHANGED <<disk, command, point, capture, floorScores, floor, reports, verdict,
                     repeated>>
  BY DEF Retrieve, At
<1>2. result.confidence \in {"ok", "low"}
  BY DEF RniahResult
<1> HIDE DEF result
<1> QED BY <1>1, <1>2, ProbeKeeps

LEMMA PerturbKeeps ==
  ASSUME ScoreInv, NEW applied, NEW drift, Perturb(applied, drift)
  PROVE  ScoreInv'
<1> DEFINE result == PladResult(Perturbations, applied, drift)
<1>1. /\ point = "axes" /\ Phase = "plad" /\ NextPhase
      /\ results' = With(results, Phase, result)
      /\ ran' = [ran EXCEPT ![run] = ran[run] \cup {Phase}] /\ Use({"model", "runtime"})
      /\ UNCHANGED <<disk, command, point, capture, floorScores, floor, reports, verdict,
                     repeated>>
  BY DEF Perturb, At
<1> HIDE DEF result
<1> QED BY <1>1, ProbeKeeps

(* The floor is checked once both its parts are scored.                    *)
LEMMA CheckFloorKeeps ==
  ASSUME ScoreInv, CheckFloor
  PROVE  ScoreInv'
<1>1. /\ point = "axes" /\ Phase = "floor"
      /\ UNCHANGED <<disk, mishaps, command, reports, verdict, history>>
  BY DEF CheckFloor, At
<1>2. CASE ~FloorHolds
  <2>1. Leave(2)
    BY <1>2 DEF CheckFloor
  <2> QED BY <1>1, <2>1, LeaveKeeps DEF Leave
<1>3. CASE FloorHolds
  <2>1. /\ NextPhase /\ floor' = FloorMean /\ floorScores' = <<>>
        /\ UNCHANGED <<point, rc, temps, results, capture>>
    BY <1>3 DEF CheckFloor
  <2>2. run \in Runs /\ cfg' = cfg /\ ran \in [Runs -> SUBSET Axes]
    BY <1>1, Running DEF ScoreInv, Typed, cfg, command
  <2>3. ran' = [ran EXCEPT ![run] = ran[run] \cup ({Phase} \cap Axes)]
    BY <1>1, <2>2 DEF Axes, history
  <2>4. /\ due' \subseteq Phases /\ due' \subseteq PhasesOf(cfg) /\ "compose" \in due'
        /\ "floor" \notin due' => "floor_a" \notin due' /\ "floor_b" \notin due'
        /\ ran'[run] = AxesOf(cfg) \ due' /\ ran' \in [Runs -> SUBSET Axes]
        /\ outs' = NoAnswers
    BY <1>1, <2>1, <2>3, PhaseEnds
  <2>5. Clean' /\ Reported' /\ Compared'
    BY <1>1, <2>1, AxisFrame DEF history
  <2>6. Typed'
    BY <1>1, <2>1, <2>4, ScoreAssumption
    DEF ScoreInv, Typed, command, capture, history, InRun, NoAnswers
  <2>7. Seen' BY <1>1, <2>1 DEF ScoreInv, Seen, Unedited, command, capture, history
  <2>8. Progress'
    BY <1>1, <2>1, <2>2, <2>4 DEF ScoreInv, Progress, command, history
  <2>9. FloorKept'
    <3>1. repeated[run] /\ FloorReached(floor')
      BY <1>1, <1>3, <2>1 DEF ScoreInv, FloorKept, FloorHolds, FloorReached
    <3> QED BY <1>1, <2>2, <3>1 DEF FloorKept, command, history
  <2> QED BY <2>5, <2>6, <2>7, <2>8, <2>9 DEF ScoreInv
<1> QED BY <1>2, <1>3

(* The report is composed when every axis has been run, of what they       *)
(* returned and of the identities that were captured.                      *)
LEMMA ComposeKeeps ==
  ASSUME ScoreInv, Compose
  PROVE  ScoreInv'
<1> DEFINE all        == AllResults
           identities == [r \in DOMAIN watched |-> watched[r].content]
           changed    == Changed(watched)
           body       == JsonReport(cfg, all, CompositeOf(cfg, all, floor), identities, changed)
           axes       == AxesOf(cfg)
<1>1. /\ point = "axes" /\ Phase = "compose" /\ point' = "write"
      /\ reports' = [reports EXCEPT ![run] = [state |-> "open", body |-> body]]
      /\ UNCHANGED <<disk, mishaps, command, capture, scoring, temps, rc, verdict, history>>
  BY DEF Compose, At
<1>2. run \in Runs /\ cfg \in Configurations /\ due = {"compose"} /\ cfg = session[run]
  BY <1>1, Running DEF cfg
<1>3. /\ ran[run] = AxesOf(cfg) /\ DOMAIN results = AxesOf(cfg)
      /\ "rniah" \in DOMAIN results => results["rniah"].confidence \in {"ok", "low"}
      /\ \A use \in reads[run] : use[1] \in ReadBy(AxesOf(cfg))
  BY <1>1, <1>2 DEF ScoreInv, Progress, AxesOf, Axes
<1>4. cfg.floor => repeated[run] /\ FloorReached(floor)
  BY <1>1, <1>2 DEF ScoreInv, FloorKept
<1>5. AxesOf(cfg) \cap Skipped(cfg) = {} /\ AxesOf(cfg) \subseteq Axes
  BY DEF AxesOf, PhasesOf, Skipped, Axes
<1>6. DOMAIN all = AxesOf(cfg) \cup Skipped(cfg) /\ \A a \in AxesOf(cfg) : all[a] = results[a]
  BY <1>3, <1>5 DEF AllResults
<1> HIDE DEF all, identities, changed
<1>7. /\ body.cfg = cfg /\ body.floor = floor
      /\ body.identities = identities /\ body.changed = changed
      /\ Accounted(body, AxesOf(cfg))
  <2>1. axes \cap Skipped(cfg) = {} /\ axes \subseteq Axes /\ DOMAIN results = axes
    BY <1>3, <1>5
  <2>2. DOMAIN all = axes \cup Skipped(cfg)
    BY <1>6
  <2>3. "rniah" \in axes => all["rniah"].confidence \in {"ok", "low"}
    BY <1>3, <1>6
  <2> HIDE DEF axes
  <2>4. LET b == JsonReport(cfg, all, CompositeOf(cfg, all, floor), identities, changed) IN
        /\ b.cfg = cfg /\ b.floor = floor
        /\ b.identities = identities /\ b.changed = changed
        /\ Accounted(b, axes)
    BY <1>2, <2>1, <2>2, <2>3, ReportFacts
  <2> QED BY <2>4 DEF axes
<1> HIDE DEF body
<1>8. ASSUME NEW use \in reads[run], use[1] \in DOMAIN identities \ changed
      PROVE  use[2] = identities[use[1]]
  <2>1. use[1] \in DOMAIN watched /\ disk[use[1]].stamp = watched[use[1]].stamp
    BY <1>8 DEF identities, changed, Changed
  <2> QED BY <1>1, <2>1 DEF ScoreInv, Seen, Unedited, identities
<1>10. Reported'
  <2>1. /\ reports'[run] = [state |-> "open", body |-> body]
        /\ \A i \in Runs \ {run} : reports'[i] = reports[i]
    BY <1>1, <1>2 DEF ScoreInv, Typed
  <2>2. /\ ran' = ran /\ reads' = reads /\ repeated' = repeated /\ session' = session
        /\ run' = run
    BY <1>1 DEF history, command
  <2>3. ASSUME NEW i \in Runs, i # run
        PROVE  \/ reports'[i] = NoReport
               \/ /\ reports'[i] = [state |-> reports'[i].state, body |-> reports'[i].body]
                  /\ TrueOf(reports'[i].body, session[i], repeated[i], ran[i], reads[i])
    BY <2>1, <2>2, <2>3 DEF ScoreInv, Reported
  <2>4. /\ reports'[run] = [state |-> reports'[run].state, body |-> reports'[run].body]
        /\ reports'[run].body = body
    BY <2>1
  <2>5. TrueOf(reports'[run].body, session[run], repeated[run], ran[run], reads[run])
    BY <1>2, <1>3, <1>4, <1>7, <1>8, <2>2, <2>4 DEF TrueOf
  <2> QED BY <2>2, <2>3, <2>4, <2>5 DEF Reported
<1>11. Typed'
  BY <1>1, <1>2 DEF ScoreInv, Typed, command, capture, scoring, history, Points, InRun
<1>12. Clean'
  <2>1. /\ reports'[run] # NoReport
        /\ \A i \in Runs \ {run} : reports'[i] = reports[i]
    BY <1>1, <1>2 DEF ScoreInv, Typed, NoReport
  <2> QED BY <1>1, <1>2, <2>1 DEF ScoreInv, Clean, Typed, command, scoring, history, Runs
<1>13. Seen' /\ Progress' /\ FloorKept' /\ Compared'
  BY <1>1 DEF ScoreInv, Seen, Unedited, Progress, FloorKept, Compared, command, capture
<1> QED BY <1>10, <1>11, <1>12, <1>13 DEF ScoreInv

LEMMA WriteKeeps ==
  ASSUME ScoreInv, Write
  PROVE  ScoreInv'
<1> USE DEF ScoreInv, Write, command, capture, scoring, history, cfg
<1>1. run \in Runs /\ DOMAIN reports = Runs
  BY DEF Typed, InRun
<1>2. Typed' BY DEF Typed, Points, InRun
<1>3. Clean'
  <2>1. \A i \in Runs : i # run => reports'[i] = reports[i]
    BY <1>1
  <2> QED BY <1>1, <2>1 DEF Clean, Typed, Runs
<1>4. Seen' /\ Progress' /\ FloorKept' /\ Compared'
  BY DEF Seen, Unedited, Progress, FloorKept, Compared
<1>5. Reported'
  <2> SUFFICES ASSUME NEW i \in Runs
               PROVE  \/ reports'[i] = NoReport
                      \/ /\ reports'[i] = [state |-> reports'[i].state, body |-> reports'[i].body]
                         /\ TrueOf(reports'[i].body, session[i], repeated[i], ran[i], reads[i])
    BY DEF Reported
  <2>1. CASE i # run
    BY <1>1, <2>1 DEF Reported
  <2>2. CASE i = run
    <3>1. reports'[run] = [reports[run] EXCEPT !.state = "written"]
      BY <1>1
    <3>2. /\ reports[run] = [state |-> reports[run].state, body |-> reports[run].body]
          /\ TrueOf(reports[run].body, session[run], repeated[run], ran[run], reads[run])
      BY <1>1 DEF Clean, Reported
    <3>3. reports'[run] = [state |-> "written", body |-> reports[run].body]
      BY <3>1, <3>2
    <3> QED BY <2>2, <3>2, <3>3
  <2> QED BY <2>1, <2>2
<1> QED BY <1>2, <1>3, <1>4, <1>5

LEMMA CompareKeeps ==
  ASSUME ScoreInv, NEW override \in BOOLEAN, Compare(override)
  PROVE  ScoreInv'
<1> USE DEF ScoreInv, Compare, command, capture, scoring, history, cfg
<1>1. Typed' BY DEF Typed, Points, InRun
<1>2. Clean' BY DEF Clean
<1>3. Seen' /\ Progress' /\ FloorKept' BY DEF Seen, Unedited, Progress, FloorKept
<1>4. Reported' BY ReportsStay
<1>5. Compared' BY DEF Compared
<1> QED BY <1>1, <1>2, <1>3, <1>4, <1>5

LEMMA ScoreStep == ScoreInv /\ [ScoreNext]_scoreVars => ScoreInv'
<1> SUFFICES ASSUME ScoreInv, [ScoreNext]_scoreVars PROVE ScoreInv'
  OBVIOUS
<1>1. CASE \E r \in Editable : Edit(r)
  BY <1>1, EditKeeps
<1>2. CASE Begin \/ Resolve \/ CaptureNext \/ CaptureDone \/ Load
  BY <1>2, BeginKeeps, ResolveKeeps, CaptureNextKeeps, CaptureDoneKeeps, LoadKeeps
<1>3. CASE \E answer \in Answers : Decode(answer)
  BY <1>3, DecodeKeeps
<1>4. CASE ScoreAxisA \/ BuildBase \/ WriteSidecar
  BY <1>4, ScoreAxisAKeeps, BuildBaseKeeps, WriteSidecarKeeps
<1>5. CASE \E score \in KldScores : ScoreCandidate(score) \/ MlxKld(score)
  BY <1>5, ScoreCandidateKeeps, MlxKldKeeps
<1>6. CASE \E ref, cand \in Responses : NativeKld(ref, cand)
  BY <1>6, NativeKldKeeps
<1>7. CASE \E hits \in [Cells -> [base : 0..1, cand : 0..1]] : Retrieve(hits)
  BY <1>7, RetrieveKeeps
<1>8. CASE \E applied \in SUBSET ((1..PromptCount) \X Perturbations) :
             \E drift \in [applied -> [ref : {0}, cand : 0..1]] : Perturb(applied, drift)
  BY <1>8, PerturbKeeps
<1>9. CASE CheckFloor \/ Compose \/ Write
  BY <1>9, CheckFloorKeeps, ComposeKeeps, WriteKeeps
<1>10. CASE WriteHtml \/ Fail \/ FailInSidecar
  BY <1>10, LeaveKeeps DEF WriteHtml, Fail, FailInSidecar, Leave, At
<1>11. CASE \E override \in BOOLEAN : Compare(override)
  BY <1>11, CompareKeeps
<1>12. CASE Judged \/ UNCHANGED scoreVars
  <2>1. UNCHANGED <<disk, point, due, outs, results, floorScores, floor, reports, verdict, reads,
                    ran, repeated, session, run, todo, watched>>
    BY <1>12 DEF Judged, scoreVars, command, capture, scoring, history
  <2>2. Typed' /\ Clean'
    BY <2>1 DEF ScoreInv, Typed, Clean, cfg
  <2>3. Seen' /\ Progress' /\ FloorKept' /\ Compared'
    BY <2>1 DEF ScoreInv, Seen, Unedited, Progress, FloorKept, Compared, cfg
  <2>4. Reported'
    BY <2>1, ReportsStay DEF ScoreInv
  <2> QED BY <2>2, <2>3, <2>4 DEF ScoreInv
<1> QED
  BY <1>1, <1>2, <1>3, <1>4, <1>5, <1>6, <1>7, <1>8, <1>9, <1>10, <1>11, <1>12 DEF ScoreNext

LEMMA ScoreInvariant == ScoreSpec => []ScoreInv
BY Started, ScoreStep, PTL DEF ScoreSpec

-----------------------------------------------------------------------------
(* What the comparison of two reports shows.                               *)

Names ==
  Axes \cup Inputs \cup Settings
    \cup {"model", "locator", "runtime", "backend", "candidate_kv", "scenario", "composite_axes",
          "composite_method", "metric_context", "metric_methods", "measurements", "resolved",
          "sha256", "artifacts", "inputs", "generation"}

(* A path is covered by its first segments only.                           *)
LEMMA CoversMeans ==
  ASSUME NEW d \in Seq(Names), NEW p \in Seq(Names), Covers(d, p)
  PROVE  Len(d) <= Len(p) /\ \A i \in 1..Len(d) : d[i] = p[i]
<1>1. \A i \in 1..Len(d) : SubSeq(d, 1, Len(d))[i] = d[i] /\ SubSeq(p, 1, Len(d))[i] = p[i]
  BY DEF Covers, IsPrefix
<1> QED BY <1>1 DEF Covers, IsPrefix

(* No declaration of the plan reaches what a report was asked for.         *)
LEMMA DeclarationFacts ==
  ASSUME NEW left, NEW right, Active(left) \subseteq Axes, Active(right) \subseteq Axes,
         NEW d \in Declared(Plan(left, right))
  PROVE  /\ d.by \in Seq(Names) /\ Len(d.by) >= 1
         /\ Len(d.by) = 1 => d.by[1] = "measurements"
         /\ d.by[1] = "scenario" => Len(d.by) >= 2 /\ d.by[2] # "generation"
<1> DEFINE axes == Active(left) \cup Active(right)
           plan == Plan(left, right)
           some == {<<"runtime", "candidate_kv">>, <<"model", "locator">>,
                    <<"runtime", "backend">>, <<"scenario", "composite_axes">>,
                    <<"scenario", "composite_method">>, <<"scenario", "metric_context">>,
                    <<"measurements">>, <<"resolved", "model", "sha256">>,
                    <<"resolved", "runtime", "artifacts">>}
                     \cup {<<"scenario", "metric_methods", a>> : a \in axes}
                     \cup {<<"resolved", "inputs", r, "sha256">> : r \in InputsOf(axes)}
<1>1. axes \subseteq Names /\ InputsOf(axes) \subseteq Names
  BY DEF Names, InputsOf, Inputs
<1>2. d.by \in some
  <2>1. PICK r \in DOMAIN plan : d \in {[by |-> e, role |-> r] : e \in plan[r]}
    BY DEF Declared
  <2>2. d.by \in plan[r]
    BY <2>1
  <2>3. /\ DOMAIN plan = {"vary", "control", "block", "waiver"}
        /\ plan["vary"] = {<<"runtime", "candidate_kv">>} /\ plan["block"] = {}
        /\ plan["waiver"] = {<<"model", "locator">>}
    BY DEF Plan
  <2>4. plan["control"] \subseteq some
    BY DEF Plan
  <2>5. <<"runtime", "candidate_kv">> \in some /\ <<"model", "locator">> \in some
    OBVIOUS
  <2> HIDE DEF plan, some
  <2> QED BY <2>1, <2>2, <2>3, <2>4, <2>5
<1> HIDE DEF axes
<1> DEFINE Fine == /\ d.by \in Seq(Names) /\ Len(d.by) >= 1
                   /\ Len(d.by) = 1 => d.by[1] = "measurements"
                   /\ d.by[1] = "scenario" => Len(d.by) >= 2 /\ d.by[2] # "generation"
<1>3. \/ d.by \in {<<"runtime", "candidate_kv">>, <<"model", "locator">>, <<"runtime", "backend">>}
      \/ d.by \in {<<"scenario", "composite_axes">>, <<"scenario", "composite_method">>,
                   <<"scenario", "metric_context">>}
      \/ d.by = <<"measurements">>
      \/ d.by \in {<<"resolved", "model", "sha256">>, <<"resolved", "runtime", "artifacts">>}
      \/ \E a \in axes : d.by = <<"scenario", "metric_methods", a>>
      \/ \E r \in InputsOf(axes) : d.by = <<"resolved", "inputs", r, "sha256">>
  BY <1>2
<1>4. ASSUME NEW x \in Names, NEW y \in Names, d.by = <<x, y>>, x = "scenario" => y # "generation"
      PROVE  Fine
  BY <1>4
<1>5. \A x \in {"runtime", "candidate_kv", "model", "locator", "backend", "scenario",
                "composite_axes", "composite_method", "metric_context"} : x \in Names
  BY DEF Names
<1>6. ASSUME d.by = <<"measurements">> PROVE Fine
  BY <1>6 DEF Names
<1>7. ASSUME d.by \in {<<"resolved", "model", "sha256">>, <<"resolved", "runtime", "artifacts">>}
      PROVE  Fine
  <2>1. \A x \in {"resolved", "model", "sha256", "runtime", "artifacts"} : x \in Names
    BY DEF Names
  <2>2. PICK x \in Names, y \in Names : d.by = <<"resolved", x, y>>
    BY <1>7, <2>1
  <2> QED BY <2>1, <2>2
<1>8. ASSUME NEW a \in axes, d.by = <<"scenario", "metric_methods", a>>
      PROVE  Fine
  BY <1>1, <1>8 DEF Names
<1>9. ASSUME NEW r \in InputsOf(axes), d.by = <<"resolved", "inputs", r, "sha256">>
      PROVE  Fine
  BY <1>1, <1>9 DEF Names
<1>10. ASSUME d.by \in {<<"runtime", "candidate_kv">>, <<"model", "locator">>,
                        <<"runtime", "backend">>, <<"scenario", "composite_axes">>,
                        <<"scenario", "composite_method">>, <<"scenario", "metric_context">>}
       PROVE  Fine
  <2>1. PICK x \in Names, y \in Names : d.by = <<x, y>> /\ (x = "scenario" => y # "generation")
    BY <1>5, <1>10
  <2> QED BY <1>4, <2>1
<1>11. Fine
  <2> HIDE DEF Fine
  <2> QED BY <1>3, <1>6, <1>7, <1>8, <1>9, <1>10
<1> QED BY <1>11

(* Reports without an issue, dimension by dimension.                       *)
LEMMA ControlledAlike ==
  ASSUME NEW left, NEW right, ComparePair(left, right).compatible,
         NEW d \in Plan(left, right).control
  PROVE  /\ \E p \in LeafPaths(left) : Covers(d, p)
         /\ \E p \in LeafPaths(right) : Covers(d, p)
         /\ \A p \in LeafPaths(left) \cup LeafPaths(right) : Covers(d, p) =>
              p \in LeafPaths(left) \cap LeafPaths(right) /\ Leaf(left, p) = Leaf(right, p)
<1> DEFINE L    == RunRecordOf(left)
           R    == RunRecordOf(right)
           plan == Plan(left, right)
           it   == [by |-> d, role |-> "control"]
<1>1. DeclaredIssues(L, R, plan) = {}
  BY DEF ComparePair, CompareRuns
<1>2. it \in Declared(plan) /\ it.by = d /\ it.role = "control"
  <2>1. "control" \in DOMAIN plan
    BY DEF Plan
  <2> HIDE DEF plan
  <2> QED BY <2>1 DEF Declared, plan
<1> HIDE DEF it, plan, L, R
<1>3. DeclaredIssue(L, R, it) = {}
  BY <1>1, <1>2 DEF DeclaredIssues
<1>4. ~Missing(L, d) /\ ~Missing(R, d) /\ Dimension(L, d) = Dimension(R, d)
  BY <1>2, <1>3 DEF DeclaredIssue
<1>5. L.leaves = [p \in LeafPaths(left) |-> Leaf(left, p)]
      /\ R.leaves = [p \in LeafPaths(right) |-> Leaf(right, p)]
  BY DEF L, R, RunRecordOf, Leaves
<1> DEFINE ofL == {p \in LeafPaths(left) : Covers(d, p)}
           ofR == {p \in LeafPaths(right) : Covers(d, p)}
<1>6. /\ Dimension(L, d) = [p \in ofL |-> Leaf(left, p)]
      /\ Dimension(R, d) = [p \in ofR |-> Leaf(right, p)]
  BY <1>5 DEF Dimension, Restrict
<1>7. ofL # {} /\ ofR # {}
  BY <1>4, <1>6 DEF Missing
<1>8. ofL = ofR
  BY <1>4, <1>6
<1>9. \A p \in ofL : Leaf(left, p) = Leaf(right, p)
  BY <1>4, <1>6, <1>8
<1> QED BY <1>7, <1>8, <1>9

(* A leaf that no declaration reaches is equal.                            *)
LEMMA SettingsAlike ==
  ASSUME NEW left, NEW right, Active(left) \subseteq Axes, Active(right) \subseteq Axes,
         ComparePair(left, right).compatible, NEW k \in Settings
  PROVE  left.cfg[k] = right.cfg[k]
<1> DEFINE L    == RunRecordOf(left)
           R    == RunRecordOf(right)
           plan == Plan(left, right)
           p    == <<"scenario", "generation", k>>
<1>1. /\ L.leaves = [q \in LeafPaths(left) |-> Leaf(left, q)]
      /\ R.leaves = [q \in LeafPaths(right) |-> Leaf(right, q)]
      /\ ~Ambiguous(L, R)
  BY DEF RunRecordOf, Leaves, Ambiguous
<1>2. p \in LeafPaths(left) /\ p \in LeafPaths(right)
  BY DEF LeafPaths
<1>3. LeafIssues(L, R, plan) = {}
  BY DEF ComparePair, CompareRuns
<1>4. p \in Seq(Names) /\ Len(p) = 3 /\ p[1] = "scenario" /\ p[2] = "generation" /\ p[3] = k
  BY DEF Names
<1>5. Leaf(left, p) = left.cfg[k] /\ Leaf(right, p) = right.cfg[k]
  BY <1>4 DEF Leaf
<1> HIDE DEF p, L, R
<1>6. Relevant(p)
  BY <1>4 DEF Relevant
<1>7. {d \in Declared(plan) : Covers(d.by, p)} = {}
  <2> SUFFICES ASSUME NEW d \in Declared(plan), Covers(d.by, p) PROVE FALSE
    OBVIOUS
  <2>1. d.by \in Seq(Names) /\ Len(d.by) >= 1
        /\ (Len(d.by) = 1 => d.by[1] = "measurements")
        /\ (d.by[1] = "scenario" => Len(d.by) >= 2 /\ d.by[2] # "generation")
    BY DeclarationFacts
  <2>2. Len(d.by) \in Nat /\ \A i \in 1..Len(d.by) : d.by[i] = p[i]
    BY <1>4, <2>1, CoversMeans
  <2> QED BY <1>4, <2>1, <2>2
<1>8. Inherited(plan, p) = {}
  <2> SUFFICES ASSUME NEW d \in Declared(plan), NEW name \in {"model", "runtime", "scenario"},
                      d.by = <<name>>
               PROVE  FALSE
    BY DEF Inherited
  <2>1. Len(d.by) = 1 => d.by[1] = "measurements"
    BY DeclarationFacts
  <2> QED BY <2>1
<1>9. RoleForPath(plan, p) = Ungoverned
  BY <1>7, <1>8 DEF RoleForPath
<1>10. p \notin Differences(L, R)
  <2>1. LeafIssue(L, R, plan, p) # {}
    BY <1>9 DEF LeafIssue
  <2> QED BY <1>3, <2>1 DEF LeafIssues
<1>11. p \in DOMAIN L.leaves /\ p \in DOMAIN R.leaves
  BY <1>1, <1>2
<1>12. L.leaves[p] = R.leaves[p]
  BY <1>1, <1>6, <1>10, <1>11 DEF Differences
<1> QED BY <1>1, <1>2, <1>5, <1>12

(* The leaves of a record, and what those of the resolved inputs hold.     *)
LEMMA PathFacts ==
  ASSUME NEW report, Active(report) \subseteq Axes, NEW p \in LeafPaths(report)
  PROVE  /\ p \in Seq(Names)
         /\ p[1] = "resolved" =>
              /\ p[2] \in {"model", "runtime", "inputs"}
              /\ p[2] = "model" => /\ "model" \in DOMAIN report.identities
                                   /\ Leaf(report, p) = report.identities["model"]
              /\ p[2] = "runtime" => /\ "runtime" \in DOMAIN report.identities
                                     /\ Leaf(report, p).build = report.identities["runtime"]
              /\ p[2] = "inputs" => /\ p[3] \in DOMAIN report.identities
                                    /\ Leaf(report, p) = report.identities[p[3]]
<1> DEFINE ids  == DOMAIN report.identities
           Fine == /\ p \in Seq(Names)
                   /\ p[1] = "resolved" =>
                        /\ p[2] \in {"model", "runtime", "inputs"}
                        /\ p[2] = "model" => /\ "model" \in DOMAIN report.identities
                                             /\ Leaf(report, p) = report.identities["model"]
                        /\ p[2] = "runtime" =>
                             /\ "runtime" \in DOMAIN report.identities
                             /\ Leaf(report, p).build = report.identities["runtime"]
                        /\ p[2] = "inputs" => /\ p[3] \in DOMAIN report.identities
                                              /\ Leaf(report, p) = report.identities[p[3]]
<1>1. Measured(report) \subseteq Names /\ Active(report) \subseteq Names
      /\ Settings \subseteq Names /\ Inputs \subseteq Names
  BY DEF Measured, Names
<1>2. \/ \E x \in Names, y \in Names : p = <<x, y>> /\ x # "resolved"
      \/ p = <<"measurements">>
      \/ \E x \in Names, y \in Names : p = <<"scenario", x, y>>
      \/ p = <<"resolved", "model", "sha256">> /\ "model" \in ids
      \/ p = <<"resolved", "runtime", "artifacts">> /\ "runtime" \in ids
      \/ \E r \in ids \cap Inputs : p = <<"resolved", "inputs", r, "sha256">>
  <2>1. \A x \in {"model", "locator", "runtime", "backend", "candidate_kv", "scenario",
                  "composite_axes", "composite_method", "generation", "metric_methods",
                  "metric_context"} : x \in Names
    BY DEF Names
  <2> HIDE DEF Fine
  <2> QED BY <1>1, <2>1 DEF LeafPaths
<1>3. ASSUME NEW x \in Names, NEW y \in Names, p = <<x, y>>, x # "resolved" PROVE Fine
  BY <1>3
<1>4. ASSUME p = <<"measurements">> PROVE Fine
  BY <1>4 DEF Names
<1>5. ASSUME NEW x \in Names, NEW y \in Names, p = <<"scenario", x, y>> PROVE Fine
  BY <1>5 DEF Names
<1>6. ASSUME p = <<"resolved", "model", "sha256">>, "model" \in ids PROVE Fine
  <2>1. /\ p \in Seq(Names) /\ p[1] = "resolved" /\ p[2] = "model"
    BY <1>6 DEF Names
  <2>2. Leaf(report, p) = report.identities["model"]
    BY <1>6 DEF Leaf
  <2> QED BY <1>6, <2>1, <2>2
<1>7. ASSUME p = <<"resolved", "runtime", "artifacts">>, "runtime" \in ids PROVE Fine
  <2>1. /\ p \in Seq(Names) /\ p[1] = "resolved" /\ p[2] = "runtime"
    BY <1>7 DEF Names
  <2>2. Leaf(report, p).build = report.identities["runtime"]
    BY <1>7 DEF Leaf
  <2> QED BY <1>7, <2>1, <2>2
<1>8. ASSUME NEW r \in ids \cap Inputs, p = <<"resolved", "inputs", r, "sha256">> PROVE Fine
  <2>1. /\ p \in Seq(Names) /\ Len(p) = 4 /\ p[1] = "resolved" /\ p[2] = "inputs" /\ p[3] = r
    BY <1>1, <1>8 DEF Names
  <2>2. p # <<"measurements">>
    BY <2>1
  <2>4. Leaf(report, p) = report.identities[p[3]]
    BY <2>1, <2>2 DEF Leaf
  <2> QED BY <1>8, <2>1, <2>4
<1>9. Fine
  <2> HIDE DEF Fine
  <2> QED BY <1>2, <1>3, <1>4, <1>5, <1>6, <1>7, <1>8
<1> QED BY <1>9

(* Two reports without an issue ran the same axes on the same inputs, model*)
(* and runtime, which were asked for alike.                                *)
LEMMA PairFacts ==
  ASSUME NEW left, NEW right, Active(left) \subseteq Axes, Active(right) \subseteq Axes,
         ComparePair(left, right).compatible
  PROVE  /\ CompleteReport(left) /\ CompleteReport(right)
         /\ Active(left) = Active(right)
         /\ left.cfg.backend = right.cfg.backend
         /\ \A r \in ReadBy(Active(left)) :
              /\ r \in DOMAIN left.identities /\ r \in DOMAIN right.identities
              /\ left.identities[r] = right.identities[r]
<1> DEFINE plan == Plan(left, right)
           axes == Active(left) \cup Active(right)
<1>1. CompleteReport(left) /\ CompleteReport(right)
  BY DEF ComparePair, CompareRuns, StatusIssues, RunRecordOf
<1>2. /\ <<"measurements">> \in plan.control /\ <<"runtime", "backend">> \in plan.control
      /\ <<"resolved", "model", "sha256">> \in plan.control
      /\ <<"resolved", "runtime", "artifacts">> \in plan.control
      /\ \A r \in InputsOf(axes) : <<"resolved", "inputs", r, "sha256">> \in plan.control
  BY DEF Plan
<1>3. \A p \in Seq(Names) : Covers(p, p)
  BY DEF Covers, IsPrefix
<1>4. Active(left) = Active(right)
  <2> DEFINE p == <<"measurements">>
  <2>1. p \in LeafPaths(left) /\ Leaf(left, p) = Active(left) /\ Leaf(right, p) = Active(right)
    BY DEF LeafPaths, Leaf
  <2>2. p \in Seq(Names) /\ p \in plan.control
    BY <1>2 DEF Names
  <2> HIDE DEF p, plan
  <2> QED BY <1>3, <2>1, <2>2, ControlledAlike DEF plan
<1>5. left.cfg.backend = right.cfg.backend
  <2> DEFINE p == <<"runtime", "backend">>
  <2>1. /\ p \in LeafPaths(left)
        /\ Leaf(left, p) = left.cfg.backend /\ Leaf(right, p) = right.cfg.backend
    BY DEF LeafPaths, Leaf
  <2>2. p \in Seq(Names) /\ p \in plan.control
    BY <1>2 DEF Names
  <2> HIDE DEF p, plan
  <2> QED BY <1>3, <2>1, <2>2, ControlledAlike DEF plan
<1>6. \A r \in Inputs \cup {"model", "runtime"} : r \in Names
  BY DEF Names
<1>7. ASSUME NEW d \in Seq(Names), d \in plan.control, Len(d) >= 3, d[1] = "resolved"
      PROVE  \E p \in LeafPaths(left) \cap LeafPaths(right) :
               Leaf(left, p) = Leaf(right, p)
               /\ p[1] = "resolved" /\ p[2] = d[2] /\ p[3] = d[3]
  <2>1. PICK p \in LeafPaths(left) : Covers(d, p)
    BY <1>7, ControlledAlike
  <2>2. p \in LeafPaths(left) \cap LeafPaths(right) /\ Leaf(left, p) = Leaf(right, p)
    BY <1>7, <2>1, ControlledAlike
  <2>3. p \in Seq(Names)
    BY <2>1, PathFacts
  <2>4. Len(d) <= Len(p) /\ \A i \in 1..Len(d) : d[i] = p[i]
    BY <1>7, <2>1, <2>3, CoversMeans
  <2>5. p[1] = "resolved" /\ p[2] = d[2] /\ p[3] = d[3]
    BY <1>7, <2>4
  <2> QED BY <2>2, <2>5
<1>8. /\ "model" \in DOMAIN left.identities /\ "model" \in DOMAIN right.identities
      /\ left.identities["model"] = right.identities["model"]
  <2> DEFINE d == <<"resolved", "model", "sha256">>
  <2>1. /\ d \in Seq(Names) /\ d \in plan.control /\ Len(d) = 3 /\ d[1] = "resolved"
        /\ d[2] = "model"
    BY <1>2 DEF Names
  <2> HIDE DEF d, plan
  <2>2. PICK p \in LeafPaths(left) \cap LeafPaths(right) :
               Leaf(left, p) = Leaf(right, p)
               /\ p[1] = "resolved" /\ p[2] = d[2] /\ p[3] = d[3]
    BY <1>7, <2>1
  <2>3. p[1] = "resolved" /\ p[2] = "model"
    BY <2>1, <2>2
  <2> QED BY <2>2, <2>3, PathFacts
<1>9. /\ "runtime" \in DOMAIN left.identities /\ "runtime" \in DOMAIN right.identities
      /\ left.identities["runtime"] = right.identities["runtime"]
  <2> DEFINE d == <<"resolved", "runtime", "artifacts">>
  <2>1. /\ d \in Seq(Names) /\ d \in plan.control /\ Len(d) = 3 /\ d[1] = "resolved"
        /\ d[2] = "runtime"
    BY <1>2 DEF Names
  <2> HIDE DEF d, plan
  <2>2. PICK p \in LeafPaths(left) \cap LeafPaths(right) :
               Leaf(left, p) = Leaf(right, p)
               /\ p[1] = "resolved" /\ p[2] = d[2] /\ p[3] = d[3]
    BY <1>7, <2>1
  <2>3. p[1] = "resolved" /\ p[2] = "runtime"
    BY <2>1, <2>2
  <2>4. /\ "runtime" \in DOMAIN left.identities /\ "runtime" \in DOMAIN right.identities
        /\ Leaf(left, p).build = left.identities["runtime"]
        /\ Leaf(right, p).build = right.identities["runtime"]
    BY <2>2, <2>3, PathFacts
  <2> QED BY <2>2, <2>4
<1>10. ASSUME NEW r \in InputsOf(axes)
       PROVE  /\ r \in DOMAIN left.identities /\ r \in DOMAIN right.identities
              /\ left.identities[r] = right.identities[r]
  <2> DEFINE d == <<"resolved", "inputs", r, "sha256">>
  <2>1. r \in Names
    BY <1>6 DEF InputsOf, Inputs
  <2>2. /\ d \in Seq(Names) /\ d \in plan.control /\ Len(d) = 4 /\ d[1] = "resolved"
        /\ d[2] = "inputs" /\ d[3] = r
    BY <1>2, <2>1 DEF Names
  <2> HIDE DEF d, plan
  <2>3. PICK p \in LeafPaths(left) \cap LeafPaths(right) :
               Leaf(left, p) = Leaf(right, p)
               /\ p[1] = "resolved" /\ p[2] = d[2] /\ p[3] = d[3]
    BY <1>7, <2>2
  <2>4. p[1] = "resolved" /\ p[2] = "inputs" /\ p[3] = r
    BY <2>2, <2>3
  <2> QED BY <2>3, <2>4, PathFacts
<1>11. ReadBy(Active(left)) = InputsOf(axes) \cup {"model", "runtime"}
  BY <1>4 DEF ReadBy
<1> QED BY <1>1, <1>4, <1>5, <1>8, <1>9, <1>10, <1>11

-----------------------------------------------------------------------------
LEMMA WrittenIsTrue ==
  ASSUME ScoreInv, NEW i \in Runs, reports[i].state = "written"
  PROVE  TrueOf(reports[i].body, session[i], repeated[i], ran[i], reads[i])
<1>1. reports[i] # NoReport
  BY DEF NoReport
<1> QED BY <1>1 DEF ScoreInv, Reported

LEMMA EarnedIfInv == ScoreInv => FloorEarned
<1> SUFFICES ASSUME ScoreInv, NEW i \in Runs, reports[i].state = "written",
                    reports[i].body.cfg.floor
             PROVE  repeated[i] /\ AtLeastHalves(reports[i].body.floor, 2 * MinFloor)
  BY DEF FloorEarned, Written
<1> QED BY WrittenIsTrue DEF TrueOf, FloorReached

LEMMA AccountedIfInv == ScoreInv => CompositeAccounted
<1> SUFFICES ASSUME ScoreInv, NEW i \in Runs, reports[i].state = "written"
             PROVE  LET body == reports[i].body IN
                    /\ Contributors(body) =
                         {a \in ran[i] : a = "rniah" => body.axes[a].confidence = "ok"}
                    /\ body.composite =
                         HarmonicMean([a \in Contributors(body) |->
                                         CHOOSE v \in body.axes[a].score : TRUE])
  BY DEF CompositeAccounted, Written
<1>1. Accounted(reports[i].body, ran[i])
  BY WrittenIsTrue DEF TrueOf
<1> QED BY <1>1 DEF Accounted

AlikeButCache(c, d) == [c EXCEPT !.cand = d.cand, !.cached = TRUE] = [d EXCEPT !.cached = TRUE]

(* The configurations of two reports that ran the same axes, as asked for  *)
(* alike, differ in the candidate's cache only.                            *)
LEMMA SameConfiguration ==
  ASSUME NEW c \in Configurations, NEW d \in Configurations, AxesOf(c) = AxesOf(d),
         c.backend = d.backend, ~c.flags, ~d.flags, \A k \in Settings : c[k] = d[k]
  PROVE  AlikeButCache(c, d)
<1>1. c.axisA = d.axisA /\ c.floor = d.floor /\ c.rniah = d.rniah /\ c.plad = d.plad
  BY DEF Settings
<1>2. c.flags = d.flags
  BY DEF Configurations
<1>3. ("gtm" \in AxesOf(c) <=> ~c.skipA) /\ ("kld" \in AxesOf(c) <=> ~c.skipB)
      /\ ("gtm" \in AxesOf(d) <=> ~d.skipA) /\ ("kld" \in AxesOf(d) <=> ~d.skipB)
  BY DEF AxesOf, PhasesOf, Axes
<1>4. c.skipA = d.skipA /\ c.skipB = d.skipB
  BY <1>3 DEF Configurations
<1> QED BY <1>1, <1>2, <1>4 DEF Configurations, AlikeButCache

LEMMA AlikeIfInv == ScoreInv => LikeForLike
<1> SUFFICES ASSUME ScoreInv, verdict # <<>>, verdict.compatible
             PROVE  /\ \A r \in Sources :
                         Cardinality({use \in reads[1] \cup reads[2] : use[1] = r}) <= 1
                    /\ ran[1] = ran[2] /\ ran[1] # {}
                    /\ [reports[1].body.cfg EXCEPT !.cand = reports[2].body.cfg.cand,
                                                   !.cached = TRUE]
                         = [reports[2].body.cfg EXCEPT !.cached = TRUE]
  BY DEF LikeForLike
<1> DEFINE left  == reports[1].body
           right == reports[2].body
<1>1. PICK override \in BOOLEAN : verdict = CompareReports(reports, override)
  BY DEF ScoreInv, Compared
<1>2. DOMAIN reports = Runs /\ 1 \in Runs /\ 2 \in Runs
  BY DEF ScoreInv, Typed, Runs
<1>3. /\ reports[1].state = "written" /\ reports[2].state = "written"
      /\ ComparePair(left, right).compatible
  <2>1. /\ ~\E i \in DOMAIN reports : reports[i].state # "written"
        /\ \A i, j \in DOMAIN reports :
             i < j => ComparePair(reports[i].body, reports[j].body).compatible
    BY <1>1 DEF CompareReports
  <2> QED BY <1>2, <2>1
<1>4. /\ TrueOf(left, session[1], repeated[1], ran[1], reads[1])
      /\ TrueOf(right, session[2], repeated[2], ran[2], reads[2])
  BY <1>2, <1>3, WrittenIsTrue
<1> HIDE DEF left, right
<1>5. /\ ran[1] \in SUBSET Axes /\ ran[2] \in SUBSET Axes
      /\ session[1] \in Configurations /\ session[2] \in Configurations
      /\ reads[1] \subseteq Sources \X Int /\ reads[2] \subseteq Sources \X Int
  BY <1>2 DEF ScoreInv, Typed
<1>6. /\ Active(left) = ran[1] /\ Active(right) = ran[2]
      /\ left.cfg = session[1] /\ right.cfg = session[2]
      /\ ran[1] = AxesOf(session[1]) /\ ran[2] = AxesOf(session[2])
  BY <1>4 DEF TrueOf, Accounted
<1>7. /\ CompleteReport(left) /\ CompleteReport(right)
      /\ Active(left) = Active(right) /\ left.cfg.backend = right.cfg.backend
      /\ \A r \in ReadBy(Active(left)) :
           /\ r \in DOMAIN left.identities /\ r \in DOMAIN right.identities
           /\ left.identities[r] = right.identities[r]
  BY <1>3, <1>5, <1>6, PairFacts
<1>8. \A k \in Settings : left.cfg[k] = right.cfg[k]
  BY <1>3, <1>5, <1>6, SettingsAlike
<1>9. /\ left.changed = {} /\ right.changed = {} /\ ~left.cfg.flags /\ ~right.cfg.flags
      /\ Active(left) # {}
  BY <1>7 DEF CompleteReport
<1>10. ASSUME NEW use \in reads[1] \cup reads[2]
       PROVE  use[2] = left.identities[use[1]]
  <2>1. /\ use \in reads[1] => use[1] \in ReadBy(ran[1])
                            /\ (use[1] \in DOMAIN left.identities =>
                                  use[2] = left.identities[use[1]])
        /\ use \in reads[2] => use[1] \in ReadBy(ran[2])
                            /\ (use[1] \in DOMAIN right.identities =>
                                  use[2] = right.identities[use[1]])
    BY <1>4, <1>9 DEF TrueOf
  <2> QED BY <1>6, <1>7, <2>1
<1>11. ASSUME NEW r \in Sources
       PROVE  Cardinality({use \in reads[1] \cup reads[2] : use[1] = r}) <= 1
  <2> DEFINE uses == {use \in reads[1] \cup reads[2] : use[1] = r}
             it   == <<r, left.identities[r]>>
  <2>1. \A use \in uses : use = it
    BY <1>5, <1>10
  <2> HIDE DEF it, uses
  <2>2. uses = {} \/ uses = {it}
    BY <2>1
  <2>3. Cardinality(uses) <= 1
    <3>1. CASE uses = {}
      <4>1. Cardinality(uses) = 0
        BY <3>1, FS_EmptySet, Zenon
      <4> QED BY <4>1
    <3>2. CASE uses = {it}
      <4>1. Cardinality(uses) = 1
        BY <3>2, FS_Singleton, Zenon
      <4> QED BY <4>1
    <3> QED BY <2>2, <3>1, <3>2
  <2> QED BY <2>3 DEF uses
<1>12. [left.cfg EXCEPT !.cand = right.cfg.cand, !.cached = TRUE]
         = [right.cfg EXCEPT !.cached = TRUE]
  <2> DEFINE c == session[1]
             d == session[2]
  <2>1. /\ left.cfg = c /\ right.cfg = d /\ c \in Configurations /\ d \in Configurations
        /\ AxesOf(c) = AxesOf(d)
    BY <1>5, <1>6, <1>7
  <2> HIDE DEF c, d
  <2>2. c.backend = d.backend /\ ~c.flags /\ ~d.flags /\ \A k \in Settings : c[k] = d[k]
    BY <1>7, <1>8, <1>9, <2>1
  <2>3. AlikeButCache(c, d)
    BY <2>1, <2>2, SameConfiguration
  <2> QED BY <2>1, <2>3 DEF AlikeButCache
<1> QED BY <1>6, <1>7, <1>9, <1>11, <1>12 DEF left, right

-----------------------------------------------------------------------------
(* A report that carries a floor was scored by a reference that answered   *)
(* every prompt the same way twice and whose mean reached the minimum: the *)
(* floor check of metria.fidelity.cli, for any prompts, answers, engines   *)
(* and edits of the inputs.                                                *)
THEOREM FloorsAreEarned == ScoreSpec => []FloorEarned
BY ScoreInvariant, EarnedIfInv, PTL

(* The axes of a composite are those that were run and whose reference was *)
(* reliable, and the composite is the mean of the scores written for them, *)
(* whatever was skipped (metria.fidelity.report and .score).               *)
THEOREM CompositesAreAccounted == ScoreSpec => []CompositeAccounted
BY ScoreInvariant, AccountedIfInv, PTL

(* Reports that metria.fidelity.comparison_cli calls comparable were scored*)
(* from the same bytes of the same inputs by the same axes, whatever was   *)
(* edited, and when.                                                       *)
THEOREM ComparisonsAreAlike == ScoreSpec => []LikeForLike
BY ScoreInvariant, AlikeIfInv, PTL

=============================================================================
