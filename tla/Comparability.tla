---------------------------- MODULE Comparability ----------------------------
(***************************************************************************)
(* When two run records may be compared: metria.comparison.compare_runs.   *)
(*                                                                         *)
(* A record holds its flattened evidence: a function from the paths of the *)
(* leaves that are present to their values.  A path is the tuple of its    *)
(* segments; an absent leaf is a path outside the domain.                  *)
(***************************************************************************)
EXTENDS Naturals, Sequences, FiniteSets, SequencesExt

RequestedDimensions ==
  {"model", "runtime", "scenario", "measurements", "treatments", "trial_policy",
   "environment_selector"}

Covers(declaration, path) == IsPrefix(declaration, path)

(* The dimensions a plan declares, each with its role; no two overlap.      *)
Declared(plan) == UNION {{[by |-> d, role |-> r] : d \in plan[r]} : r \in DOMAIN plan}

(* A plan may not contradict itself: what one role declares, no other role  *)
(* declares as a whole or in part.                                          *)
Roles == {"vary", "control", "block", "waiver"}

ValidPlan(plan) ==
  /\ plan \in [Roles -> SUBSET (Seq(STRING) \ {<<>>})]
  /\ \A r, s \in Roles : r # s => \A d \in plan[r], e \in plan[s] : ~Covers(d, e)

(* What a requested dimension governs downstream.                           *)
Aliases(path, dimension) ==
  \/ Len(path) >= 2 /\ path[1] \in {"resolved", "observed"} /\ path[2] = dimension
  \/ /\ Len(path) >= 3 /\ path[1] = "observed"
     /\ \/ /\ dimension = "model" /\ path[2] = "identity"
           /\ path[3] \in {"model", "tokenizer", "chat_template"}
        \/ /\ dimension = "runtime" /\ path[2] = "identity"
           /\ path[3] \in {"runtime", "applied", "endpoint"}
        \/ dimension = "runtime" /\ path[2] = "configured" /\ path[3] = "runtime"

Inherited(plan, path) ==
  {d \in Declared(plan) : /\ d.role # "waiver"
                          /\ \E name \in {"model", "runtime", "scenario"} :
                               d.by = <<name>> /\ Aliases(path, name)}

(* The most specific declaration governs a path; only without one does a    *)
(* requested dimension reach it.                                            *)
Ungoverned == [role |-> "none", by |-> <<>>, direct |-> FALSE]

RoleForPath(plan, path) ==
  LET direct == {d \in Declared(plan) : Covers(d.by, path)} IN
  IF direct # {}
    THEN LET d == CHOOSE d \in direct : \A e \in direct : Len(e.by) <= Len(d.by)
         IN  [role |-> d.role, by |-> d.by, direct |-> TRUE]
  ELSE IF Inherited(plan, path) # {}
    THEN LET d == CHOOSE d \in Inherited(plan, path) : TRUE
         IN  [role |-> d.role, by |-> d.by, direct |-> FALSE]
  ELSE Ungoverned

(* Bookkeeping, diagnostics and per-request output are not compared; of the *)
(* identity, the reasons given and where each component was read from.      *)
IdentityComponents == {"model", "tokenizer", "runtime", "chat_template", "applied"}

Relevant(path) ==
  /\ ~(path[1] = "resolved" /\ path[2] = "support")
  /\ path[1] = "observed" =>
       /\ path[2] \notin {"reset_count", "closed", "cleanup"}
       /\ path[2] = "invocations" =>
            /\ Len(path) >= 4
            /\ path[4] \in {"prompt_sha256", "rendered_prompt_sha256",
                            "system_sha256", "generation"}
       /\ path[2] = "identity" =>
            /\ Len(path) >= 3 => path[3] # "reasons"
            /\ Len(path) >= 4 => ~(path[3] \in IdentityComponents /\ path[4] = "source")

(* The value of a dimension is everything below it; nothing is "missing".   *)
Dimension(record, d) ==
  Restrict(record.leaves, {p \in DOMAIN record.leaves : Covers(d, p)})

Missing(record, d) == DOMAIN Dimension(record, d) = {}

Issue(dimension, reason) == [dimension |-> dimension, reason |-> reason]

StatusIssues(left, right) ==
  IF left.status = "completed" /\ right.status = "completed" THEN {}
  ELSE {Issue(<<"status">>, "incomplete")}

(* Every declared dimension must exist in both records, and a controlled or *)
(* blocking one must be equal as a whole.                                   *)
DeclaredIssue(left, right, d) ==
  IF d.by[1] \notin RequestedDimensions \cup {"resolved", "observed"}
    THEN {Issue(d.by, "unknown")}
  ELSE IF Missing(left, d.by) \/ Missing(right, d.by) THEN {Issue(d.by, "missing")}
  ELSE IF d.role \in {"control", "block"}
          /\ Dimension(left, d.by) # Dimension(right, d.by) THEN {Issue(d.by, d.role)}
  ELSE {}

DeclaredIssues(left, right, plan) ==
  UNION {DeclaredIssue(left, right, d) : d \in Declared(plan)}

(* Evidence whose dotted keys overlap cannot be compared leaf by leaf.      *)
Ambiguous(left, right) == left.dotted \/ right.dotted

BothHave(left, right, path) == path \in DOMAIN left.leaves /\ path \in DOMAIN right.leaves

Differences(left, right) ==
  IF Ambiguous(left, right) THEN {}
  ELSE {p \in DOMAIN left.leaves \cup DOMAIN right.leaves :
          /\ Relevant(p)
          /\ BothHave(left, right, p) => left.leaves[p] # right.leaves[p]}

LeafIssue_Lenient(left, right, plan, path) ==   \* mistake: a leaf one side lacks is no difference
  LET role == RoleForPath(plan, path) IN
  IF ~BothHave(left, right, path) \/ role.direct \/ role.role = "vary" THEN {}
  ELSE {Issue(path, "undeclared")}

LeafIssue(left, right, plan, path) ==
  LET role == RoleForPath(plan, path) IN
  IF role = Ungoverned THEN {Issue(path, "undeclared")}
  ELSE IF role.direct THEN {}
  ELSE IF ~BothHave(left, right, path) THEN {Issue(path, "missing")}
  ELSE IF role.role = "vary" THEN {}
  ELSE {Issue(path, role.role)}

LeafIssues(left, right, plan) ==
  UNION {LeafIssue(left, right, plan, p) : p \in Differences(left, right)}

WaivedDifferences(left, right, plan) ==
  {p \in Differences(left, right) :
     RoleForPath(plan, p).role = "waiver" /\ BothHave(left, right, p)}

(* Metrics combine only when name, unit, direction, method and version, the *)
(* identity kept as one value, agree.                                       *)
IncompatibleMetrics(left, right) ==
  {n \in DOMAIN left.metrics \cap DOMAIN right.metrics :
     left.metrics[n] # right.metrics[n]}

CompareRuns(left, right, plan) ==
  LET issues == StatusIssues(left, right) \cup DeclaredIssues(left, right, plan)
                  \cup LeafIssues(left, right, plan)
                  \cup IF Ambiguous(left, right) THEN {Issue(<<>>, "ambiguous")} ELSE {}
      methods == IncompatibleMetrics(left, right)
  IN [compatible |-> issues = {} /\ methods = {},
      issues |-> issues, methods |-> methods,
      waived |-> WaivedDifferences(left, right, plan)]
=============================================================================
