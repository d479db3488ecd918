---------------------------- MODULE FidelityReport ----------------------------
(***************************************************************************)
(* The report of a scoring run, and when two reports may be compared:      *)
(* metria.fidelity.report, .provenance and .comparison.                    *)
(*                                                                         *)
(* A configuration is the record of what the command line selects,         *)
(* where flags says that KV_FIDELITY_LLAMA_EXTRA_FLAGS was set and cached  *)
(* that the inputs are those of the corpus cache.                          *)
(***************************************************************************)
EXTENDS FidelityAxes, Comparability

Configurations ==
  [backend : {"llamacpp", "vllm", "sglang", "mlx"}, axisA : {"trajectory", "gtm"},
   skipA : BOOLEAN, skipB : BOOLEAN, rniah : BOOLEAN, plad : BOOLEAN, floor : BOOLEAN,
   cand : STRING, flags : BOOLEAN, cached : BOOLEAN]

Axes == {"gtm", "kld", "rniah", "plad"}
Inputs == {"prompts", "corpus", "haystack"}
Sources == Inputs \cup {"model", "runtime"}

(* The inputs a run selects are the ones its capture identifies.           *)
SelectedInputs(cfg) ==
  (IF ~cfg.skipA \/ cfg.plad THEN {"prompts"} ELSE {})
    \cup (IF cfg.skipB THEN {} ELSE {"corpus"})
    \cup (IF cfg.rniah THEN {"haystack"} ELSE {})

Executables(cfg) ==
  (IF cfg.skipA THEN {} ELSE IF cfg.axisA = "trajectory" THEN {"completion"}
                             ELSE {"cli", "tokenize"})
    \cup (IF cfg.skipB THEN {} ELSE {"perplexity"})
    \cup (IF cfg.rniah \/ cfg.plad THEN {"cli", "tokenize"} ELSE {})

(* A remote model and a server's build have no local identity.             *)
Captured(cfg) ==
  SelectedInputs(cfg)
    \cup (IF cfg.backend = "llamacpp"
            THEN {"model"} \cup (IF Executables(cfg) = {} THEN {} ELSE {"runtime"})
            ELSE {})

-----------------------------------------------------------------------------
(* json_report.  results maps the axes that ran to what they returned;     *)
(* composite.scores maps the axes of the mean to their scores.  An axis    *)
(* without a score has an empty one.                                       *)

Skipped(cfg) ==
  (IF cfg.skipA THEN {"gtm"} ELSE {}) \cup (IF cfg.skipB THEN {"kld"} ELSE {})

(* The stub of a skipped axis scores 100.                                  *)
StubScore == 100

CompositeOf(cfg, results, floor) ==
  LET measured == DOMAIN results \ Skipped(cfg)
      trusted  == {a \in measured : a = "rniah" => results[a].confidence = "ok"}
      scores   == [a \in trusted |-> results[a].score]
  IN  [scores |-> scores, floor |-> floor, value |-> HarmonicMean(scores)]

AxisEntry_Stubbed(axis, result, composite) ==   \* mistake: the stub's 100 is written as a score
  [score |-> {result.score},
   skipped |-> FALSE,
   excluded |-> axis = "rniah" /\ axis \notin DOMAIN composite.scores,
   confidence |-> IF axis = "rniah" THEN result.confidence
                  ELSE IF axis = "plad" /\ result.skipped # {} THEN "partial" ELSE "ok",
   coverage |-> IF axis = "kld" THEN result.coverage ELSE <<>>,
   method |-> result.method]

AxisEntry(axis, result, composite) ==
  LET counted == axis \in DOMAIN composite.scores IN
  [score |-> IF counted \/ axis = "rniah" THEN {result.score} ELSE {},
   skipped |-> axis \in {"gtm", "kld"} /\ ~counted,
   excluded |-> axis = "rniah" /\ (result.confidence = "low" \/ ~counted),
   confidence |-> IF axis = "rniah" THEN result.confidence
                  ELSE IF axis = "plad" /\ result.skipped # {} THEN "partial" ELSE "ok",
   coverage |-> IF axis = "kld" THEN result.coverage ELSE <<>>,
   method |-> result.method]

JsonReport(cfg, results, composite, identities, changed) ==
  [cfg |-> cfg,
   axes |-> [a \in DOMAIN results |-> AxisEntry(a, results[a], composite)],
   composite |-> composite.value,
   band |-> BandOf(composite.value),
   diagnosis |-> Diagnosis(composite.scores),
   floor |-> composite.floor,
   identities |-> identities, changed |-> changed]

-----------------------------------------------------------------------------
(* report_to_run_record.                                                   *)

Active(report) ==
  {a \in DOMAIN report.axes : ~report.axes[a].skipped /\ report.axes[a].score # {}}

Contributors(report) == {a \in Active(report) : ~report.axes[a].excluded}

(* The estimator of MLX is not named, and then there is no metric.         *)
Measured(report) == {a \in Active(report) : report.axes[a].method # "unnamed"}

CompleteReport(report) ==
  /\ report.changed = {}
  /\ ~report.cfg.flags
  /\ Active(report) # {}
  /\ \A a \in Active(report) : report.axes[a].confidence = "ok"

HasComposite(report) ==
  Contributors(report) # {} /\ Contributors(report) \subseteq Measured(report)

Methods(report) == [a \in Contributors(report) |-> report.axes[a].method]

(* The leaves of the record: what was asked for, what each axis measured    *)
(* and how, and the identities of what was selected.                       *)
Settings == {"axisA", "floor", "rniah", "plad"}

LeafPaths(report) ==
  {<<"model", "locator">>, <<"runtime", "backend">>, <<"runtime", "candidate_kv">>,
   <<"scenario", "composite_axes">>, <<"measurements">>}
    \cup {<<"scenario", "generation", k>> : k \in Settings}
    \cup (IF HasComposite(report) THEN {<<"scenario", "composite_method">>} ELSE {})
    \cup {<<"scenario", "metric_methods", a>> : a \in Measured(report)}
    \cup {<<"scenario", "metric_context", a>> : a \in Active(report)}
    \cup {<<"resolved", "model", "sha256">> : r \in DOMAIN report.identities \cap {"model"}}
    \cup {<<"resolved", "runtime", "artifacts">> :
             r \in DOMAIN report.identities \cap {"runtime"}}
    \cup {<<"resolved", "inputs", r, "sha256">> : r \in DOMAIN report.identities \cap Inputs}

Leaf(report, p) ==
  IF p = <<"measurements">> THEN Active(report)
  ELSE CASE p[2] = "locator"          -> "model"
         [] p[2] = "backend"          -> report.cfg.backend
         [] p[2] = "candidate_kv"     -> report.cfg.cand
         [] p[2] = "composite_axes"   -> Contributors(report)
         [] p[2] = "composite_method" -> Methods(report)
         [] p[2] = "generation"       -> report.cfg[p[3]]
         [] p[2] = "metric_methods"   -> report.axes[p[3]].method
         [] p[2] = "metric_context"   -> [excluded |-> report.axes[p[3]].excluded,
                                          confidence |-> report.axes[p[3]].confidence,
                                          coverage |-> report.axes[p[3]].coverage]
         [] p[2] = "model"            -> report.identities["model"]
         [] p[2] = "runtime"          -> [build |-> report.identities["runtime"],
                                          of |-> Executables(report.cfg)]
         [] p[2] = "inputs"           -> report.identities[p[3]]

Leaves(report) == [p \in LeafPaths(report) |-> Leaf(report, p)]

RunRecordOf(report) ==
  [leaves |-> Leaves(report), dotted |-> FALSE,
   status |-> IF CompleteReport(report) THEN "completed" ELSE "partial",
   metrics |-> [a \in Measured(report) |-> report.axes[a].method]]

(* _plan: everything that decides a score is controlled, only the          *)
(* candidate's cache varies.                                               *)
InputsOf(axes) ==
  (IF axes \cap {"gtm", "plad"} # {} THEN {"prompts"} ELSE {})
    \cup (IF "kld" \in axes THEN {"corpus"} ELSE {})
    \cup (IF "rniah" \in axes THEN {"haystack"} ELSE {})

Plan(left, right) ==
  LET axes == Active(left) \cup Active(right) IN
  [vary |-> {<<"runtime", "candidate_kv">>},
   control |-> {<<"runtime", "backend">>, <<"scenario", "composite_axes">>,
                <<"scenario", "composite_method">>, <<"scenario", "metric_context">>,
                <<"measurements">>, <<"resolved", "model", "sha256">>,
                <<"resolved", "runtime", "artifacts">>}
                 \cup {<<"scenario", "metric_methods", a>> : a \in axes}
                 \cup {<<"resolved", "inputs", r, "sha256">> : r \in InputsOf(axes)},
   block |-> {}, waiver |-> {<<"model", "locator">>}]

ComparePair(left, right) ==
  CompareRuns(RunRecordOf(left), RunRecordOf(right), Plan(left, right))

(* run_report_comparison: 0 for comparable reports, or for a reason given  *)
(* to inspect incomparable ones; 2 when a report cannot be read.           *)
CompareReports(reports, override) ==
  LET unreadable == \E i \in DOMAIN reports : reports[i].state # "written"
      compatible == /\ ~unreadable
                    /\ \A i, j \in DOMAIN reports :
                         i < j => ComparePair(reports[i].body, reports[j].body).compatible
  IN  [compatible |-> compatible,
       rc |-> IF ~unreadable /\ (compatible \/ override) THEN 0 ELSE 2]
=============================================================================
