----------------------------- MODULE FidelityScore -----------------------------
(***************************************************************************)
(* Two `kv-fidelity score` commands and the comparison of their reports:   *)
(* metria.fidelity.cli, .axes, .runner, .provenance and .comparison_cli.   *)
(*                                                                         *)
(* The inputs are files that somebody may edit while a run is scoring; an  *)
(* edit changes the content and the stamp (device, inode, size and mtime)  *)
(* of the file, and a second one may bring the old content back.  reads,   *)
(* ran and repeated are history: what the runs really used.                *)
(***************************************************************************)
EXTENDS FidelityReport

CONSTANTS
  Sessions,      \* the pairs of configurations that are scored and compared
  PromptCount,   \* prompts in the prompt file
  Answers,       \* token sequences a greedy decode may return
  Distributions, \* what an engine returns for a position, Absent included
  KldScores,     \* scores llama-perplexity's mean KLD may amount to
  MinFloor,      \* MIN_FLOOR, in percent
  Lengths, Positions, Perturbations,
  CtxMax, Overhead,
  Editable,      \* the roles somebody may edit
  MaxMishaps     \* bound on edits and on inputs that cannot be identified

ASSUME ScoreAssumption ==
  /\ PromptCount \in Nat \ {0} /\ MaxMishaps \in Nat
  /\ Sessions \subseteq Configurations \X Configurations /\ Answers \subseteq Seq(STRING)
  /\ Editable \subseteq Sources /\ MinFloor \in 1..100 /\ KldScores \subseteq 0..100

VARIABLES
  disk, mishaps,         \* role -> [content, stamp]; mishaps so far
  session, run,          \* the two configurations, the command that runs
  point, due, step,      \* where it is; due holds the phases still to run
  todo, watched,         \* capture: sources to identify; source -> [content, stamp]
  outs, results,         \* answers of axis A so far; axis -> result
  floorScores, floor,   \* reference-versus-reference scores, and their mean
  temps,                \* temporary files of the KLD axis
  reports, rc, verdict,
  reads, ran, repeated

command == <<session, run>>
cfg == session[run]
capture == <<todo, watched>>
scoring == <<due, step, outs, results, floorScores, floor>>
history == <<reads, ran, repeated>>
scoreVars == <<disk, mishaps, command, point, capture, scoring, temps, reports, rc, verdict, history>>

Runs == 1..2
NoReport == [state |-> "none"]
NoAnswers == [ref |-> <<>>, cand |-> <<>>]
Unmeasured == [num |-> -1, den |-> 1]

ScoreInit ==
  /\ disk = [r \in Sources |-> [content |-> 0, stamp |-> 0]] /\ mishaps = 0
  /\ session \in Sessions /\ run = 0 /\ point = "idle"
  /\ todo = {} /\ watched = <<>>
  /\ due = {} /\ step = "start" /\ outs = NoAnswers /\ results = <<>>
  /\ floorScores = <<>> /\ floor = Unmeasured
  /\ temps = {} /\ rc = <<>> /\ verdict = <<>>
  /\ reports = [i \in Runs |-> NoReport]
  /\ reads = [i \in Runs |-> {}] /\ ran = [i \in Runs |-> {}]
  /\ repeated = [i \in Runs |-> TRUE]

Edit(r) ==
  /\ mishaps < MaxMishaps /\ verdict = <<>>
  /\ mishaps' = mishaps + 1
  /\ disk' = [disk EXCEPT ![r] = [content |-> 1 - @.content, stamp |-> @.stamp + 1]]
  /\ UNCHANGED <<command, point, capture, scoring, temps, reports, rc, verdict, history>>

Use(roles) ==
  reads' = [reads EXCEPT ![run] = @ \cup {<<r, disk[r].content>> : r \in roles}]

(* The finally of run_kld.                                                 *)
Cleaned == temps \ {"base", "sidecar"}

(* The way out of a command.  The KLD axis removes its base file and the   *)
(* sidecar it knows of; a sidecar that was not written whole stays.        *)
Leave(code) ==
  /\ point' = "idle" /\ rc' = Append(rc, code)
  /\ temps' = Cleaned
  /\ due' = {} /\ step' = "start" /\ outs' = NoAnswers /\ results' = <<>>
  /\ floorScores' = <<>> /\ floor' = Unmeasured /\ todo' = {} /\ watched' = <<>>

-----------------------------------------------------------------------------
(* Before the axes: selection, pinned inputs, capture.                     *)

PhasesOf(c) ==
  LET axes == (IF c.skipA THEN {} ELSE {"gtm"}) \cup (IF c.skipB THEN {} ELSE {"kld"})
                \cup (IF c.rniah THEN {"rniah"} ELSE {}) \cup (IF c.plad THEN {"plad"} ELSE {})
      floors == {"floor"} \cup (IF c.skipA THEN {} ELSE {"floor_a"})
                  \cup (IF c.skipB THEN {} ELSE {"floor_b"})
  IN  axes \cup (IF c.floor THEN floors ELSE {}) \cup {"compose"}

(* Phases, and the sources of a capture, come in a fixed order.            *)
PhaseRank   == [floor_a |-> 1, floor_b |-> 2, floor |-> 3, gtm |-> 4, kld |-> 5,
                rniah |-> 6, plad |-> 7, compose |-> 8]
CaptureRank == [prompts |-> 1, corpus |-> 2, haystack |-> 3, model |-> 4, runtime |-> 5]

First(S, rank) == CHOOSE x \in S : \A y \in S : rank[x] <= rank[y]

Begin ==
  /\ point = "idle" /\ run < 2
  /\ run' = run + 1
  /\ LET c == session[run + 1] IN
     IF c.floor /\ c.skipA /\ c.skipB
       THEN /\ rc' = Append(rc, 2) /\ point' = "idle"
            /\ UNCHANGED <<todo, due>>
       ELSE /\ point' = "resolve"
            /\ todo' = Captured(c)
            /\ due' = PhasesOf(c) /\ UNCHANGED rc
  /\ UNCHANGED <<disk, mishaps, session, watched, step, outs, results, floorScores, floor,
                 temps, reports, verdict, history>>

(* Inputs of the corpus cache are verified against their pinned hashes.    *)
Pinned(c) == IF c.cached THEN SelectedInputs(c) \cap {"corpus", "haystack"} ELSE {}

Resolve ==
  /\ point = "resolve" /\ \A r \in Pinned(cfg) : disk[r].content = 0
  /\ point' = "capture"
  /\ UNCHANGED <<disk, mishaps, command, capture, scoring, temps, reports, rc, verdict,
                 history>>

(* An input that is unreadable, or changes while it is hashed, stays       *)
(* without an identity.                                                    *)
CaptureNext ==
  /\ point = "capture" /\ todo # {}
  /\ LET r == First(todo, CaptureRank) IN
     /\ todo' = todo \ {r}
     /\ \/ watched' = With(watched, r, disk[r]) /\ UNCHANGED mishaps
        \/ /\ mishaps < MaxMishaps /\ mishaps' = mishaps + 1
           /\ UNCHANGED watched
  /\ UNCHANGED <<disk, command, point, scoring, temps, reports, rc, verdict, history>>

CaptureDone ==
  /\ point = "capture" /\ todo = {} /\ point' = "axes"
  /\ UNCHANGED <<disk, mishaps, command, capture, scoring, temps, reports, rc, verdict,
                 history>>

-----------------------------------------------------------------------------
(* The axes.                                                               *)

Phase == First(due, PhaseRank)

At(phaseSet, s) == point = "axes" /\ Phase \in phaseSet /\ step = s

NextPhase == due' = due \ {Phase} /\ step' = "start" /\ outs' = NoAnswers

Load ==
  /\ At({"floor_a", "gtm", "rniah", "plad"}, "start")
  /\ step' = "loaded"
  /\ Use({IF Phase = "rniah" THEN "haystack" ELSE "prompts"})
  /\ UNCHANGED <<disk, mishaps, command, point, capture, due, outs, results, floorScores,
                 floor, temps, reports, rc, verdict, ran, repeated>>

(* A trajectory run decodes every prompt under the reference before the    *)
(* first under the candidate; GTM alternates.                              *)
RefsNext ==
  IF cfg.axisA = "trajectory" THEN Len(outs.ref) < PromptCount
                              ELSE Len(outs.ref) = Len(outs.cand)

Decode(answer) ==
  /\ At({"floor_a", "gtm"}, "loaded") /\ Len(outs.cand) < PromptCount
  /\ outs' = IF RefsNext THEN [outs EXCEPT !.ref = Append(@, answer)]
                         ELSE [outs EXCEPT !.cand = Append(@, answer)]
  /\ Use({"model", "runtime"})
  /\ UNCHANGED <<disk, mishaps, command, point, capture, due, step, results, floorScores,
                 floor, temps, reports, rc, verdict, ran, repeated>>

ResultA ==
  IF cfg.axisA = "trajectory" THEN TrajectoryResult(outs.ref, outs.cand)
                              ELSE GtmResult(outs.ref, outs.cand)

ScoreAxisA ==
  /\ At({"floor_a", "gtm"}, "loaded") /\ Len(outs.cand) = PromptCount
  /\ ~IsRaised(ResultA)
  /\ NextPhase
  /\ IF Phase = "floor_a"
       THEN /\ floorScores' = With(floorScores, "gtm", ResultA)
            /\ repeated' = [repeated EXCEPT ![run] = outs.ref = outs.cand]
            /\ UNCHANGED <<results, ran>>
       ELSE /\ results' = With(results, "gtm", [score |-> ResultA.score, method |-> cfg.axisA])
            /\ ran' = [ran EXCEPT ![run] = @ \cup {"gtm"}]
            /\ UNCHANGED <<floorScores, repeated>>
  /\ UNCHANGED <<disk, mishaps, command, point, capture, floor, temps, reports, rc, verdict,
                 reads>>

Kld(result) ==
  /\ NextPhase
  /\ IF Phase = "floor_b"
       THEN floorScores' = With(floorScores, "kld", result) /\ UNCHANGED <<results, ran>>
       ELSE /\ results' = With(results, "kld", result)
            /\ ran' = [ran EXCEPT ![run] = @ \cup {"kld"}]
            /\ UNCHANGED floorScores

(* llama.cpp: llama-perplexity writes the reference logits into a base     *)
(* file, the corpus sidecar is put next to it, the candidate is scored.    *)
BuildBase ==
  /\ At({"floor_b", "kld"}, "start") /\ cfg.backend = "llamacpp"
  /\ step' = "based" /\ temps' = temps \cup {"base"} /\ Use({"model", "runtime", "corpus"})
  /\ UNCHANGED <<disk, mishaps, command, point, capture, due, outs, results, floorScores,
                 floor, reports, rc, verdict, ran, repeated>>

WriteSidecar ==
  /\ At({"floor_b", "kld"}, "based")
  /\ step' = "sided" /\ temps' = temps \cup {"sidecar"} /\ Use({"corpus"})
  /\ UNCHANGED <<disk, mishaps, command, point, capture, due, outs, results, floorScores,
                 floor, reports, rc, verdict, ran, repeated>>

ScoreCandidate(score) ==
  /\ At({"floor_b", "kld"}, "sided")
  /\ Kld([score |-> score, method |-> "llama_perplexity", coverage |-> <<>>])
  /\ temps' = Cleaned /\ Use({"model", "runtime", "corpus"})
  /\ UNCHANGED <<disk, mishaps, command, point, capture, floor, reports, rc, verdict, repeated>>

(* vLLM and SGLang return top-k distributions of the same chunks twice.    *)
NativeKld(ref, cand) ==
  /\ At({"floor_b", "kld"}, "start") /\ cfg.backend \in {"vllm", "sglang"}
  /\ ~IsRaised(AggregateTopK(ref, cand))
  /\ LET m == AggregateTopK(ref, cand) IN
     Kld([score |-> m.score, method |-> "normalized_top_k",
          coverage |-> <<m.scored, m.skipped>>])
  /\ Use({"model", "runtime", "corpus"})
  /\ UNCHANGED <<disk, mishaps, command, point, capture, floor, temps, reports, rc, verdict,
                 repeated>>

(* MLX drops the positions whose divergence is not finite and keeps no     *)
(* count of them.                                                          *)
MlxKld(score) ==
  /\ At({"floor_b", "kld"}, "start") /\ cfg.backend = "mlx"
  /\ Kld([score |-> score, method |-> "unnamed", coverage |-> <<>>])
  /\ Use({"model", "runtime", "corpus"})
  /\ UNCHANGED <<disk, mishaps, command, point, capture, floor, temps, reports, rc, verdict,
                 repeated>>

Cells == RniahCells(Lengths, Positions, CtxMax, Overhead)

Retrieve(hits) ==
  /\ At({"rniah"}, "loaded") /\ NextPhase
  /\ results' = With(results, "rniah",
                     RniahResult(Cells, (Lengths \X Positions) \ Cells, 1, hits))
  /\ ran' = [ran EXCEPT ![run] = @ \cup {"rniah"}]
  /\ Use({"model", "runtime"})
  /\ UNCHANGED <<disk, mishaps, command, point, capture, floorScores, floor, temps, reports,
                 rc, verdict, repeated>>

Perturb(applied, drift) ==
  /\ At({"plad"}, "loaded") /\ applied # {} /\ NextPhase
  /\ results' = With(results, "plad", PladResult(Perturbations, applied, drift))
  /\ ran' = [ran EXCEPT ![run] = @ \cup {"plad"}]
  /\ Use({"model", "runtime"})
  /\ UNCHANGED <<disk, mishaps, command, point, capture, floorScores, floor, temps, reports,
                 rc, verdict, repeated>>

-----------------------------------------------------------------------------
(* The floor: the reference scored against itself must reach MIN_FLOOR,    *)
(* and its trajectories must be identical prompt by prompt.                *)

FloorMean == HarmonicMean([a \in DOMAIN floorScores |-> floorScores[a].score])

FloorHolds_Mean ==       \* mistake: the mean alone decides
  AtLeastHalves(FloorMean, 2 * MinFloor)

FloorHolds ==
  /\ AtLeastHalves(FloorMean, 2 * MinFloor)
  /\ "gtm" \in DOMAIN floorScores => floorScores["gtm"].full

CheckFloor ==
  /\ At({"floor"}, "start")
  /\ IF FloorHolds
       THEN /\ NextPhase /\ floor' = FloorMean /\ floorScores' = <<>>
            /\ UNCHANGED <<point, rc, temps, results, capture>>
       ELSE Leave(2)
  /\ UNCHANGED <<disk, mishaps, command, reports, verdict, history>>

-----------------------------------------------------------------------------
(* The report.                                                             *)

Stub == [score |-> StubScore, method |-> "stub", coverage |-> <<>>]

AllResults ==
  [a \in DOMAIN results \cup Skipped(cfg) |-> IF a \in Skipped(cfg) THEN Stub ELSE results[a]]

Changed_Renamed(seen) ==        \* mistake: only a different content counts as a change
  {r \in DOMAIN seen : disk[r].content # seen[r].content}

Changed(seen) == {r \in DOMAIN seen : disk[r].stamp # seen[r].stamp}

Compose ==
  /\ At({"compose"}, "start")
  /\ LET all == AllResults IN
     reports' = [reports EXCEPT ![run] =
       [state |-> "open",
        body |-> JsonReport(cfg, all, CompositeOf(cfg, all, floor),
                            [r \in DOMAIN watched |-> watched[r].content],
                            Changed(watched))]]
  /\ point' = "write"
  /\ UNCHANGED <<disk, mishaps, command, capture, scoring, temps, rc, verdict, history>>

(* The report is written in place: cut short, it stays half written.       *)
Write ==
  /\ point = "write" /\ point' = "html"
  /\ reports' = [reports EXCEPT ![run].state = "written"]
  /\ UNCHANGED <<disk, mishaps, command, capture, scoring, temps, rc, verdict, history>>

WriteHtml ==
  /\ point = "html" /\ Leave(0)
  /\ UNCHANGED <<disk, mishaps, command, reports, verdict, history>>

(* A subprocess that fails or times out, an input that cannot be read or   *)
(* verified, answers that cannot be aligned, Ctrl+C.                       *)
Fail ==
  /\ point \notin {"idle", "judged"} /\ Leave(1)
  /\ UNCHANGED <<disk, mishaps, command, reports, verdict, history>>

FailInSidecar ==
  /\ At({"floor_b", "kld"}, "based")
  /\ point' = "idle" /\ rc' = Append(rc, 1) /\ temps' = (temps \ {"base"}) \cup {"torn"}
  /\ due' = {} /\ step' = "start" /\ outs' = NoAnswers /\ results' = <<>>
  /\ floorScores' = <<>> /\ floor' = Unmeasured /\ todo' = {} /\ watched' = <<>>
  /\ UNCHANGED <<disk, mishaps, command, reports, verdict, history>>

-----------------------------------------------------------------------------
Compare(override) ==
  /\ point = "idle" /\ run = 2
  /\ verdict' = CompareReports(reports, override) /\ point' = "judged"
  /\ UNCHANGED <<disk, mishaps, command, capture, scoring, temps, reports, rc, history>>

Judged == point = "judged" /\ UNCHANGED scoreVars

Responses == {<<chunk>> : chunk \in UNION {[1..n -> Distributions] : n \in 1..2}}

ScoreNext ==
  \/ \E r \in Editable : Edit(r)
  \/ Begin \/ Resolve \/ CaptureNext \/ CaptureDone \/ Load
  \/ \E answer \in Answers : Decode(answer)
  \/ ScoreAxisA \/ BuildBase \/ WriteSidecar
  \/ \E score \in KldScores : ScoreCandidate(score) \/ MlxKld(score)
  \/ \E ref, cand \in Responses : NativeKld(ref, cand)
  \/ \E hits \in [Cells -> [base : 0..1, cand : 0..1]] : Retrieve(hits)
  \/ \E applied \in SUBSET ((1..PromptCount) \X Perturbations) :
       \E drift \in [applied -> [ref : {0}, cand : 0..1]] : Perturb(applied, drift)
  \/ CheckFloor \/ Compose \/ Write \/ WriteHtml \/ Fail \/ FailInSidecar
  \/ \E override \in BOOLEAN : Compare(override)
  \/ Judged

ScoreSpec == ScoreInit /\ [][ScoreNext]_scoreVars

-----------------------------------------------------------------------------
Written == {i \in Runs : reports[i].state = "written"}

(* A report that carries a floor was scored by a reference that answered   *)
(* every prompt the same way twice, and whose mean reached the minimum.    *)
FloorEarned ==
  \A i \in Written :
    LET body == reports[i].body IN
    body.cfg.floor => repeated[i] /\ AtLeastHalves(body.floor, 2 * MinFloor)

(* The axes a reader of the report takes to be in the composite are the    *)
(* axes that were run and whose reference was reliable, and the composite  *)
(* is the mean of the scores written for them.                             *)
CompositeAccounted ==
  \A i \in Written :
    LET body == reports[i].body IN
    /\ Contributors(body) = {a \in ran[i] : a = "rniah" => body.axes[a].confidence = "ok"}
    /\ body.composite =
         HarmonicMean([a \in Contributors(body) |-> CHOOSE v \in body.axes[a].score : TRUE])

(* Reports judged comparable were scored from the same bytes of the same   *)
(* inputs from beginning to end, by the same axes; only the candidate's    *)
(* cache may differ.                                                       *)
LikeForLike ==
  (verdict # <<>> /\ verdict.compatible) =>
    /\ \A r \in Sources : Cardinality({use \in reads[1] \cup reads[2] : use[1] = r}) <= 1
    /\ ran[1] = ran[2] /\ ran[1] # {}
    /\ [reports[1].body.cfg EXCEPT !.cand = reports[2].body.cfg.cand, !.cached = TRUE]
         = [reports[2].body.cfg EXCEPT !.cached = TRUE]

=============================================================================
