----------------------------- MODULE FidelityAxes -----------------------------
(***************************************************************************)
(* What the axes of the KV fidelity toolkit compute from the answers of    *)
(* the model: metria.fidelity.axes, .measurement_math and .score.          *)
(*                                                                         *)
(* Scores are whole percents, a composite is the ratio [num, den].  An     *)
(* axis that raises yields Raised.                                         *)
(***************************************************************************)
EXTENDS Integers, Sequences, FiniteSets, FiniteSetsExt

Raised == [raised |-> TRUE]
IsRaised(result) == "raised" \in DOMAIN result

Greater(a, b) == IF a >= b THEN a ELSE b
Lesser(a, b)  == IF a <= b THEN a ELSE b

With(f, x, value) == [y \in DOMAIN f \cup {x} |-> IF y = x THEN value ELSE f[y]]

Total(S, value(_)) == MapThenSumSet(value, S)

-----------------------------------------------------------------------------
(* Axis A: greedy tokens under the reference and the candidate cache.      *)

Identical == -1

Diff(ref, cand) ==
  LET n     == Lesser(Len(ref), Len(cand))
      apart == {i \in 1..n : ref[i] # cand[i]}
  IN  IF apart # {}
        THEN [first |-> Min(apart) - 1, prefix |-> Min(apart) - 1]
        ELSE [first |-> IF Len(ref) = Len(cand) THEN Identical ELSE n, prefix |-> n]

(* Prefix agreement over the longer sequence of each prompt.               *)
PrefixScore(refs, cands) ==
  LET Steps(i)  == Greater(Len(refs[i]), Len(cands[i]))
      Agreed(i) == Diff(refs[i], cands[i]).prefix
      steps     == Total(DOMAIN refs, Steps)
  IN  IF steps = 0 THEN 0 ELSE (100 * Total(DOMAIN refs, Agreed)) \div steps

AllMatch(refs, cands) == \A i \in DOMAIN refs : Diff(refs[i], cands[i]).first = Identical

GtmResult(refs, cands) ==
  [score |-> PrefixScore(refs, cands), full |-> AllMatch(refs, cands), prompts |-> Len(refs)]

(* Two empty trajectories mean that the patched binary is not there.       *)
TrajectoryResult(refs, cands) ==
  IF \E i \in DOMAIN refs : refs[i] = <<>> /\ cands[i] = <<>>
    THEN Raised ELSE GtmResult(refs, cands)

-----------------------------------------------------------------------------
(* Axis B: divergence of the next-token distributions.  A position that    *)
(* agrees contributes nothing, one that differs a fixed amount; the score  *)
(* falls with the mean, and is 100 only when nothing differs.              *)

KldScore(differ, scored) == 100 - (60 * differ) \div scored

Absent == "absent"     \* a position for which the engine returned no distribution

(* Native engines return chunks of positions; both responses must align.   *)
AggregateTopK(ref, cand) ==
  LET At(side)   == {x \in (DOMAIN side) \X (1..9) : x[2] \in DOMAIN side[x[1]]}
      scored     == {x \in At(ref) : ref[x[1]][x[2]] # Absent}
      aligned    == /\ Len(ref) = Len(cand)
                    /\ \A c \in DOMAIN ref : Len(ref[c]) = Len(cand[c])
      sameHoles  == \A x \in At(ref) :
                      (ref[x[1]][x[2]] = Absent) <=> (cand[x[1]][x[2]] = Absent)
      differ     == {x \in scored : ref[x[1]][x[2]] # cand[x[1]][x[2]]}
  IN  IF ~aligned \/ ~sameHoles \/ scored = {} THEN Raised
      ELSE [score |-> KldScore(Cardinality(differ), Cardinality(scored)),
            scored |-> Cardinality(scored),
            skipped |-> Cardinality(At(ref)) - Cardinality(scored)]

-----------------------------------------------------------------------------
(* Axis C: a needle is retrieved, or not, at each (length, position) cell. *)

RniahCells(lengths, positions, ctxMax, overhead) ==
  {l \in lengths : l <= ctxMax /\ l > overhead} \X positions

(* hits[cell] holds how often, of trials, each side retrieved the needle.  *)
RniahResult(cells, skipped, trials, hits) ==
  LET Lost(c) == Greater(0, hits[c].base - hits[c].cand)
      Base(c) == hits[c].base
      n       == Cardinality(cells)
  IN  [score |-> IF n = 0 THEN 0 ELSE 100 - (100 * Total(cells, Lost)) \div (n * trials),
       confidence |-> IF n > 0 /\ 5 * Total(cells, Base) >= n * trials THEN "ok" ELSE "low",
       cells |-> n, skipped |-> Cardinality(skipped), method |-> "needle"]

-----------------------------------------------------------------------------
(* Axis D: how much more the candidate's answer drifts than the            *)
(* reference's when the prompt is perturbed.  A perturbation that does not *)
(* apply to a prompt is skipped, and one that applies to none has no       *)
(* score of its own.                                                       *)

PladResult(perturbations, applied, drift) ==
  LET Cell(c) == IF drift[c].cand > drift[c].ref THEN 20 ELSE 100 IN
  IF applied = {} THEN Raised
  ELSE [score |-> Total(applied, Cell) \div Cardinality(applied),
        skipped |-> {p \in perturbations : \A c \in applied : c[2] # p},
        method |-> "plad"]

-----------------------------------------------------------------------------
(* The composite.                                                          *)

HarmonicMean(scores) ==       \* scores: [axis -> percent]
  IF DOMAIN scores = {} \/ \E a \in DOMAIN scores : scores[a] <= 0
    THEN [num |-> 0, den |-> 1]
    ELSE LET Product(S) == FoldSet(LAMBDA a, acc : acc * scores[a], 1, S)
             Others(a)  == Product(DOMAIN scores \ {a})
         IN  [num |-> Cardinality(DOMAIN scores) * Product(DOMAIN scores),
              den |-> Total(DOMAIN scores, Others)]

AtLeastHalves(ratio, halves) == 2 * ratio.num >= halves * ratio.den

BandOf(ratio) ==
  IF AtLeastHalves(ratio, 180) THEN "EXCELLENT"
  ELSE IF AtLeastHalves(ratio, 160) THEN "PASS"
  ELSE IF AtLeastHalves(ratio, 120) THEN "DEGRADED" ELSE "FAIL"

(* The surfaces the diagnosis names; scores maps measured axes to percents. *)
Diagnosis(scores) ==
  LET low == {a \in DOMAIN scores : scores[a] < 80} IN
  IF DOMAIN scores # {} /\ \A a \in DOMAIN scores : scores[a] < 60 THEN {"catastrophic"}
  ELSE IF low = {} THEN {"intact"}
  ELSE IF low \subseteq {"gtm", "kld"}
    THEN IF {"gtm", "kld"} \subseteq {a \in low : scores[a] < 60}
           THEN {"distribution"} ELSE {"mild"}
  ELSE {IF a \in {"gtm", "kld"} THEN "decode" ELSE a : a \in low}
=============================================================================
