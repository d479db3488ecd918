--------------------------- MODULE AnomalyDetector ---------------------------
(* The anomaly detector of the TurboQuant hardware diagnostic                *)
(* (src/metria/integrations/turboquant_diagnostic_runner.py): the flags that *)
(* measured decode ratios, perplexities and monitor samples raise.           *)
(*                                                                           *)
(* A decode ratio turbo3/q8_0 is kept in percent, a perplexity difference in *)
(* tenths of a percent of the q8_0 baseline.  Messages are left out: only    *)
(* the kind of flag is kept, by the list it is appended to.                  *)
EXTENDS Integers, Sequences

NoRatio == -1                         \* no ratio was measured before
NoFlags == [anomaly |-> {}, notable |-> {}, investigate |-> {}]
NewDetector == [flags |-> NoFlags, ratio |-> NoRatio, depth |-> 0]

Flagged(d, list, kind) ==
  [d EXCEPT !.flags[list] = @ \cup {kind}]

FlagIf(d, list, kind, condition) ==
  IF condition THEN Flagged(d, list, kind) ELSE d

(* Thresholds of check_decode_ratio, without the divisions.                  *)
Steep(before, after)    == before > 0 /\ 100 * (before - after) > 15 * before
Improved(before, after) == before > 0 /\ 100 * (after - before) > 5 * before
Faster(ratio)           == ratio > 105
Excellent(depth, ratio) == ratio > 98 /\ depth >= 8192
Thrashing(depth, ratio) == ratio < 50 /\ depth > 0

(* Every measured ratio is compared with the one measured before it, which   *)
(* it then replaces.                                                         *)
CheckDecodeRatio_Forgetful(d, point) ==   \* mistake: no ratio is remembered
  LET good == IF Faster(point.ratio)
                THEN Flagged(d, "investigate", "faster")
                ELSE FlagIf(d, "notable", "excellent",
                            Excellent(point.depth, point.ratio))
  IN FlagIf(good, "investigate", "thrashing", Thrashing(point.depth, point.ratio))

CheckDecodeRatio(d, point) ==
  LET good  == IF Faster(point.ratio)
                 THEN Flagged(d, "investigate", "faster")
                 ELSE FlagIf(d, "notable", "excellent",
                             Excellent(point.depth, point.ratio))
      trend == IF Steep(d.ratio, point.ratio)
                 THEN Flagged(good, "anomaly", "steep")
                 ELSE FlagIf(good, "investigate", "improved",
                             /\ Improved(d.ratio, point.ratio)
                             /\ point.depth > d.depth)
      floor == FlagIf(trend, "investigate", "thrashing",
                      Thrashing(point.depth, point.ratio))
  IN [floor EXCEPT !.ratio = point.ratio, !.depth = point.depth]

CheckDecodeRatios(d, points) ==
  LET after[i \in 0..Len(points)] ==
        IF i = 0 THEN d ELSE CheckDecodeRatio(after[i - 1], points[i])
  IN after[Len(points)]

(* check_thermal and check_swap_growth look at the latest sample alone; a    *)
(* failed sample has neither value and raises nothing.                       *)
CheckMonitor(d, latest) ==
  FlagIf(FlagIf(d, "anomaly", "thermal", latest = "hot"),
         "anomaly", "swap", latest = "swapping")

CheckBaseline(d, slow) == FlagIf(d, "anomaly", "load", slow)

(* check_ppl, for the cache type turbo3 with or without an environment.      *)
CheckPpl(d, delta, env) ==
  CASE delta > 100 -> Flagged(d, "anomaly", "quality")
    [] delta < -10 -> Flagged(d, "investigate", "quality")
    [] delta = 0 /\ ~env -> Flagged(d, "notable", "quality")
    [] OTHER -> d

(* What section 13 calls clean.                                              *)
Clean(d) == d.flags = NoFlags
==============================================================================
