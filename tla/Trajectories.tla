---------------------------- MODULE Trajectories ----------------------------
(***************************************************************************)
(* The agreement of two runs' token trajectories: compare_trajectory_results *)
(* of metria.measurements.trajectory and summarize_divergence.             *)
(*                                                                         *)
(* A capture maps prompt ids to the sequence of sampled tokens; a fraction *)
(* is a record of its numerator and denominator.                           *)
(***************************************************************************)
EXTENDS Integers, Sequences, FiniteSets, FiniteSetsExt

Fraction(n, d) == [n |-> n, d |-> d]
Longer(s, t)   == IF Len(s) >= Len(t) THEN Len(s) ELSE Len(t)
Shorter(s, t)  == IF Len(s) >= Len(t) THEN Len(t) ELSE Len(s)

Matches == -1   \* no divergence; positions count from zero

FirstDivergence_Tail(reference, candidate) ==   \* mistake: a longer answer still agrees
  LET differ == {i \in 1..Shorter(reference, candidate) : reference[i] # candidate[i]}
  IN  IF differ # {} THEN Min(differ) - 1 ELSE Matches

FirstDivergence(reference, candidate) ==
  LET differ == {i \in 1..Shorter(reference, candidate) : reference[i] # candidate[i]}
  IN  IF differ # {} THEN Min(differ) - 1
      ELSE IF Len(reference) = Len(candidate) THEN Matches
      ELSE Shorter(reference, candidate)

ComparisonRow(reference, candidate) ==
  LET first == FirstDivergence(reference, candidate) IN
  [first |-> first, matched |-> first = Matches,
   prefix |-> IF first = Matches THEN Len(reference) ELSE first,
   steps |-> Longer(reference, candidate),
   complete |-> reference # <<>> /\ candidate # <<>>]

(* Captures of other prompts, or none on either side, cannot be scored.     *)
Scorable(reference, candidate) ==
  /\ DOMAIN reference = DOMAIN candidate
  /\ \A p \in DOMAIN reference : reference[p] # <<>> \/ candidate[p] # <<>>

ComparisonRows(reference, candidate) ==
  [p \in DOMAIN reference |-> ComparisonRow(reference[p], candidate[p])]

(* Divergence is summarized over the prompts both sides answered.           *)
SummarizeDivergence(rows) ==
  LET complete == {p \in DOMAIN rows : rows[p].complete}
      diverged == {p \in complete : ~rows[p].matched}
  IN [complete |-> complete = DOMAIN rows,
      rate |-> Fraction(Cardinality(diverged), Cardinality(complete)),
      earliest |-> IF diverged = {} THEN Matches ELSE Min({rows[p].first : p \in diverged})]

CompareTrajectories(reference, candidate) ==
  LET rows    == ComparisonRows(reference, candidate)
      matched == {p \in DOMAIN rows : rows[p].matched}
  IN [agreement  |-> Fraction(SumFunction([p \in DOMAIN rows |-> rows[p].prefix]),
                               SumFunction([p \in DOMAIN rows |-> rows[p].steps])),
      full_match |-> Fraction(Cardinality(matched), Cardinality(DOMAIN rows)),
      all_match  |-> matched = DOMAIN rows,
      divergence |-> SummarizeDivergence(rows)]
=============================================================================
