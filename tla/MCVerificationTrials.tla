------------------------ MODULE MCVerificationTrials ------------------------
(***************************************************************************)
(* An instance of VerificationTrials: one warmup and two measured pairs,   *)
(* three comparison plans with four policies, and pairs of records that    *)
(* differ from the agreeing one in one or two aspects.                     *)
(***************************************************************************)
EXTENDS VerificationTrials

Streams == {<<>>, <<1>>, <<1, 1>>, <<1, 2>>}
Ids     == {1, 2} \X {"p"}

(* The leaves of a complete record, one path for each way a plan may        *)
(* govern it.                                                               *)
Paths == {<<"model">>, <<"runtime", "dtype">>, <<"resolved", "runtime", "dtype">>,
          <<"observed", "identity", "applied", "dtype">>,
          <<"observed", "identity", "applied", "source">>, <<"observed", "extra">>,
          <<"observed", "cleanup">>}

Record == [status |-> "completed", leaves |-> [p \in Paths |-> 1], dotted |-> FALSE,
           metrics |-> [m \in {"quality"} |-> 1],
           capture |-> [i \in Ids |-> <<1, 1>>],
           checks |-> <<TRUE, TRUE>>, clocks |-> <<2, 2>>, method |-> "native"]

Pair(left, right) ==
  [left |-> left, right |-> right, gaps |-> FALSE, interrupted |-> FALSE, identity |-> "a"]

Without(path) == [p \in Paths \ {path} |-> 1]

Leaves ==
  {[p \in Paths |-> IF p \in differ THEN 2 ELSE 1] :
     differ \in {d \in SUBSET Paths : Cardinality(d) <= 2}} \cup {Without(p) : p \in Paths}

Captures ==
  {[i \in Ids |-> s] : s \in Streams}
    \cup {[[i \in Ids |-> <<1, 1>>] EXCEPT ![<<2, "p">>] = s] : s \in Streams}
    \cup {[i \in {<<1, "p">>} |-> <<1, 1>>]}

MCPairs ==
       {Pair([Record EXCEPT !.leaves = l], [Record EXCEPT !.leaves = r]) :
          l \in {[p \in Paths |-> 1], Without(<<"observed", "extra">>)}, r \in Leaves}
  \cup {Pair([Record EXCEPT !.capture = l], [Record EXCEPT !.capture = r]) :
          l \in Captures, r \in Captures}
  \cup {Pair([Record EXCEPT !.checks = l], [Record EXCEPT !.checks = r]) :
          l \in {<<TRUE, TRUE>>, <<>>}, r \in {<<TRUE, FALSE>>, <<FALSE, FALSE>>, <<TRUE>>, <<>>}}
  \cup {Pair([Record EXCEPT !.clocks = l], [Record EXCEPT !.clocks = r, !.method = m]) :
          l \in {<<2, 2>>, <<0, 0>>, <<>>}, r \in {<<2, 2>>, <<2, 3>>, <<0, 0>>},
          m \in {"native", "gateway"}}
  \cup {Pair(Record, [Record EXCEPT !.status = s]) :
          s \in {"failed", "incomplete"}}
  \cup {Pair(Record, [Record EXCEPT !.dotted = TRUE]),
        Pair(Record, [Record EXCEPT !.metrics = [m \in {"quality"} |-> 2]]),
        Pair(Record, [Record EXCEPT !.metrics = <<>>])}
  \cup {[Pair(Record, Record) EXCEPT !.gaps = TRUE],
        [Pair(Record, Record) EXCEPT !.interrupted = TRUE],
        [Pair(Record, Record) EXCEPT !.identity = "b"],
        [Pair(Record, Record) EXCEPT !.identity = NoIdentity]}

NoRole == [vary |-> {}, control |-> {}, block |-> {}, waiver |-> {}]
MCPlans ==
  {[NoRole EXCEPT !.vary = {<<"runtime">>}, !.control = {<<"model">>}],
   [NoRole EXCEPT !.vary = {<<"runtime", "dtype">>, <<"resolved", "runtime", "dtype">>},
                  !.control = {<<"model">>, <<"observed", "identity", "applied">>}],
   [NoRole EXCEPT !.control = {<<"model">>}, !.block = {<<"runtime">>},
                  !.waiver = {<<"observed", "extra">>}]}

Criterion(target, min, max, equals) ==
  [target |-> target, min |-> min, max |-> max, equals |-> equals]
One == Fraction(1, 1)
MCPolicies ==
  {{},
   {Criterion("agreement", {Fraction(1, 2)}, {}, {}), Criterion("status", {}, {}, {"completed"}),
    Criterion("divergence", {}, {Fraction(0, 1)}, {})},
   {Criterion("all_match", {}, {}, {TRUE}), Criterion("repeatability", {One}, {}, {})},
   {Criterion("pass_rate", {One}, {One}, {}), Criterion("pass_delta", {Fraction(0, 1)}, {}, {}),
    Criterion("latency_ratio", {}, {One}, {})}}

MCRecipes == [plan : MCPlans, policy : MCPolicies]
=============================================================================
