---------------------------- MODULE MCFidelityScore ----------------------------
(* Values of the constants of FidelityScore for TLC.                       *)
EXTENDS FidelityScore

Base == [backend |-> "llamacpp", axisA |-> "trajectory", skipA |-> FALSE, skipB |-> FALSE,
         rniah |-> FALSE, plad |-> FALSE, floor |-> FALSE, cand |-> "q8_0",
         flags |-> FALSE, cached |-> FALSE]

Corpus == [Base EXCEPT !.skipA = TRUE, !.cached = TRUE]
Tokens == [Base EXCEPT !.skipB = TRUE]
Floor  == [Base EXCEPT !.floor = TRUE, !.axisA = "gtm"]
Needle == [Base EXCEPT !.skipA = TRUE, !.skipB = TRUE, !.rniah = TRUE]
Plad   == [Base EXCEPT !.skipA = TRUE, !.skipB = TRUE, !.plad = TRUE]
Empty  == [Base EXCEPT !.skipA = TRUE, !.skipB = TRUE, !.floor = TRUE]
Vllm   == [Base EXCEPT !.skipA = TRUE, !.backend = "vllm"]
Mlx    == [Base EXCEPT !.skipA = TRUE, !.backend = "mlx"]

Other(c) == [c EXCEPT !.cand = "turbo4"]

(* Two candidates scored alike, by each axis and each kind of engine, and  *)
(* pairs that were not scored alike.                                       *)
MCSessions ==
  {<<Corpus, Other(Corpus)>>, <<Tokens, Other(Tokens)>>, <<Floor, Empty>>,
   <<Needle, Other(Needle)>>, <<Plad, Other(Plad)>>, <<Empty, Needle>>, <<Needle, Mlx>>,
   <<Vllm, Other(Vllm)>>, <<Mlx, Mlx>>}

MCAnswers == {<<>>, <<"a">>}
MCDistributions == {Absent, "p", "q"}
=============================================================================
