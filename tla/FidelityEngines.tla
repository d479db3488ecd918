---------------------------- MODULE FidelityEngines ----------------------------
(***************************************************************************)
(* The vLLM engines of a scoring run: metria.fidelity.backends.vllm.       *)
(*                                                                         *)
(* One engine is cached under the key (cache type, context length); a call *)
(* for another key drops the cached one and loads.  An engine occupies the *)
(* accelerator as long as something refers to it: the cache, or a local    *)
(* variable of a call that has not returned.                               *)
(***************************************************************************)
EXTENDS Naturals, Sequences, FiniteSets

CONSTANTS
  Reference, Candidate,   \* the vLLM cache types of the two configurations
  PromptCount,            \* prompts of axes A and D
  MaxAxes                 \* axes of a run

VARIABLES
  calls,       \* engine requests of the axis that runs: [dtype, keep]
  cache,       \* the cached engine, a set of at most one [id, dtype]
  frame,       \* engines the axis still refers to
  loaded,      \* engines loaded so far
  axes         \* axes started

vars == <<calls, cache, frame, loaded, axes>>

Init == calls = <<>> /\ cache = {} /\ frame = {} /\ loaded = 0 /\ axes = 0

(* The model is as long as the default for every call.                     *)
Request(dtype)      == [dtype |-> dtype, keep |-> FALSE]
Times(n, request)   == [i \in 1..n |-> request]

Trajectory == Times(PromptCount, Request(Reference)) \o Times(PromptCount, Request(Candidate))

(* Answers are tokenized by an engine with the default cache type.         *)
Plad == Trajectory \o Times(2 * PromptCount, Request("auto"))

(* run_kld keeps the reference engine in a local variable while it asks    *)
(* for the candidate's.                                                    *)
KldPasses ==
  <<[dtype |-> Reference, keep |-> TRUE], [dtype |-> Candidate, keep |-> TRUE]>>

StartAxis ==
  /\ calls = <<>> /\ axes < MaxAxes /\ axes' = axes + 1
  /\ frame' = {}
  /\ calls' \in {Trajectory, Plad, KldPasses}
  /\ UNCHANGED <<cache, loaded>>

GetLlm ==
  /\ calls # <<>> /\ calls' = Tail(calls)
  /\ LET wanted == Head(calls)
         hit    == {e \in cache : e.dtype = wanted.dtype}
         engine == IF hit # {} THEN hit ELSE {[id |-> loaded + 1, dtype |-> wanted.dtype]}
     IN  /\ cache' = engine
         /\ loaded' = IF hit # {} THEN loaded ELSE loaded + 1
         /\ frame' = IF wanted.keep THEN frame \cup engine ELSE frame
  /\ UNCHANGED axes

Finished == calls = <<>> /\ axes = MaxAxes /\ UNCHANGED vars

Next == StartAxis \/ GetLlm \/ Finished

Spec == Init /\ [][Next]_vars

-----------------------------------------------------------------------------
Resident == cache \cup frame

(* At most one engine occupies the accelerator: the cached one is gone     *)
(* before another is loaded (docstring of _get_llm).                       *)
OneEngineResident == Cardinality(Resident) <= 1
=============================================================================
