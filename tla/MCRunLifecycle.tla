--------------------------- MODULE MCRunLifecycle ---------------------------
(* Values of the constants of RunLifecycle for TLC.                        *)
EXTENDS RunLifecycle

(* One check, which supports an override; the token ids that the llama.cpp *)
(* binary captures, and another kind of capture.                           *)
OneCheck == {"quantized_kv"}
TwoKinds == {"token_ids", "logits"}
TokenIds == {"token_ids"}

(* Every point where the code keeps its promise about sessions.            *)
Guarded  == Points \ {"launched", "close", "done"}

=============================================================================
