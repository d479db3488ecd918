--------------------------- MODULE MCNativeSession ---------------------------
(* Values of the constants of NativeSession for TLC.                       *)
EXTENDS NativeSession

MCAdapters == {"llamacpp", "qualified", "vllm", "placed"}

=============================================================================
