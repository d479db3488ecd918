---------------------------- MODULE MCServingBatch ----------------------------
(* Values of the constants of ServingBatch for TLC: three requests, two at a *)
(* time, so that one waits while others finish, fail or are cancelled.       *)
EXTENDS ServingBatch
==============================================================================
