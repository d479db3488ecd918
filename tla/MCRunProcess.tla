---------------------------- MODULE MCRunProcess ----------------------------
(* Values of the constants of RunProcess for TLC.                          *)
EXTENDS RunProcess

(* The command merged stderr into stdout: one pipe, one reader.            *)
MergedPipe == {"stdout"}

=============================================================================
