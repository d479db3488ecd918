------------------------ MODULE MCStudyVerification ------------------------
(* Values of the constants of StudyVerification for TLC.                   *)
EXTENDS StudyVerification

Directory ==
  {"reference", "candidate", "report", "manifest", "verification", "worker-result"}

(* Every record that an execution may return, and every policy.            *)
AnyRecord == Unlaunched \union Launched
AnyPolicy == {"none", "PASS", "FAIL", "INSUFFICIENT_EVIDENCE"}

(* An interrupt anywhere.                                                  *)
Anywhere == Points \ {"done"}

=============================================================================
