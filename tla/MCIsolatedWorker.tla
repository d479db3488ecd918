-------------------------- MODULE MCIsolatedWorker --------------------------
(* Values of the constants of IsolatedWorker for TLC.                      *)
EXTENDS IsolatedWorker

Directory ==
  {"reference", "candidate", "report", "manifest", "verification", "worker-result"}

(* A run that completes and one that fails; what else a run may return is   *)
(* MCStudyVerification's question.                                         *)
TwoRecords == {r \in Launched : r.status \in {"completed", "failed"} /\ r.observed}

Everywhere == Ways \ {"done"}

=============================================================================
