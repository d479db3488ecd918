----------------------------- MODULE RunRecords -----------------------------
(* The records an execution may return (metria.models.RunRecord), by their *)
(* status and the evidence they hold.                                      *)

RunRecord == [status : {"preflight_failed", "failed", "timed_out", "partial",
                        "completed"},
              measured : BOOLEAN, observed : BOOLEAN]

(* Records of a run that opened no session, and of one that did.           *)
Unlaunched == {r \in RunRecord : /\ r.status \in {"preflight_failed", "failed"}
                                 /\ ~r.measured /\ ~r.observed}
Launched ==
  {r \in RunRecord :
     /\ r.status # "preflight_failed"
     /\ r.status = "completed" => r.measured /\ r.observed
     /\ r.status = "partial" => r.measured
     /\ r.status \in {"failed", "timed_out"} => ~r.measured}

=============================================================================
