------------------------------ MODULE Preflight ------------------------------
(***************************************************************************)
(* The two fail-closed conclusions drawn before a runtime is launched:      *)
(* whether a capability check blocks the run (metria.inspection), and       *)
(* whether the runtime can make the captures the measurement requires       *)
(* (metria.capture_support).  Both grade evidence on the same four levels.  *)
(***************************************************************************)
EXTENDS Integers, FiniteSets

CONSTANTS
  Checks,        \* names of the registered capability checks
  Overridable,   \* the checks that support an experimental override
  Captures,      \* capture kinds a measurement may require
  Qualifiable    \* the kinds a pinned capture binary can vouch for (token_ids)

ASSUME PreflightAssumption ==
  /\ IsFiniteSet(Checks) /\ IsFiniteSet(Captures)
  /\ Overridable \subseteq Checks
  /\ Qualifiable \subseteq Captures

SupportLevels == {"supported", "experimental", "unknown", "unsupported"}

Severity == [supported |-> 0, experimental |-> 1, unknown |-> 2, unsupported |-> 3]

-----------------------------------------------------------------------------
(* Capability checks.                                                      *)

(* What a check concludes: it does not apply, or a level for a capability  *)
(* that the run requires or merely reports.                                *)
NotApplicable == [status |-> "supported", required |-> FALSE]
Conclusions   == [status : SupportLevels, required : BOOLEAN]

(* An override counts when it is requested and the check supports it.      *)
Overrides(overrides) == overrides \intersect Overridable

Blocks(overrides, c, conclusion) ==
  /\ conclusion.required
  /\ \/ conclusion.status \in {"unsupported", "unknown"}
     \/ conclusion.status = "experimental" /\ c \notin Overrides(overrides)

(* An override naming no overridable check blocks the run by itself.       *)
Blocking(overrides, conclusions) ==
  \/ ~(overrides \subseteq Overridable)
  \/ \E c \in Checks : Blocks(overrides, c, conclusions[c])

-----------------------------------------------------------------------------
(* Capture negotiation.                                                    *)

(* What a runtime probe says of a capture kind: a level, or that the       *)
(* capture binary is there, unverified.                                    *)
Markers == SupportLevels \union {"binary_present_unverified"}

(* What comparing that binary with the qualified digest shows.             *)
Qualifications ==
  {"missing", "invalid", "path_missing", "unreadable", "mismatch", "match"}

(* ... and when the digest is the one an adapter was built with, which is  *)
(* there and well formed.                                                  *)
PinQualifications == Qualifications \ {"missing", "invalid"}

Qualified(qualification) ==
  CASE qualification = "match" -> "supported"
    [] qualification \in {"missing", "path_missing"} -> "unknown"
    [] OTHER -> "unsupported"

CaptureStatus(kind, marker, qualification) ==
  IF marker # "binary_present_unverified" THEN marker
  ELSE IF kind \in Qualifiable THEN Qualified(qualification) ELSE "unknown"

(* Mistake: the least severe level stands for all of them.                 *)
Worst_Best(levels) ==
  IF levels = {} THEN "supported"
  ELSE CHOOSE l \in levels : \A k \in levels : Severity[l] <= Severity[k]

(* _worst_status.                                                          *)
Worst(levels) ==
  IF levels = {} THEN "supported"
  ELSE CHOOSE l \in levels : \A k \in levels : Severity[k] <= Severity[l]

(* _fallback_from_runtime_probe over the required kinds: whose probe and   *)
(* whose digest it is, is the caller's choice (probe_capture_support).     *)
CaptureSupport(required, markers, qualification) ==
  Worst({CaptureStatus(k, markers[k], qualification) : k \in required})

=============================================================================
