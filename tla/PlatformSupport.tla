--------------------------- MODULE PlatformSupport ---------------------------
(* The support contract of the TurboQuant hardware diagnostic                *)
(* (src/metria/integrations/turboquant_diagnostics.py and                    *)
(* turboquant_diagnostic_runner.py): what a host is declared to support, what *)
(* the user skips, and what the backend probe of section 4 makes of both.    *)
EXTENDS Naturals, Sequences, FiniteSets

AllSections == 1..13
Benchmarks  == 5..13
Backends    == {"cuda", "rocm", "metal", "vulkan", "cpu"}
States      == {"supported", "degraded", "skipped", "unavailable"}
Hosts       == {"macos-apple-silicon", "macos-intel", "wsl", "linux",
                "windows-native", "unknown"}

(* The contract of a host: its status, the backends it may and may perhaps   *)
(* use, and the state of every section.                                      *)
HostStatus(host) ==
  CASE host \in {"macos-apple-silicon", "linux"} -> "supported"
    [] host = "wsl" -> "degraded"
    [] OTHER -> "unsupported"

SupportedBackends(host) ==
  CASE host = "macos-apple-silicon" -> {"metal"}
    [] host \in {"wsl", "linux"} -> {"cuda"}
    [] OTHER -> {}

DegradedBackends(host) ==
  IF host = "linux" THEN {"rocm", "vulkan", "cpu"} ELSE {}

HostSection(host, n) ==
  CASE HostStatus(host) = "unsupported" -> "unavailable"
    [] host = "wsl" /\ n \in {1, 2, 4, 12} -> "degraded"
    [] OTHER -> "supported"

HostSupport(host) ==
  [status |-> HostStatus(host), probe |-> "not-run", backend |-> "none",
   sections |-> [n \in AllSections |-> HostSection(host, n)]]

(* apply_runtime_skips: a section the user skips is listed as skipped, and   *)
(* in no other list.                                                         *)
Skips(stress, ppl) == (IF stress THEN {8} ELSE {}) \cup (IF ppl THEN {10} ELSE {})

WithSkips(support, stress, ppl) ==
  [support EXCEPT !.sections =
     [n \in AllSections |-> IF n \in Skips(stress, ppl) THEN "skipped" ELSE @[n]]]

(* detect_runtime_backend: a probe that failed says nothing; otherwise the   *)
(* first marker of its output in this order.                                 *)
MarkerOrder == <<"rocm", "cuda", "metal", "vulkan", "cpu">>

RuntimeBackend(failed, markers) ==
  LET found == {i \in 1..5 : MarkerOrder[i] \in markers}
  IN IF failed \/ found = {} THEN "unknown"
     ELSE MarkerOrder[CHOOSE i \in found : \A j \in found : i <= j]

ProbeStatus(failed, markers) ==
  CASE failed -> "failed"
    [] ~failed /\ RuntimeBackend(failed, markers) = "unknown" -> "inconclusive"
    [] OTHER -> "successful"

AssessedStatus_Lenient(host, status, probe, backend) ==  \* mistake: unknown is degraded
  CASE backend \in SupportedBackends(host) -> status
    [] backend \in DegradedBackends(host) \cup {"unknown"} -> "degraded"
    [] OTHER -> "unsupported"

AssessedStatus(host, status, probe, backend) ==
  IF probe # "successful" THEN "inconclusive"
  ELSE CASE backend \in SupportedBackends(host) -> status
         [] backend \in DegradedBackends(host) -> "degraded"
         [] OTHER -> "unsupported"

(* assess_runtime_backend: without a backend the host may use, everything    *)
(* behind the probe becomes unavailable, skipped sections included.          *)
Assessed(host, support, failed, markers) ==
  LET backend == RuntimeBackend(failed, markers)
      probe   == ProbeStatus(failed, markers)
      status  == AssessedStatus(host, support.status, probe, backend)
  IN [status |-> status, probe |-> probe, backend |-> backend,
      sections |-> [n \in AllSections |->
        IF status \in {"inconclusive", "unsupported"} /\ n \in Benchmarks
          THEN "unavailable" ELSE support.sections[n]]]

Supports == [status : {"supported", "degraded", "unsupported", "inconclusive"},
             probe : {"not-run", "successful", "failed", "inconclusive"},
             backend : Backends \cup {"none", "unknown"},
             sections : [AllSections -> States]]
==============================================================================
