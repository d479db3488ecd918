--------------------------- MODULE MCDiagnosticRun ---------------------------
(* A small diagnostic for TLC: a host with and one without support, four     *)
(* outcomes of the probe, two decode depths and one stress depth, one        *)
(* sample, one failure and one Ctrl+C.                                       *)
EXTENDS DiagnosticRun

MCHosts  == {"linux", "windows-native"}
MCProbes == {[failed |-> TRUE, markers |-> {"cuda"}],
             [failed |-> FALSE, markers |-> {}],
             [failed |-> FALSE, markers |-> {"vulkan", "cpu"}],
             [failed |-> FALSE, markers |-> {"metal"}]}
MCDecode == <<0, 8192>>
MCStress == <<8192>>
MCDecodeRuns == [ratios : {<<90, 85>>, <<90, 70>>, <<110, NoRatio>>}, slow : {FALSE}]
                  \cup {[ratios |-> <<90, 85>>, slow |-> TRUE]}
MCStressRuns == {<<40>>, <<95>>}
MCDeltas == {50, 150}
==============================================================================
