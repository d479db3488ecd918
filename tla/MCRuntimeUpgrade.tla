--------------------------- MODULE MCRuntimeUpgrade ---------------------------
(* Values of the constants of RuntimeUpgrade for TLC: two versions of every  *)
(* part and two changes, so that a part can be exchanged and put back, and   *)
(* installations that agree or differ in one part.                           *)
EXTENDS RuntimeUpgrade

Same      == [r \in Roles |-> [p \in Parts |-> 0]]
Differ(p) == [Same EXCEPT !["candidate"][p] = 1]
MCInstalled == {Same} \cup {Differ(p) : p \in Parts}
==============================================================================
