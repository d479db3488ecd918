----------------------------- MODULE RunContract -----------------------------
(***************************************************************************)
(* What one execution promises its caller (docs/architecture/               *)
(* metria-core.md): it opens at most one runtime session, lets go of it     *)
(* before it is left, and returns a record whose status says no more than   *)
(* the evidence in it.                                                      *)
(***************************************************************************)
EXTENDS RunRecords

VARIABLES
  session,   \* none | open | released
  result     \* Pending, the returned record, or Escaped (an exception)

contract == <<session, result>>

Pending == [status |-> "pending", measured |-> FALSE, observed |-> FALSE]
Escaped == [status |-> "escaped", measured |-> FALSE, observed |-> FALSE]

Init == session = "none" /\ result = Pending

Open    == session = "none" /\ session' = "open" /\ UNCHANGED result
Release == session = "open" /\ session' = "released" /\ UNCHANGED result

Return ==
  /\ session # "open"
  /\ result' \in IF session = "none" THEN Unlaunched ELSE Launched
  /\ UNCHANGED session

Escape == session # "open" /\ result' = Escaped /\ UNCHANGED session

Next == result = Pending /\ (Open \/ Release \/ Return \/ Escape)

Spec == Init /\ [][Next]_contract

=============================================================================
