-------------------------- MODULE RunLifecycleProofs --------------------------
(***************************************************************************)
(* Proofs about RunLifecycle and about the conclusions of Preflight.        *)
(***************************************************************************)
EXTENDS RunLifecycle, TLAPS

(* A set of levels whose worst one is "supported" holds nothing else: an   *)
(* unknown, experimental or unsupported capture is never averaged away.    *)
LEMMA WorstIsSevere ==
  ASSUME NEW L \in SUBSET SupportLevels, Worst(L) = "supported"
  PROVE  L \subseteq {"supported"}
<1> DEFINE Top(l) == \A k \in L : Severity[k] <= Severity[l]
<1>1. CASE L = {}
  BY <1>1
<1>2. CASE L # {}
  <2>1. \E l \in L : Top(l)
    <3>1. \A l \in SupportLevels : Severity[l] \in 0 .. 3
      BY DEF SupportLevels, Severity
    <3>2. CASE "unsupported" \in L
      BY <3>1, <3>2 DEF SupportLevels, Severity
    <3>3. CASE "unsupported" \notin L /\ "unknown" \in L
      BY <3>1, <3>3 DEF SupportLevels, Severity
    <3>4. CASE "unsupported" \notin L /\ "unknown" \notin L /\ "experimental" \in L
      BY <3>1, <3>4 DEF SupportLevels, Severity
    <3>5. CASE L = {"supported"}
      BY <3>1, <3>5 DEF SupportLevels, Severity
    <3> QED BY <1>2, <3>2, <3>3, <3>4, <3>5 DEF SupportLevels
  <2>2. Worst(L) = CHOOSE l \in L : Top(l)
    BY <1>2 DEF Worst
  <2>3. Worst(L) \in L /\ Top(Worst(L))
    BY <2>1, <2>2
  <2>4. \A k \in L : Severity[k] <= 0
    BY <2>3 DEF Severity
  <2> QED BY <2>4 DEF Severity, SupportLevels
<1> QED BY <1>1, <1>2

(* Negotiation succeeds only when each required capture is reported        *)
(* supported, or vouched for by the digest of the capture binary.          *)
LEMMA CapturesProven ==
  ASSUME NEW R \in SUBSET Captures, NEW M \in [Captures -> Markers],
         NEW q \in Qualifications, CaptureSupport(R, M, q) = "supported"
  PROVE  \A k \in R : \/ M[k] = "supported"
                      \/ /\ M[k] = "binary_present_unverified"
                         /\ k \in Qualifiable /\ q = "match"
<1> DEFINE L == {CaptureStatus(k, M[k], q) : k \in R}
<1>1. L \in SUBSET SupportLevels
  BY DEF CaptureStatus, Qualified, Markers, SupportLevels, Qualifications
<1>2. L \subseteq {"supported"}
  BY <1>1, WorstIsSevere DEF CaptureSupport
<1>3. \A k \in R : CaptureStatus(k, M[k], q) = "supported"
  BY <1>2
<1> QED BY <1>3 DEF CaptureStatus, Qualified, Qualifications

-----------------------------------------------------------------------------
(* The inductive invariant: what is known at each point of execute_run.    *)

(* Nothing has been launched.                                              *)
Before ==
  /\ session = "none" /\ failure = "none" /\ ~measured /\ observed = "none"
  /\ \A s \in Stages \ Preparing : answers[s] = "none"

(* What the failure status and the facts say of the measurement alone, ... *)
AfterMeasurement ==
  \/ answers["measurement"] = "ok" /\ measured /\ failure = "none"
  \/ answers["measurement"] = "timeout" /\ ~measured /\ failure = "timed_out"
  \/ answers["measurement"] = "raises" /\ ~measured /\ failure = "failed"

(* ... and of it and the stages after it, up to the given ones.            *)
AfterTry(later) ==
  /\ answers["observe"] \in {"ok", "raises"}
  /\ answers["observe"] = "ok" <=> observed # "none"
  /\ \/ /\ answers["measurement"] = "ok" /\ measured
        /\ failure = IF \A s \in later : answers[s] = "ok" THEN "none" ELSE "partial"
     \/ answers["measurement"] = "timeout" /\ ~measured /\ failure = "timed_out"
     \/ answers["measurement"] = "raises" /\ ~measured /\ failure = "failed"

Chart ==
  /\ pc \in Preparing \union {"launch"} => outcome = "none" /\ Before
  /\ pc \in {"launched", "measurement", "observe", "close"} =>
       session = "open" /\ answers["launch"] = "ok" /\ answers["close"] = "none"
  /\ pc = "finish" => session # "none" /\ answers["launch"] = "ok"
  /\ pc = "finish" /\ outcome = "none" => session = "released"
  /\ pc \in {"launched", "measurement"} =>
       /\ outcome = "none" /\ failure = "none" /\ ~measured /\ observed = "none"
       /\ answers["measurement"] = "none" /\ answers["observe"] = "none"
  /\ pc = "observe" =>
       /\ outcome = "none" /\ AfterMeasurement
       /\ observed = "none" /\ answers["observe"] = "none"
  /\ pc \in {"close", "finish"} => outcome \in {"none", "interrupted"}
  /\ pc = "close" /\ outcome = "none" => AfterTry({"observe"})
  /\ pc = "finish" /\ outcome = "none" =>
       AfterTry({"observe", "close"}) /\ answers["close"] \in {"ok", "raises"}
  /\ pc = "done" => outcome # "none"

(* A returned record, by the way the run went.                             *)
Returned ==
  \/ /\ status = "preflight_failed" /\ Before
  \/ /\ status = "failed" /\ answers["launch"] = "raises"
     /\ session = "none" /\ ~measured /\ observed = "none"
     /\ \A s \in {"measurement", "observe", "close"} : answers[s] = "none"
  \/ /\ answers["launch"] = "ok" /\ session = "released"
     /\ AfterTry({"observe", "close"}) /\ answers["close"] \in {"ok", "raises"}
     /\ status = IF failure = "none" THEN "completed" ELSE failure

(* Interrupts spare the steps from the launch to the try block and the     *)
(* finally block.                                                          *)
Unbroken == "launched" \notin InterruptPoints /\ "close" \notin InterruptPoints

RecordInv == outcome = "record" => pc = "done" /\ Returned
SessionInv ==
  /\ session = "open" /\ Unbroken => pc \in {"launched", "measurement", "observe", "close"}
  /\ answers["launch"] = "ok" <=> session # "none"

LifecycleTypes ==
  /\ pc \in Points
  /\ session \in {"none", "open", "released"}
  /\ failure \in {"none", "partial", "failed", "timed_out"}
  /\ measured \in BOOLEAN
  /\ observed \in {"none", "plain", "opaque"}
  /\ outcome \in {"none", "record", "raised", "interrupted"}
  /\ answers \in [Stages -> {"none", "ok", "raises", "timeout", "unsupported"}]

LifecycleInv == LifecycleTypes /\ Chart /\ RecordInv /\ SessionInv

USE DEF inputs, facts, Unlaunched, Proceeds, Logs, Points, Stages, Preparing

LEMMA LifecycleInit == Init => LifecycleInv
  BY DEF Init, LifecycleInv, LifecycleTypes, Chart, Before, RecordInv, SessionInv

LEMMA LifecycleStep ==
  ASSUME LifecycleInv, [Next]_vars
  PROVE  LifecycleInv'
<1> USE DEF LifecycleInv
<1>1. CASE NotRequested
  BY <1>1 DEF NotRequested, Answers, Refuses, Returns, LifecycleTypes, Chart,
     Before, RecordInv, Returned, SessionInv
<1>2. CASE Requirements
  BY <1>2 DEF Requirements, Answers, LifecycleTypes, Chart, Before, RecordInv, SessionInv
<1>3. CASE InspectCapabilities
  BY <1>3 DEF InspectCapabilities, Answers, Refuses, Returns, LifecycleTypes, Chart,
     Before, RecordInv, Returned, SessionInv
<1>4. CASE Probe
  BY <1>4 DEF Probe, Answers, Refuses, Returns, LifecycleTypes, Chart,
     Before, RecordInv, Returned, SessionInv
<1>5. CASE NegotiateCaptures
  BY <1>5 DEF NegotiateCaptures, Answers, Refuses, Returns, LifecycleTypes, Chart,
     Before, RecordInv, Returned, SessionInv
<1>6. CASE Resolve
  BY <1>6 DEF Resolve, Answers, LifecycleTypes, Chart, Before, RecordInv, SessionInv
<1>7. ASSUME NEW stage \in Preparing, PreflightRaises(stage) PROVE LifecycleInv'
  BY <1>7 DEF PreflightRaises, Answers, Refuses, Returns, LifecycleTypes, Chart,
     Before, RecordInv, Returned, SessionInv
<1>8. CASE Launch
  BY <1>8 DEF Launch, Answers, LifecycleTypes, Chart, Before, RecordInv, SessionInv
<1>9. CASE LaunchRaises
  BY <1>9 DEF LaunchRaises, Answers, Returns, LifecycleTypes, Chart, Before,
     RecordInv, Returned, SessionInv
<1>10. CASE EnterTry
  BY <1>10 DEF EnterTry, LifecycleTypes, Chart, Before, RecordInv, SessionInv
<1>11. CASE Measure
  <2> USE <1>11 DEF Measure, Answers, LifecycleTypes, Chart, RecordInv, SessionInv
  <2>1. LifecycleTypes' /\ RecordInv' /\ SessionInv'
    OBVIOUS
  <2>2. AfterMeasurement'
    BY DEF AfterMeasurement
  <2> QED BY <2>1, <2>2
<1>12. CASE Observe
  <2> USE <1>12, RunLifecycleAssumption DEF Observe, Answers, Downgrade,
      LifecycleTypes, Chart
  <2>1. LifecycleTypes' /\ RecordInv' /\ SessionInv'
    BY DEF RecordInv, SessionInv
  <2>2. CASE answers["observe"]' = "ok"
    <3>1. outcome' = "none" => AfterTry({"observe"})'
      BY <2>2 DEF AfterMeasurement, AfterTry
    <3> QED BY <2>1, <3>1 DEF SessionInv
  <2>3. CASE answers["observe"]' # "ok"
    <3>1. outcome' = "none" => AfterTry({"observe"})'
      BY <2>3 DEF AfterMeasurement, AfterTry
    <3> QED BY <2>1, <3>1 DEF SessionInv
  <2> QED BY <2>2, <2>3
<1>13. CASE Close
  <2> USE <1>13 DEF Close, Answers, Downgrade, LifecycleTypes, Chart
  <2>1. LifecycleTypes' /\ RecordInv' /\ SessionInv'
    BY DEF RecordInv, SessionInv
  <2>2. outcome' = "none" => AfterTry({"observe", "close"})'
    BY DEF AfterTry
  <2> QED BY <2>1, <2>2
<1>14. CASE Finish
  BY <1>14 DEF Finish, FinalStatus, Returns, LifecycleTypes, Chart, AfterTry,
     RecordInv, Returned, SessionInv
<1>15. CASE Interrupt
  <2>1. pc # "done"
    BY <1>15, RunLifecycleAssumption DEF Interrupt
  <2>2. LifecycleTypes' /\ Chart'
    BY <1>15, <2>1 DEF Interrupt, UnwindsTo, LifecycleTypes, Chart, Before
  <2>3. RecordInv' /\ SessionInv'
    BY <1>15, <2>1 DEF Interrupt, UnwindsTo, LifecycleTypes, Chart, RecordInv, SessionInv,
       Before, Unbroken
  <2> QED BY <2>2, <2>3
<1>16. CASE UNCHANGED vars
  BY <1>16 DEF vars, LifecycleTypes, Chart, Before, AfterMeasurement, AfterTry,
     RecordInv, Returned, SessionInv
<1> QED
  BY <1>1, <1>2, <1>3, <1>4, <1>5, <1>6, <1>7, <1>8, <1>9, <1>10, <1>11, <1>12,
     <1>13, <1>14, <1>15, <1>16 DEF Next, Finished

-----------------------------------------------------------------------------
(* With interrupts anywhere but between the launch and the try block or in *)
(* the finally block, a launched session is released by the time           *)
(* execute_run is left.                                                    *)
THEOREM SessionIsReleased ==
  ASSUME "launched" \notin InterruptPoints, "close" \notin InterruptPoints
  PROVE  Spec => []SessionReleased
<1>1. LifecycleInv => SessionReleased
  BY DEF LifecycleInv, LifecycleTypes, SessionInv, SessionReleased, Unbroken
<1> QED
  BY <1>1, LifecycleInit, LifecycleStep, PTL DEF Spec

(* The status of a returned record is the one the answers call for.        *)
THEOREM StatusIsHonest == Spec => []HonestStatus
<1>1. LifecycleInv => HonestStatus
  <2> SUFFICES ASSUME LifecycleInv, outcome = "record" PROVE HonestStatus
    BY DEF HonestStatus
  <2>1. Returned
    BY DEF LifecycleInv, RecordInv
  <2>2. CASE status = "preflight_failed" /\ Before
    BY <2>2 DEF Before, HonestStatus
  <2>3. CASE /\ status = "failed" /\ answers["launch"] = "raises"
             /\ \A s \in {"measurement", "observe", "close"} : answers[s] = "none"
    BY <2>3 DEF HonestStatus
  <2>4. CASE /\ answers["launch"] = "ok" /\ AfterTry({"observe", "close"})
             /\ answers["close"] \in {"ok", "raises"}
             /\ status = IF failure = "none" THEN "completed" ELSE failure
    <3>1. CASE answers["measurement"] = "timeout"
      BY <2>4, <3>1 DEF AfterTry, HonestStatus
    <3>2. CASE answers["measurement"] = "raises"
      BY <2>4, <3>2 DEF AfterTry, HonestStatus
    <3>3. CASE answers["measurement"] = "ok"
      BY <2>4, <3>3 DEF AfterTry, HonestStatus
    <3> QED BY <2>4, <3>1, <3>2, <3>3 DEF AfterTry
  <2> QED BY <2>1, <2>2, <2>3, <2>4 DEF Returned
<1> QED
  BY <1>1, LifecycleInit, LifecycleStep, PTL DEF Spec

-----------------------------------------------------------------------------
(* What the preflight has established, by the point it has reached.        *)
GuardInv ==
  /\ overrides \in SUBSET (Checks \union {"stray"})
  /\ conclusions \in [Checks -> Conclusions]
  /\ required \in SUBSET Captures
  /\ markers \in [Captures -> Markers]
  /\ qualification \in Qualifications
  /\ pc \in {"probe", "captures", "resolve", "launch"} \/ session # "none" =>
       ~Blocking(overrides, conclusions)
  /\ pc \in {"resolve", "launch"} \/ session # "none" =>
       CaptureSupport(required, markers, qualification) = "supported"

LEMMA GuardStep ==
  ASSUME LifecycleInv, GuardInv, [Next]_vars
  PROVE  GuardInv'
<1> USE DEF GuardInv
<1>0. pc \in Preparing \union {"launch"} => session = "none"
  BY DEF LifecycleInv, Chart, Before
<1>1. CASE NotRequested
  BY <1>0, <1>1 DEF NotRequested, Answers, Refuses, Returns
<1>2. CASE Requirements
  BY <1>0, <1>2 DEF Requirements, Answers
<1>3. CASE InspectCapabilities
  BY <1>0, <1>3 DEF InspectCapabilities, Answers, Refuses, Returns
<1>4. CASE Probe
  BY <1>0, <1>4 DEF Probe, Answers, Refuses, Returns
<1>5. CASE NegotiateCaptures
  BY <1>0, <1>5 DEF NegotiateCaptures, PinQualifications, Answers, Refuses, Returns
<1>6. CASE Resolve
  BY <1>0, <1>6 DEF Resolve, Answers
<1>7. ASSUME NEW stage \in Preparing, PreflightRaises(stage) PROVE GuardInv'
  BY <1>0, <1>7 DEF PreflightRaises, Answers, Refuses, Returns
<1>8. CASE Launch
  BY <1>8 DEF Launch, Answers
<1>9. CASE LaunchRaises
  BY <1>0, <1>9 DEF LaunchRaises, Answers, Returns
<1>10. CASE EnterTry
  BY <1>10 DEF EnterTry
<1>11. CASE Measure
  BY <1>11 DEF Measure, Answers
<1>12. CASE Observe
  BY <1>12 DEF Observe, Answers
<1>13. CASE Close
  BY <1>13 DEF Close, Answers, LifecycleInv, Chart
<1>14. CASE Finish
  BY <1>14 DEF Finish, Returns
<1>15. CASE Interrupt
  BY <1>0, <1>15 DEF Interrupt, UnwindsTo, LifecycleInv, Chart
<1>16. CASE UNCHANGED vars
  BY <1>16 DEF vars
<1> QED
  BY <1>1, <1>2, <1>3, <1>4, <1>5, <1>6, <1>7, <1>8, <1>9, <1>10, <1>11, <1>12,
     <1>13, <1>14, <1>15, <1>16 DEF Next, Finished

(* A launched run has every required capability and capture.               *)
THEOREM LaunchIsGuarded == Spec => []LaunchGuarded
<1>1. Init => GuardInv
  BY DEF Init, GuardInv, NotApplicable, Conclusions, SupportLevels, Markers, Qualifications
<1>2. LifecycleInv /\ GuardInv /\ [Next]_vars => GuardInv'
  BY GuardStep
<1>3. LifecycleInv /\ [Next]_vars => LifecycleInv'
  BY LifecycleStep
<1>4. GuardInv => LaunchGuarded
  <2> SUFFICES ASSUME GuardInv, session # "none" PROVE LaunchGuarded
    BY DEF LaunchGuarded
  <2>1. /\ ~Blocking(overrides, conclusions)
        /\ CaptureSupport(required, markers, qualification) = "supported"
    BY DEF GuardInv
  <2>2. /\ overrides \subseteq Overridable
        /\ \A c \in Checks : ~Blocks(overrides, c, conclusions[c])
    BY <2>1 DEF Blocking
  <2>3. \A c \in Checks : conclusions[c].status \in SupportLevels
    BY DEF GuardInv, Conclusions
  <2>4. \A k \in required : \/ markers[k] = "supported"
                            \/ /\ markers[k] = "binary_present_unverified"
                               /\ k \in Qualifiable /\ qualification = "match"
    BY <2>1, CapturesProven DEF GuardInv
  <2> QED
    BY <2>2, <2>3, <2>4 DEF LaunchGuarded, Blocks, Overrides, SupportLevels
<1> QED
  BY <1>1, <1>2, <1>3, <1>4, LifecycleInit, PTL DEF Spec

-----------------------------------------------------------------------------
(* The record of RunContract that a state of execute_run stands for.       *)
Shown == [status |-> status, measured |-> measured, observed |-> observed # "none"]
Result == IF outcome = "record" THEN Shown
          ELSE [status |-> IF pc = "done" THEN "escaped" ELSE "pending",
                measured |-> FALSE, observed |-> FALSE]

Legal ==
  Shown \in IF session = "none" THEN Contract!Unlaunched ELSE Contract!Launched

(* A returned record is one the contract allows.                           *)
LEMMA ShownIsLegal == LifecycleTypes /\ Returned => Legal
<1> SUFFICES ASSUME LifecycleTypes, Returned PROVE Legal
  OBVIOUS
<1> USE DEF LifecycleTypes, Legal
<1>1. CASE session = "none"
  <2>1. status \in {"preflight_failed", "failed"}
    BY <1>1 DEF Returned
  <2>2. measured = FALSE /\ (observed # "none") = FALSE
    BY <1>1 DEF Returned, Before
  <2> QED BY <1>1, <2>1, <2>2 DEF Shown, Contract!Unlaunched, Contract!RunRecord
<1>2. CASE session # "none"
  <2>1. /\ session = "released" /\ AfterTry({"observe", "close"})
        /\ status = IF failure = "none" THEN "completed" ELSE failure
    BY <1>2 DEF Returned, Before
  <2>2. status \in {"completed", "partial", "failed", "timed_out"}
    BY <2>1
  <2>3. status = "completed" => measured /\ observed # "none"
    BY <2>1 DEF AfterTry
  <2>4. status = "partial" => measured
    BY <2>1 DEF AfterTry
  <2>5. status \in {"failed", "timed_out"} => ~measured
    BY <2>1 DEF AfterTry
  <2> QED BY <2>1, <2>2, <2>3, <2>4, <2>5 DEF Shown, Contract!Launched, Contract!RunRecord
<1> QED BY <1>1, <1>2

LEMMA ShownIsLegalNext == LifecycleTypes' /\ Returned' => Legal'
  BY ShownIsLegal, PTL

(* A step that ends the run returns such a record or escapes.              *)
LEMMA EndIsLegal ==
  ASSUME LifecycleInv, LifecycleInv', Unbroken, pc # "done", pc' = "done",
         outcome # "record", session' = session
  PROVE  Contract!Next
<1>1. session # "open" /\ session \in {"none", "released"}
  BY DEF LifecycleInv, LifecycleTypes, SessionInv, Unbroken
<1>2. Result = Contract!Pending
  BY DEF Result, Contract!Pending
<1>3. CASE outcome' = "record"
  <2>1. Shown' \in IF session = "none" THEN Contract!Unlaunched ELSE Contract!Launched
    BY <1>3, ShownIsLegalNext DEF LifecycleInv, RecordInv, Legal
  <2>2. Result' = Shown'
    BY <1>3 DEF Result
  <2> QED BY <1>1, <1>2, <2>1, <2>2
    DEF Contract!Next, Contract!Return, Result, Shown
<1>4. CASE outcome' # "record"
  <2>1. Result' = Contract!Escaped
    BY <1>4 DEF Result, Contract!Escaped
  <2> QED BY <1>1, <1>2, <2>1 DEF Contract!Next, Contract!Escape, Result, Shown
<1> QED BY <1>3, <1>4

(* What a step does with the session, and that it is not taken at the end. *)
SessionMoves ==
  \/ session' = session
  \/ session = "none" /\ session' = "open" /\ pc' = "launched"
  \/ session = "open" /\ session' = "released" /\ pc' = "finish"

LEMMA StepShape ==
  ASSUME LifecycleInv, Unbroken, Next, ~Finished
  PROVE  pc # "done" /\ SessionMoves
<1> USE DEF SessionMoves
<1>1. CASE \/ NotRequested \/ Requirements \/ InspectCapabilities \/ Probe
           \/ NegotiateCaptures \/ Resolve
  BY <1>1 DEF NotRequested, Requirements, InspectCapabilities, Probe,
     NegotiateCaptures, Resolve, Answers
<1>2. ASSUME NEW stage \in Preparing, PreflightRaises(stage)
      PROVE  pc # "done" /\ SessionMoves
  BY <1>2 DEF PreflightRaises, Answers
<1>3. CASE LaunchRaises \/ EnterTry \/ Measure \/ Observe \/ Finish
  BY <1>3 DEF LaunchRaises, EnterTry, Measure, Observe, Finish, Answers
<1>4. CASE Launch
  BY <1>4 DEF Launch, Answers, LifecycleInv, Chart, Before
<1>5. CASE Close
  BY <1>5 DEF Close, Answers, LifecycleInv, Chart
<1>6. CASE Interrupt
  BY <1>6, RunLifecycleAssumption DEF Unbroken, Interrupt, UnwindsTo, LifecycleInv, Chart
<1> QED BY <1>1, <1>2, <1>3, <1>4, <1>5, <1>6 DEF Next

(* A step that neither ends the run nor touches the session is a stutter,  *)
(* and one that only opens or releases it is a step of the contract.       *)
LEMMA SessionStep ==
  ASSUME LifecycleInv, pc # "done", pc' # "done", outcome # "record",
         outcome' # "record",
         \/ session' = session
         \/ session = "none" /\ session' = "open"
         \/ session = "open" /\ session' = "released"
  PROVE  Contract!Next \/ UNCHANGED <<session, Result>>
  BY DEF Result, Shown, Contract!Next, Contract!Open, Contract!Release, Contract!Pending

(* execute_run implements RunContract: one session at most, released       *)
(* before a record is returned whose status its evidence supports, or      *)
(* before an exception leaves it that did not land where SessionIsReleased *)
(* excepts it.                                                             *)
THEOREM ContractIsKept ==
  ASSUME "launched" \notin InterruptPoints, "close" \notin InterruptPoints
  PROVE  Spec => KeepsContract
<1>1. Init => Contract!Init
  BY DEF Init, Contract!Init, Contract!Pending
<1>2. LifecycleInv /\ [Next]_vars => LifecycleInv'
  BY LifecycleStep
<1>0. Unbroken
  BY DEF Unbroken
<1>3. LifecycleInv /\ LifecycleInv' /\ [Next]_vars => [Contract!Next]_(Contract!contract)
  <2> SUFFICES ASSUME LifecycleInv, LifecycleInv', [Next]_vars
               PROVE  Contract!Next \/ UNCHANGED <<session, Result>>
    BY DEF Contract!contract, Result, Shown
  <2>1. CASE UNCHANGED vars
    BY <2>1 DEF vars, Result, Shown
  <2>2. CASE Next /\ ~Finished
    <3>1. pc # "done" /\ SessionMoves
      BY <1>0, <2>2, StepShape
    <3>2. outcome # "record"
      BY <3>1 DEF LifecycleInv, RecordInv
    <3>3. pc' # "done" => outcome' # "record"
      BY DEF LifecycleInv, RecordInv
    <3> QED BY <1>0, <3>1, <3>2, <3>3, EndIsLegal, SessionStep DEF SessionMoves
  <2> QED BY <2>1, <2>2 DEF Next, Finished
<1> QED
  BY <1>1, <1>2, <1>3, LifecycleInit, PTL DEF Spec, KeepsContract, Contract!Spec

-----------------------------------------------------------------------------
(* The error events name the stages that raised.                           *)
Names == Stages \union {"preflight"}
Kinds == {"error", "completed", "supported", "unsupported", "measurement_not_requested",
          "capability_blocked", "capture_requirements_blocked"}
Bad        == {"raises", "timeout"}
Raised     == {s \in Stages : answers[s] \in Bad}
Errors(ev) == {ev[i][1] : i \in {j \in 1 .. Len(ev) : ev[j][2] = "error"}}

EventInv ==
  /\ events \in Seq(Names \X Kinds)
  /\ Raised = Errors(events)
  /\ pc \in Preparing \union {"launch"} => Raised = {}

LEMMA AppendFacts ==
  ASSUME NEW S, NEW ev \in Seq(S), NEW e \in S
  PROVE  /\ Append(ev, e) \in Seq(S) /\ Len(Append(ev, e)) = Len(ev) + 1 /\ Len(ev) \in Nat
         /\ \A i \in 1 .. Len(ev) : Append(ev, e)[i] = ev[i]
         /\ Append(ev, e)[Len(ev) + 1] = e
  OBVIOUS

LEMMA ErrorsAppend ==
  ASSUME NEW ev \in Seq(Names \X Kinds), NEW s \in Names, NEW k \in Kinds
  PROVE  /\ Append(ev, <<s, k>>) \in Seq(Names \X Kinds)
         /\ Errors(Append(ev, <<s, k>>)) = Errors(ev) \union (IF k = "error" THEN {s} ELSE {})
<1> DEFINE new == Append(ev, <<s, k>>)
           n   == Len(ev) + 1
<1>0. <<s, k>> \in Names \X Kinds
  OBVIOUS
<1>1. new \in Seq(Names \X Kinds) /\ Len(new) = n /\ Len(ev) \in Nat
  BY <1>0, AppendFacts
<1>2. \A i \in 1 .. Len(ev) : new[i] = ev[i]
  BY <1>0, AppendFacts
<1>3. new[n] = <<s, k>>
  BY <1>0, AppendFacts
<1>4. \A i \in 1 .. n : i \in 1 .. Len(ev) \/ i = n
  BY <1>1
<1> HIDE DEF new, n
<1>5. Errors(new) = Errors(ev) \union (IF k = "error" THEN {s} ELSE {})
  <2>1. ASSUME NEW e \in Errors(new)
        PROVE  e \in Errors(ev) \union (IF k = "error" THEN {s} ELSE {})
    <3>1. PICK i \in 1 .. n : new[i][2] = "error" /\ e = new[i][1]
      BY <1>1 DEF Errors
    <3>2. CASE i \in 1 .. Len(ev)
      BY <1>2, <3>1, <3>2 DEF Errors
    <3>3. CASE i = n
      BY <1>3, <3>1, <3>3
    <3> QED BY <1>4, <3>2, <3>3
  <2>2. ASSUME NEW e \in Errors(ev)
        PROVE  e \in Errors(new)
    <3>1. PICK i \in 1 .. Len(ev) : ev[i][2] = "error" /\ e = ev[i][1]
      BY DEF Errors
    <3>2. i \in 1 .. Len(new)
      BY <1>1 DEF n
    <3> QED BY <1>2, <3>1, <3>2 DEF Errors
  <2>3. k = "error" => s \in Errors(new)
    <3>1. n \in 1 .. Len(new)
      BY <1>1 DEF n
    <3> QED BY <1>3, <3>1 DEF Errors
  <2> QED BY <2>1, <2>2, <2>3
<1> QED BY <1>1, <1>5 DEF new

LEMMA QuietAppend ==
  ASSUME NEW ev \in Seq(Names \X Kinds), NEW s \in Names, NEW k \in Kinds, k # "error"
  PROVE  /\ Append(ev, <<s, k>>) \in Seq(Names \X Kinds)
         /\ Errors(Append(ev, <<s, k>>)) = Errors(ev)
<1>1. Errors(Append(ev, <<s, k>>)) = Errors(ev) \union (IF k = "error" THEN {s} ELSE {})
  BY ErrorsAppend
<1>2. Append(ev, <<s, k>>) \in Seq(Names \X Kinds)
  BY ErrorsAppend
<1> QED BY <1>1, <1>2

LEMMA LoudAppend ==
  ASSUME NEW ev \in Seq(Names \X Kinds), NEW s \in Names, NEW k \in Kinds, k = "error"
  PROVE  /\ Append(ev, <<s, k>>) \in Seq(Names \X Kinds)
         /\ Errors(Append(ev, <<s, k>>)) = Errors(ev) \union {s}
<1>1. Errors(Append(ev, <<s, k>>)) = Errors(ev) \union (IF k = "error" THEN {s} ELSE {})
  BY ErrorsAppend
<1>2. Append(ev, <<s, k>>) \in Seq(Names \X Kinds)
  BY ErrorsAppend
<1> QED BY <1>1, <1>2

(* What a step does to the events and to the stages that raised: nothing,   *)
(* an entry that is no error, or the error of the stage that raises.        *)
Early == pc \in Preparing \union {"launch"}
Quiet == \/ UNCHANGED events
         \/ \E s \in Names, k \in Kinds : k # "error" /\ events' = Append(events, <<s, k>>)
Loud(s) == \E k \in Kinds : k = "error" /\ events' = Append(events, <<s, k>>)

LEMMA LogsQuiet ==
  ASSUME NEW s \in Names, NEW k \in Kinds, k # "error", Logs(s, k)
  PROVE  Quiet
BY DEF Quiet

LEMMA LogsLoud ==
  ASSUME NEW s \in Stages, Logs(s, "error")
  PROVE  Loud(s)
<1>1. "error" \in Kinds
  BY DEF Kinds
<1> QED BY <1>1 DEF Loud

LEMMA QuietStep ==
  ASSUME EventInv, Quiet, Raised' = Raised, Early' => Early
  PROVE  EventInv'
<1>1. events \in Seq(Names \X Kinds)
  BY DEF EventInv
<1>2. (Errors(events))' = Errors(events')
  BY DEF Errors
<1>3. CASE UNCHANGED events
  BY <1>2, <1>3 DEF EventInv, Early
<1>4. ASSUME NEW s \in Names, NEW k \in Kinds, k # "error",
             events' = Append(events, <<s, k>>)
      PROVE  EventInv'
  <2>1. events' \in Seq(Names \X Kinds) /\ Errors(events') = Errors(events)
    BY <1>1, <1>4, QuietAppend
  <2> QED BY <1>2, <2>1 DEF EventInv, Early
<1> QED BY <1>3, <1>4 DEF Quiet

LEMMA LoudStep ==
  ASSUME EventInv, NEW s \in Names, Loud(s), Raised' = Raised \union {s}, ~Early'
  PROVE  EventInv'
<1>1. events \in Seq(Names \X Kinds)
  BY DEF EventInv
<1>2. (Errors(events))' = Errors(events')
  BY DEF Errors
<1>3. PICK k \in Kinds : k = "error" /\ events' = Append(events, <<s, k>>)
  BY DEF Loud
<1>4. events' \in Seq(Names \X Kinds) /\ Errors(events') = Errors(events) \union {s}
  BY <1>1, <1>3, LoudAppend
<1> QED BY <1>2, <1>4 DEF EventInv, Early

(* A stage that had not answered answers.                                   *)
LEMMA RaisedStep ==
  ASSUME LifecycleInv, NEW s \in Stages, NEW a, Answers(s, a), answers[s] \notin Bad
  PROVE  Raised' = IF a \in Bad THEN Raised \union {s} ELSE Raised
BY DEF LifecycleInv, LifecycleTypes, Raised, Answers, Bad

LEMMA NotYetRaised ==
  ASSUME LifecycleInv, EventInv
  PROVE  /\ Early => answers[pc] \notin Bad
         /\ pc \in {"measurement", "observe", "close"} => answers[pc] \notin Bad
BY DEF LifecycleInv, Chart, EventInv, Early, Raised, Bad

LEMMA EventStep ==
  ASSUME LifecycleInv, EventInv, [Next]_vars
  PROVE  EventInv'
<1>0. pc \in Points
  BY DEF LifecycleInv, LifecycleTypes
<1>1. ASSUME NEW s \in Stages, NEW a, Answers(s, a), a \notin Bad, Quiet, Early' => Early
      PROVE  EventInv'
  <2>1. answers[s] \notin Bad
    BY <1>1, NotYetRaised DEF Answers, Early
  <2>2. Raised' = Raised
    BY <1>1, <2>1, RaisedStep
  <2> QED BY <1>1, <2>2, QuietStep
<1>2. ASSUME NEW s \in Stages, NEW a, Answers(s, a), a \in Bad, Loud(s), ~Early'
      PROVE  EventInv'
  <2>1. answers[s] \notin Bad
    BY <1>2, NotYetRaised DEF Answers, Early
  <2>2. Raised' = Raised \union {s}
    BY <1>2, <2>1, RaisedStep
  <2>3. s \in Names
    BY DEF Names
  <2> QED BY <1>2, <2>2, <2>3, LoudStep
<1>3. ASSUME UNCHANGED answers, Quiet, Early' => Early
      PROVE  EventInv'
  BY <1>3, QuietStep DEF Raised
<1>4. CASE NotRequested
  <2>1. Answers("requirements", "none") /\ ~Early'
        /\ Logs("preflight", "measurement_not_requested")
    BY <1>4 DEF NotRequested, Refuses, Returns, Early
  <2>2. Quiet
    BY <2>1, LogsQuiet DEF Names, Kinds
  <2> QED BY <2>1, <2>2, <1>1 DEF Bad
<1>5. CASE Requirements
  <2>1. Answers("requirements", "ok") /\ Quiet /\ Early
    BY <1>5 DEF Requirements, Quiet, Early, Answers
  <2> QED BY <2>1, <1>1 DEF Bad
<1>6. CASE InspectCapabilities
  <2>1. Answers("capabilities", "ok") /\ Early
    BY <1>6 DEF InspectCapabilities, Early, Answers
  <2>2. UNCHANGED events \/ Logs("preflight", "capability_blocked")
    BY <1>6 DEF InspectCapabilities, Refuses
  <2>3. Quiet
    BY <2>2, LogsQuiet DEF Quiet, Names, Kinds
  <2> QED BY <2>1, <2>3, <1>1 DEF Bad
<1>7. CASE Probe
  <2>1. ASSUME NEW a \in {"ok", "unsupported"}, Answers("probe", a), Quiet
        PROVE  EventInv'
    BY <2>1, <1>1 DEF Bad, Early, Answers
  <2>2. UNCHANGED events \/ Logs("preflight", "unsupported")
    BY <1>7 DEF Probe, Refuses
  <2>3. Quiet
    BY <2>2, LogsQuiet DEF Quiet, Names, Kinds
  <2> QED BY <1>7, <2>1, <2>3 DEF Probe
<1>8. CASE NegotiateCaptures
  <2>1. Answers("captures", "ok") /\ Early
    BY <1>8 DEF NegotiateCaptures, Early, Answers
  <2>2. Logs("preflight", "supported") \/ Logs("preflight", "capture_requirements_blocked")
    BY <1>8 DEF NegotiateCaptures, Refuses
  <2>3. Quiet
    BY <2>2, LogsQuiet DEF Names, Kinds
  <2> QED BY <2>1, <2>3, <1>1 DEF Bad
<1>9. CASE Resolve
  <2>1. Answers("resolve", "ok") /\ Quiet /\ Early
    BY <1>9 DEF Resolve, Quiet, Early, Answers
  <2> QED BY <2>1, <1>1 DEF Bad
<1>10. ASSUME NEW s \in Preparing, PreflightRaises(s)
       PROVE  EventInv'
  <2>1. Answers(s, "raises") /\ Logs(s, "error") /\ ~Early'
    BY <1>10 DEF PreflightRaises, Refuses, Returns, Early
  <2>2. Loud(s)
    BY <2>1, LogsLoud
  <2> QED BY <2>1, <2>2, <1>2 DEF Bad
<1>11. CASE Launch
  <2>1. Answers("launch", "ok") /\ Quiet /\ Early
    BY <1>11 DEF Launch, Quiet, Early, Answers
  <2> QED BY <2>1, <1>1 DEF Bad
<1>12. CASE LaunchRaises
  <2>1. Answers("launch", "raises") /\ Logs("launch", "error") /\ ~Early'
    BY <1>12 DEF LaunchRaises, Returns, Early
  <2>2. Loud("launch")
    BY <2>1, LogsLoud
  <2> QED BY <2>1, <2>2, <1>2 DEF Bad
<1>13. CASE EnterTry
  <2>1. UNCHANGED answers /\ Logs("launch", "completed") /\ ~Early'
    BY <1>13 DEF EnterTry, Early
  <2>2. Quiet
    BY <2>1, LogsQuiet DEF Names, Kinds
  <2> QED BY <2>1, <2>2, <1>3
<1>14. CASE Measure
  <2>1. CASE Answers("measurement", "ok") /\ Logs("measurement", "completed")
    <3>1. Quiet
      BY <2>1, LogsQuiet DEF Names, Kinds
    <3>2. ~Early'
      BY <1>14 DEF Measure, Early
    <3> QED BY <2>1, <3>1, <3>2, <1>1 DEF Bad
  <2>2. CASE Answers("measurement", "timeout") /\ Logs("measurement", "error")
    <3>1. Loud("measurement")
      BY <2>2, LogsLoud
    <3>2. ~Early'
      BY <1>14 DEF Measure, Early
    <3> QED BY <2>2, <3>1, <3>2, <1>2 DEF Bad
  <2>3. CASE Answers("measurement", "raises") /\ Logs("measurement", "error")
    <3>1. Loud("measurement")
      BY <2>3, LogsLoud
    <3>2. ~Early'
      BY <1>14 DEF Measure, Early
    <3> QED BY <2>3, <3>1, <3>2, <1>2 DEF Bad
  <2> QED BY <1>14, <2>1, <2>2, <2>3 DEF Measure
<1>15. CASE Observe
  <2>1. CASE Answers("observe", "ok") /\ Logs("observe", "completed")
    <3>1. Quiet
      BY <2>1, LogsQuiet DEF Names, Kinds
    <3>2. ~Early'
      BY <1>15 DEF Observe, Early
    <3> QED BY <2>1, <3>1, <3>2, <1>1 DEF Bad
  <2>2. CASE Answers("observe", "raises") /\ Logs("observe", "error")
    <3>1. Loud("observe")
      BY <2>2, LogsLoud
    <3>2. ~Early'
      BY <1>15 DEF Observe, Early
    <3> QED BY <2>2, <3>1, <3>2, <1>2 DEF Bad
  <2> QED BY <1>15, <2>1, <2>2 DEF Observe
<1>16. CASE Close
  <2>1. CASE Answers("close", "ok") /\ Logs("close", "completed")
    <3>1. Quiet
      BY <2>1, LogsQuiet DEF Names, Kinds
    <3>2. ~Early'
      BY <1>16 DEF Close, Early
    <3> QED BY <2>1, <3>1, <3>2, <1>1 DEF Bad
  <2>2. CASE Answers("close", "raises") /\ Logs("close", "error")
    <3>1. Loud("close")
      BY <2>2, LogsLoud
    <3>2. ~Early'
      BY <1>16 DEF Close, Early
    <3> QED BY <2>2, <3>1, <3>2, <1>2 DEF Bad
  <2> QED BY <1>16, <2>1, <2>2 DEF Close
<1>17. CASE Finish
  BY <1>17, <1>3 DEF Finish, Returns, Quiet, Early
<1>18. CASE Interrupt
  BY <1>18, <1>3 DEF Interrupt, UnwindsTo, Quiet, Early
<1>19. CASE UNCHANGED vars
  BY <1>19, <1>3 DEF vars, Quiet, Early
<1> QED
  BY <1>4, <1>5, <1>6, <1>7, <1>8, <1>9, <1>10, <1>11, <1>12, <1>13, <1>14,
     <1>15, <1>16, <1>17, <1>18, <1>19 DEF Next, Finished

(* The status, the facts and the error events of a record are the ones the  *)
(* collaborators' answers call for, wherever an interrupt lands.            *)
THEOREM NothingIsDiscarded == Spec => []NothingDiscarded
<1>1. Init => EventInv
  <2>1. ASSUME Init PROVE Raised = {}
    BY <2>1 DEF Init, Raised, Bad
  <2>2. Errors(<<>>) = {} /\ <<>> \in Seq(Names \X Kinds)
    BY DEF Errors
  <2> QED BY <2>1, <2>2 DEF Init, EventInv
<1>2. LifecycleInv /\ EventInv => NothingDiscarded
  <2> SUFFICES ASSUME LifecycleInv, EventInv, outcome = "record"
               PROVE  /\ measured <=> answers["measurement"] = "ok"
                      /\ observed # "none" <=> answers["observe"] = "ok"
                      /\ {s \in Stages : answers[s] \in {"raises", "timeout"}}
                           = {e[1] : e \in {events[i] : i \in {j \in 1 .. Len(events) :
                                               events[j][2] = "error"}}}
    BY DEF NothingDiscarded
  <2>1. measured <=> answers["measurement"] = "ok"
    BY DEF LifecycleInv, LifecycleTypes, RecordInv, Returned, Before, AfterTry
  <2>2. observed # "none" <=> answers["observe"] = "ok"
    BY DEF LifecycleInv, LifecycleTypes, RecordInv, Returned, Before, AfterTry
  <2>3. Errors(events) = {e[1] : e \in {events[i] : i \in {j \in 1 .. Len(events) :
                                               events[j][2] = "error"}}}
    BY DEF Errors
  <2> QED BY <2>1, <2>2, <2>3 DEF EventInv, Raised, Bad
<1>3. LifecycleInv /\ EventInv /\ [Next]_vars => LifecycleInv' /\ EventInv'
  BY LifecycleStep, EventStep
<1> QED BY <1>1, <1>2, <1>3, LifecycleInit, PTL DEF Spec

(* The record execute_run returns tells how the run went, and all of it.    *)
THEOREM RecordIsHonest == Spec => []RecordHonest
<1>1. HonestStatus /\ NothingDiscarded => RecordHonest
  BY DEF RecordHonest
<1> QED BY <1>1, StatusIsHonest, NothingIsDiscarded, PTL

=============================================================================
