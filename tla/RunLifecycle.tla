---------------------------- MODULE RunLifecycle ----------------------------
(***************************************************************************)
(* metria.execution.execute_run: one requested run, from preflight to the   *)
(* record it returns.  Everything the executor calls (measurement, adapter, *)
(* session, capability checks) may answer, raise, or be interrupted by a    *)
(* KeyboardInterrupt; the executor's own steps are the control around them. *)
(***************************************************************************)
EXTENDS Preflight, Sequences

CONSTANTS
  Values,            \* the values resolve and observe may return: "plain", and
                     \* "opaque", a value freeze_mapping rejects
  InterruptPoints    \* where a KeyboardInterrupt may land

(* The collaborators in the order they are called; pc names the next one.  *)
Preparing == {"requirements", "capabilities", "probe", "captures", "resolve"}
Stages    == Preparing \union {"launch", "measurement", "observe", "close"}
Points    == Stages \union {"launched", "finish", "done"}

ASSUME RunLifecycleAssumption ==
  /\ Values \subseteq {"plain", "opaque"}
  /\ InterruptPoints \subseteq Points \ {"done"}

VARIABLES
  pc,
  overrides,    \* capability_overrides of the run's trial policy
  conclusions,  \* [Checks -> what each capability check concluded]
  required,     \* the capture kinds the measurement requires
  markers,      \* [Captures -> the last probe's evidence for the kind]
  qualification,\* what hashing the capture binary showed
  session,      \* none | open | released
  events,       \* the lifecycle events, <<stage, kind>>
  failure,      \* failure_status
  measured,     \* the record holds metrics and evidence
  resolved,     \* none, plain or opaque
  observed,
  outcome,      \* none | record | raised | interrupted
  status,       \* the status of the returned record
  answers       \* history: [Stages -> how the collaborator answered]

inputs == <<overrides, conclusions, required, markers, qualification>>
facts  == <<measured, resolved, observed>>
vars   == <<pc, inputs, session, events, failure, facts, outcome, status, answers>>

Init ==
  /\ pc = "requirements"
  /\ overrides \in SUBSET (Checks \union {"stray"})
  /\ conclusions = [c \in Checks |-> NotApplicable]
  /\ required = {}
  /\ markers = [k \in Captures |-> "unknown"]
  /\ qualification = "missing"
  /\ session = "none"
  /\ events = <<>>
  /\ failure = "none"
  /\ measured = FALSE
  /\ resolved = "none" /\ observed = "none"
  /\ outcome = "none"
  /\ status = "none"
  /\ answers = [s \in Stages |-> "none"]

-----------------------------------------------------------------------------
(* The calls.                                                              *)

(* The collaborator of the current stage answers, leaving an event if any. *)
Answers(stage, answer) ==
  pc = stage /\ answers' = [answers EXCEPT ![stage] = answer]
Logs(stage, kind) == events' = Append(events, <<stage, kind>>)

(* _record: the record is built, or freezing what it holds raises.         *)
Returns(verdict) ==
  /\ pc' = "done"
  /\ IF "opaque" \in {resolved, observed}
     THEN outcome' = "raised" /\ UNCHANGED status
     ELSE outcome' = "record" /\ status' = verdict

(* A preflight stage lets the run go on, refuses it, or raises.            *)
Proceeds(next) == pc' = next /\ UNCHANGED <<outcome, status>>

Refuses(stage, kind) == Logs(stage, kind) /\ Returns("preflight_failed")
Unlaunched == UNCHANGED <<overrides, session, failure, facts>>

PreflightRaises(stage) ==
  /\ Answers(stage, "raises") /\ stage \in Preparing
  /\ Refuses(stage, "error")
  /\ Unlaunched /\ UNCHANGED <<conclusions, required, markers, qualification>>

(* The measurement is not among the ones the run requests.                 *)
NotRequested ==
  /\ Answers("requirements", "none")
  /\ Refuses("preflight", "measurement_not_requested")
  /\ Unlaunched /\ UNCHANGED <<conclusions, required, markers, qualification>>

(* normalize_capture_requests: duplicate kinds raise, so a set is enough.  *)
Requirements ==
  /\ Answers("requirements", "ok")
  /\ required' \in SUBSET Captures
  /\ Proceeds("capabilities")
  /\ Unlaunched /\ UNCHANGED <<conclusions, markers, qualification, events>>

InspectCapabilities ==
  /\ Answers("capabilities", "ok")
  /\ conclusions' \in [Checks -> Conclusions]
  /\ IF Blocking(overrides, conclusions')
     THEN Refuses("preflight", "capability_blocked")
     ELSE Proceeds("probe") /\ UNCHANGED events
  /\ Unlaunched /\ UNCHANGED <<required, markers, qualification>>

Probe ==
  /\ markers' \in [Captures -> Markers]
  /\ \/ /\ Answers("probe", "ok")
        /\ Proceeds("captures") /\ UNCHANGED events
     \/ /\ Answers("probe", "unsupported")
        /\ Refuses("preflight", "unsupported")
  /\ Unlaunched /\ UNCHANGED <<conclusions, required, qualification>>

(* probe_capture_support: an adapter without probe_captures is judged by   *)
(* the evidence of its probe; the qualified llama.cpp adapter probes again *)
(* and puts its own pin in the place of the environment's digest.          *)
NegotiateCaptures ==
  /\ Answers("captures", "ok")
  /\ \/ markers' = markers /\ qualification' \in Qualifications
     \/ markers' \in [Captures -> Markers] /\ qualification' \in PinQualifications
  /\ IF CaptureSupport(required, markers', qualification') = "supported"
     THEN Logs("preflight", "supported") /\ Proceeds("resolve")
     ELSE Refuses("preflight", "capture_requirements_blocked")
  /\ Unlaunched /\ UNCHANGED <<conclusions, required>>

Resolve ==
  /\ Answers("resolve", "ok")
  /\ resolved' \in Values
  /\ Proceeds("launch")
  /\ UNCHANGED <<inputs, session, events, failure, measured, observed>>

Launch ==
  /\ Answers("launch", "ok")
  /\ session' = "open"
  /\ Proceeds("launched")
  /\ UNCHANGED <<inputs, events, failure, facts>>

LaunchRaises ==
  /\ Answers("launch", "raises")
  /\ Logs("launch", "error")
  /\ Returns("failed")
  /\ UNCHANGED <<inputs, session, failure, facts>>

(* The launch event, the assertion, and the entry into the try block.      *)
EnterTry ==
  /\ pc = "launched"
  /\ Logs("launch", "completed")
  /\ Proceeds("measurement")
  /\ UNCHANGED <<inputs, session, failure, facts, answers>>

Measure ==
  /\ \/ /\ Answers("measurement", "ok") /\ Logs("measurement", "completed")
        /\ measured' = TRUE /\ failure' = failure
     \/ /\ Answers("measurement", "timeout") /\ Logs("measurement", "error")
        /\ failure' = "timed_out" /\ measured' = measured
     \/ /\ Answers("measurement", "raises") /\ Logs("measurement", "error")
        /\ failure' = "failed" /\ measured' = measured
  /\ Proceeds("observe")
  /\ UNCHANGED <<inputs, session, resolved, observed>>

(* A later failure only makes a run partial that has not failed already.   *)
Downgrade_Always == "partial"   \* mistake: the first failure is forgotten
Downgrade == IF failure = "none" THEN "partial" ELSE failure

Observe ==
  /\ \/ /\ Answers("observe", "ok") /\ Logs("observe", "completed")
        /\ observed' \in Values /\ failure' = failure
     \/ /\ Answers("observe", "raises") /\ Logs("observe", "error")
        /\ failure' = Downgrade /\ observed' = observed
  /\ Proceeds("close")
  /\ UNCHANGED <<inputs, session, measured, resolved>>

(* The finally block; an interrupt that brought it here goes on after it.  *)
Close ==
  /\ session' = "released"
  /\ \/ /\ Answers("close", "ok") /\ Logs("close", "completed")
        /\ failure' = failure
     \/ /\ Answers("close", "raises") /\ Logs("close", "error")
        /\ failure' = Downgrade
  /\ Proceeds("finish")
  /\ UNCHANGED <<inputs, facts>>

(* Mistake: measured is enough.                                            *)
FinalStatus_Measured == IF measured THEN "completed" ELSE failure
FinalStatus ==
  IF failure # "none" THEN failure
  ELSE IF measured /\ observed # "none" THEN "completed" ELSE "partial"

Finish ==
  /\ pc = "finish"
  /\ IF outcome = "interrupted" THEN Proceeds("done") ELSE Returns(FinalStatus)
  /\ UNCHANGED <<inputs, session, events, failure, facts, answers>>

(* A KeyboardInterrupt.  No handler of the executor catches it; inside the *)
(* try block the finally block still runs, but in that block it may land   *)
(* before, in or after session.close().  Mistake: there is no finally.     *)
UnwindsTo_Leaves(point) == "done"
UnwindsTo(point) ==
  IF point \in {"measurement", "observe"} THEN "close"
  ELSE IF point = "close" THEN "finish" ELSE "done"

Interrupt ==
  /\ pc \in InterruptPoints
  /\ outcome' = "interrupted"
  /\ pc' = UnwindsTo(pc)
  /\ session' \in IF pc = "close" THEN {"open", "released"} ELSE {session}
  /\ UNCHANGED <<inputs, events, failure, facts, status, answers>>

Finished == pc = "done" /\ UNCHANGED vars

Next ==
  \/ NotRequested \/ Requirements \/ InspectCapabilities \/ Probe
  \/ NegotiateCaptures \/ Resolve
  \/ \E stage \in Preparing : PreflightRaises(stage)
  \/ Launch \/ LaunchRaises \/ EnterTry
  \/ Measure \/ Observe \/ Close \/ Finish
  \/ Interrupt \/ Finished

Spec == Init /\ [][Next]_vars

-----------------------------------------------------------------------------
(* Every variable of execute_run keeps its type, a record has a status,    *)
(* and a run logs at most five events.                                     *)
TypeOK ==
  /\ pc \in Points
  /\ overrides \in SUBSET (Checks \union {"stray"})
  /\ conclusions \in [Checks -> Conclusions]
  /\ required \in SUBSET Captures
  /\ markers \in [Captures -> Markers]
  /\ qualification \in Qualifications
  /\ session \in {"none", "open", "released"}
  /\ events \in Seq(STRING \X STRING) /\ Len(events) <= 5
  /\ failure \in {"none", "partial", "failed", "timed_out"}
  /\ measured \in BOOLEAN
  /\ resolved \in {"none", "plain", "opaque"}
  /\ observed \in {"none", "plain", "opaque"}
  /\ outcome \in {"none", "record", "raised", "interrupted"}
  /\ status \in {"none", "preflight_failed", "failed", "timed_out", "partial",
                 "completed"}
  /\ status = "none" <=> outcome # "record"
  /\ answers \in [Stages -> {"none", "ok", "raises", "timeout", "unsupported"}]

(* The status of a returned record is the one the collaborators' answers   *)
(* call for (docs/architecture/metria-core.md): the first failure decides, *)
(* and only measured, observed and closed makes completed.                 *)
HonestStatus ==
  outcome = "record" =>
    /\ status = "preflight_failed" <=> answers["launch"] = "none"
    /\ status = "failed" <=> "raises" \in {answers["launch"], answers["measurement"]}
    /\ status = "timed_out" <=> answers["measurement"] = "timeout"
    /\ status = "completed" <=>
         \A s \in {"measurement", "observe", "close"} : answers[s] = "ok"

(* A record leaves nothing out: it holds metrics exactly when the          *)
(* measurement completed and an observation exactly when one was made, and *)
(* its error events name exactly the stages that raised.                   *)
NothingDiscarded ==
  outcome = "record" =>
    /\ measured <=> answers["measurement"] = "ok"
    /\ observed # "none" <=> answers["observe"] = "ok"
    /\ {s \in Stages : answers[s] \in {"raises", "timeout"}}
         = {e[1] : e \in {events[i] : i \in {j \in 1 .. Len(events) :
                                               events[j][2] = "error"}}}

(* execute_run's docstring: failures are represented in the returned       *)
(* record rather than silently discarded.                                  *)
RecordHonest == HonestStatus /\ NothingDiscarded

(* No runtime is launched unless every required capability is supported,   *)
(* or experimental and overridden by name, and every required capture is   *)
(* known to be supported.                                                  *)
LaunchGuarded ==
  session # "none" =>
    /\ overrides \subseteq Overridable
    /\ \A c \in Checks : conclusions[c].required =>
         \/ conclusions[c].status = "supported"
         \/ conclusions[c].status = "experimental" /\ c \in overrides
    /\ \A k \in required :
         \/ markers[k] = "supported"
         \/ /\ markers[k] = "binary_present_unverified"
            /\ k \in Qualifiable /\ qualification = "match"

(* metria-core.md: the executor always attempts to close a successfully    *)
(* launched session.  No number of interrupts changes that, except one     *)
(* between the launch and the try block or one in the finally block, which *)
(* may leave the session open (InterruptPoints without the two points).    *)
SessionReleased == pc = "done" /\ answers["launch"] = "ok" => session = "released"

(* The execution keeps RunContract's promise.                              *)
Contract == INSTANCE RunContract WITH
  session <- session,
  result <- IF outcome = "record"
            THEN [status |-> status, measured |-> measured,
                  observed |-> observed # "none"]
            ELSE [status |-> IF pc = "done" THEN "escaped" ELSE "pending",
                  measured |-> FALSE, observed |-> FALSE]
KeepsContract == Contract!Spec

=============================================================================
