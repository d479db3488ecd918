-------------------------- MODULE StudyVerification --------------------------
(***************************************************************************)
(* metria verify, in one process: verification._verify_with_profile drives  *)
(* study_execution.execute_study over the reference run and the candidate   *)
(* run, saves each record as its run ends, compares and analyses the pair,  *)
(* decides a verdict, and publishes the bundle, verification.json last.     *)
(*                                                                         *)
(* A run is one step here: what it may return is RunRecords, which          *)
(* RunLifecycle is shown to keep to.  KeyboardInterrupts may land anywhere  *)
(* in InterruptPoints, and file operations may fail (AtomicFiles).          *)
(***************************************************************************)
EXTENDS AtomicFiles, RunRecords

CONSTANTS
  Outcomes,         \* the records an execution may return
  Policies,         \* what the recipe's policy would decide; "none" without one
  Deferred,         \* defer_result: the worker process of IsolatedWorker
  InterruptPoints,  \* program points where a KeyboardInterrupt may land
  MaxInterrupts     \* bound: KeyboardInterrupts

Roles      == <<"reference", "candidate">>
Running    == -1
RoleFiles  == {"reference", "candidate"}
StudyBody  == {"run", "sink", "append", "compare"}
Points     == {"start", "fill", "conclude", "report", "manifest", "verification",
               "worker-result", "print", "done"} \union StudyBody

ASSUME StudyVerificationAssumption ==
  /\ Outcomes \subseteq Unlaunched \union Launched
  /\ Policies \subseteq {"none", "PASS", "FAIL", "INSUFFICIENT_EVIDENCE"}
  /\ Deferred \in BOOLEAN
  /\ InterruptPoints \subseteq Points
  /\ MaxInterrupts \in Nat
  /\ Names = RoleFiles \union {"report", "manifest", "verification", "worker-result"}

VARIABLES
  pc,
  saved,         \* the records execute_study has and save_record has saved
  handling,      \* the KeyboardInterrupt handler was entered (interrupted)
  firstMissing,  \* len(saved) when it was
  comparable,    \* compare_runs found the pair directly comparable
  analysis,      \* how the analyses of the pair went
  policy,        \* what the recipe's policy decides on complete evidence
  manifest,
  exit,          \* the exit status of the command, or Running until it ends
  interrupts,    \* KeyboardInterrupts so far
  landed         \* history: where the last one landed

study     == <<saved, handling, firstMissing>>
judgement == <<comparable, analysis, policy, manifest>>
signals   == <<interrupts, landed>>
vars      == <<pc, directory, writing, study, judgement, exit, signals>>

(* A saved record: what the run returned, and whether the route finds gaps *)
(* in its evidence.                                                        *)
Saved(r, gaps) == [kind |-> "run", status |-> r.status, gaps |-> gaps]
Lost(status)   == [kind |-> "run", status |-> status, gaps |-> TRUE]
RunFiles ==
  [kind : {"run"}, gaps : BOOLEAN,
   status : {"preflight_failed", "failed", "timed_out", "partial", "completed",
             "interrupted", "cancelled"}]

Init ==
  /\ pc = "start"
  /\ files = [n \in Names |-> Absent] /\ temps = {} /\ faults = 0
  /\ writing = Idle
  /\ saved = <<>> /\ handling = FALSE /\ firstMissing = 0
  /\ comparable = FALSE /\ analysis = "none" /\ policy \in Policies
  /\ manifest = Absent
  /\ exit = Running /\ interrupts = 0 /\ landed = "none"

-----------------------------------------------------------------------------
(* Exceptions.                                                             *)

(* The exit status of an exception that leaves verify_recipe: the command  *)
(* line maps OSError to 5 and ValueError or TypeError to 2; the worker's   *)
(* interpreter dies of it with 1.  An interrupt kills the interpreter,     *)
(* which a shell reports as 130 and a parent process as signal 2.          *)
EscapeCode(error) ==
  IF error = "interrupt" THEN IF Deferred THEN -2 ELSE 130
  ELSE IF Deferred THEN 1
  ELSE IF error = "os" THEN 5 ELSE 2

Escapes(error) ==
  /\ pc' = "done" /\ exit' = EscapeCode(error) /\ writing' = Idle
  /\ UNCHANGED study

(* Only the study itself is inside `except KeyboardInterrupt`.             *)
Handles ==
  /\ pc \in StudyBody /\ ~handling
  /\ pc' = "fill" /\ handling' = TRUE /\ firstMissing' = Len(saved) + 1
  /\ writing' = Idle
  /\ UNCHANGED <<saved, exit>>

Raise(error) ==
  IF error = "interrupt" /\ pc \in StudyBody /\ ~handling THEN Handles
  ELSE Escapes(error)

Goes(to) == pc' = to /\ UNCHANGED exit

-----------------------------------------------------------------------------
(* The study.                                                              *)

(* The output directory is made; it must be new.  The worker's is given.   *)
Start ==
  /\ pc = "start"
  /\ \/ Goes("run") /\ UNCHANGED <<writing, study>>
     \/ Escapes("value")
     \/ ~Deferred /\ Escapes("os")
  /\ UNCHANGED <<directory, judgement, signals>>

(* A run ends, and its record goes to the sink ...                         *)
Run ==
  /\ pc = "run"
  /\ \E r \in Outcomes, gaps \in BOOLEAN :
       Begins(Roles[Len(saved) + 1], Saved(r, gaps))
  /\ Goes("sink")
  /\ UNCHANGED <<directory, study, judgement, signals>>

(* ... or the executor raises: TypeError or ValueError (RunLifecycle's     *)
(* "raised", or a record of another run caught by _check_run_binding).     *)
RunRaises ==
  /\ pc = "run" /\ Escapes("value")
  /\ UNCHANGED <<directory, judgement, signals>>

(* What a run or an analysis returned is no strict JSON data (a number     *)
(* that is not finite): the serializer raises ValueError or TypeError.     *)
Unserializable ==
  /\ \/ pc = "sink" /\ writing.step = "create" /\ ~handling
     \/ pc = "conclude" /\ analysis \in {"completed", "bad_metrics"}
  /\ Raise("value")
  /\ UNCHANGED <<directory, judgement, signals>>

(* One step of the write in progress.                                      *)
WriteOn ==
  /\ pc # "done"
  /\ WriteStep
  /\ UNCHANGED <<pc, study, judgement, exit, signals>>

WriteRaises ==
  /\ pc # "done"
  /\ \E error \in {"os", "interrupt"} : Written(error) /\ Raise(error)
  /\ UNCHANGED <<directory, judgement, signals>>

(* Mistake: a failed write is not noticed.                                 *)
Stored_Unchecked == writing.step = "over"
Stored == Written("none")

SinkReturns ==
  /\ pc = "sink" /\ Stored
  /\ Goes("append")
  /\ UNCHANGED <<directory, writing, study, judgement, signals>>

(* saved.append: only now does the handler know of the record.             *)
AppendSaved ==
  /\ pc = "append"
  /\ saved' = Append(saved, writing.value) /\ writing' = Idle
  /\ Goes(IF handling THEN "fill" ELSE IF Len(saved) = 1 THEN "compare" ELSE "run")
  /\ UNCHANGED <<directory, handling, firstMissing, judgement, signals>>

(* compare_runs wants two completed records, and more besides; an analysis *)
(* runs on a comparable pair only, and fails on records with gaps.         *)
BothCompleted == \A i \in 1 .. 2 : saved[i].status = "completed"
SomeGaps      == \E i \in 1 .. 2 : saved[i].gaps

Compare ==
  /\ pc = "compare"
  /\ comparable' \in (IF BothCompleted THEN BOOLEAN ELSE {FALSE})
  /\ analysis' \in IF ~comparable' THEN {"skipped"}
                   ELSE IF SomeGaps THEN {"failed"}
                   ELSE {"completed", "failed", "bad_metrics"}
  /\ Goes("conclude")
  /\ UNCHANGED <<directory, writing, study, policy, manifest, signals>>

(* The handler fills in the records that are missing.                      *)
Missing == IF Len(saved) + 1 = firstMissing THEN "interrupted" ELSE "cancelled"

Fill ==
  /\ pc = "fill" /\ Len(saved) < 2
  /\ Begins(Roles[Len(saved) + 1], Lost(Missing))
  /\ pc' = "sink"
  /\ UNCHANGED <<directory, study, judgement, exit, signals>>

Filled ==
  /\ pc = "fill" /\ Len(saved) = 2
  /\ comparable' \in (IF BothCompleted THEN BOOLEAN ELSE {FALSE})
  /\ analysis' = "none"
  /\ Goes("conclude")
  /\ UNCHANGED <<directory, writing, study, policy, manifest, signals>>

-----------------------------------------------------------------------------
(* The verdict.                                                            *)

Failures == {"preflight_failed", "failed", "timed_out", "interrupted", "cancelled"}
AnyFailed == \E i \in 1 .. 2 : saved[i].status \in Failures

Sufficient == BothCompleted /\ ~SomeGaps

(* Mistake: an analysis that raised is not counted.                        *)
Judgement_Unanalysed ==
  IF handling \/ AnyFailed THEN "EXECUTION_FAILED"
  ELSE IF ~Sufficient THEN "INSUFFICIENT_EVIDENCE"
  ELSE IF ~comparable THEN "NOT_COMPARABLE"
  ELSE IF analysis = "bad_metrics" THEN "INSUFFICIENT_EVIDENCE"
  ELSE "VERIFIED"
Judgement ==
  IF handling \/ AnyFailed THEN "EXECUTION_FAILED"
  ELSE IF ~Sufficient THEN "INSUFFICIENT_EVIDENCE"
  ELSE IF ~comparable THEN "NOT_COMPARABLE"
  ELSE IF analysis \in {"none", "skipped", "failed"} THEN "EXECUTION_FAILED"
  ELSE IF analysis = "bad_metrics" THEN "INSUFFICIENT_EVIDENCE"
  ELSE "VERIFIED"

(* evaluate_policy decides only about VERIFIED evidence.                   *)
Verdict == IF Judgement = "VERIFIED" /\ policy # "none" THEN policy ELSE Judgement

VerificationExitCodes ==
  [VERIFIED |-> 0, PASS |-> 0, FAIL |-> 1, NOT_COMPARABLE |-> 3,
   INSUFFICIENT_EVIDENCE |-> 4, EXECUTION_FAILED |-> 5]

ExitCode == IF handling THEN 130 ELSE VerificationExitCodes[Verdict]

Manifest == [kind |-> "manifest", verdict |-> Verdict, exit |-> ExitCode,
             records |-> saved]

Conclude ==
  /\ pc = "conclude"
  /\ manifest' = Manifest
  /\ LET first == IF Deferred THEN "worker-result" ELSE "report"
     IN  Begins(first, Manifest) /\ Goes(first)
  /\ UNCHANGED <<directory, study, comparable, analysis, policy, signals>>

(* _persist_verification: the report, the compatibility alias, the result. *)
Following_Swapped ==   \* mistake: the result is published before its alias
  [report |-> "verification", verification |-> "manifest", manifest |-> "print"]
Following ==
  [report |-> "manifest", manifest |-> "verification", verification |-> "print"]

Persist ==
  /\ pc \in {"report", "manifest", "verification"} /\ Written("none")
  /\ LET next == Following[pc]
     IN  /\ IF next = "print" THEN writing' = Idle ELSE Begins(next, manifest)
         /\ Goes(next)
  /\ UNCHANGED <<directory, study, judgement, signals>>

(* The command prints the result; a closed stdout is an OSError, which the *)
(* command line's outer handler reports as a bad configuration.            *)
Report ==
  /\ pc = "print" /\ pc' = "done"
  /\ \/ exit' = manifest.exit /\ Works
     \/ exit' = 2 /\ Faults
  /\ UNCHANGED <<files, temps, writing, study, judgement, signals>>

(* A KeyboardInterrupt: inside a write it first unwinds through it.        *)
Interrupt ==
  /\ interrupts < MaxInterrupts /\ pc \in InterruptPoints \ {"done"}
  /\ interrupts' = interrupts + 1 /\ landed' = pc
  /\ IF writing.step \in {"create", "publish", "discard"}
     THEN InterruptWrite /\ UNCHANGED <<pc, study, exit>>
     ELSE Raise("interrupt") /\ UNCHANGED directory
  /\ UNCHANGED judgement

Finished == pc = "done" /\ UNCHANGED vars

Next ==
  \/ Start \/ Run \/ RunRaises \/ Unserializable \/ WriteOn \/ WriteRaises
  \/ SinkReturns \/ AppendSaved \/ Compare \/ Fill \/ Filled
  \/ Conclude \/ Persist \/ Report \/ Interrupt \/ Finished

Spec == Init /\ [][Next]_vars

-----------------------------------------------------------------------------
(* Every variable of the verifier keeps its type, a write is under way only *)
(* where the code writes, and no result claims a bad configuration.        *)
Manifests ==
  [kind : {"manifest"}, verdict : DOMAIN VerificationExitCodes,
   exit : {0, 1, 3, 4, 5, 130}, records : Seq(RunFiles)]
TypeOK ==
  /\ pc \in Points
  /\ files \in [Names -> {Absent} \union RunFiles \union Manifests]
  /\ temps \subseteq Names /\ faults \in 0 .. MaxFaults
  /\ writing \in [step : Steps, name : Names \union {"none"},
                  value : {Absent} \union RunFiles \union Manifests, error : Errors]
  /\ writing.step # "idle" <=>
       pc \in {"sink", "append", "report", "manifest", "verification", "worker-result"}
  /\ saved \in Seq(RunFiles) /\ Len(saved) <= 2
  /\ handling \in BOOLEAN /\ firstMissing \in 0 .. 3
  /\ comparable \in BOOLEAN
  /\ analysis \in {"none", "skipped", "failed", "completed", "bad_metrics"}
  /\ policy \in Policies
  /\ manifest \in {Absent} \union Manifests
  /\ exit \in {Running, -2, 0, 1, 2, 3, 4, 5, 130}
  /\ exit = Running <=> pc # "done"
  /\ interrupts \in 0 .. MaxInterrupts /\ landed \in Points \union {"none"}

(* A published verdict of VERIFIED, PASS or FAIL rests on the records that  *)
(* are on disk: both completed and without gaps, of a pair that compares,   *)
(* analysed in full and never interrupted; and such a pair gets the verdict *)
(* its policy decides, or VERIFIED without one.                             *)
Earned ==
  /\ ~handling /\ comparable /\ analysis = "completed"
  /\ \A r \in RoleFiles : files[r].status = "completed" /\ ~files[r].gaps
VerdictEarned ==
  files["verification"] # Absent =>
    LET verdict == files["verification"].verdict
    IN  IF Earned THEN verdict = IF policy = "none" THEN "VERIFIED" ELSE policy
        ELSE verdict \notin {"VERIFIED", "PASS", "FAIL"}

(* The reference record is on disk, as it is, before the candidate starts,  *)
(* and every record the verifier goes on to judge stays there; nothing is   *)
(* on disk of a run that has not ended.                                     *)
Published == {r \in RoleFiles : files[r] # Absent}
SavedDurable ==
  /\ \A i \in 1 .. Len(saved) : files[Roles[i]] = saved[i]
  /\ pc \in {"run", "fill", "compare", "conclude"} /\ ~handling =>
       Published = {Roles[i] : i \in 1 .. Len(saved)}

(* docs/guides/metria-verify.md: an interruption of the study is retained   *)
(* as evidence, and (docs/guides/verification-ci.md) ends with status 130.  *)
(* The file system works, and the handler is not interrupted itself.       *)
InterruptionRetained ==
  handling /\ interrupts = 1 /\ faults = 0 /\ pc = "done" =>
    /\ exit = 130
    /\ files["verification"] # Absent /\ files["verification"].exit = 130

(* The same, when the interrupt lands in a run or in the analysis and not  *)
(* where a record is being saved.                                          *)
InterruptRetained == landed \in {"run", "compare"} => InterruptionRetained

(* What was measured stays in the directory, whatever ends the study.      *)
RecordsRetained == SavedDurable /\ InterruptRetained

(* The directory and the exit status keep the promise of EvidenceBundle.    *)
Bundle == INSTANCE EvidenceBundle WITH
  files <- [n \in {"reference", "candidate", "report", "manifest", "verification"} |->
              files[n]],
  exit <- exit
KeepsBundle == Bundle!Spec

=============================================================================
