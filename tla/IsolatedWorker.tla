--------------------------- MODULE IsolatedWorker ---------------------------
(***************************************************************************)
(* verification_worker.verify_isolated: the supervisor runs the verifier of *)
(* StudyVerification in a child process under a deadline, checks the result *)
(* the child leaves behind, or replaces it by failure evidence, and         *)
(* publishes the bundle.  The child may be stopped between any two of its   *)
(* steps, and what it had published or half written stays on disk.          *)
(*                                                                         *)
(* run_process is RunProcess: when it returns or raises, the child is gone  *)
(* (RunProcessProofs, GroupIsDown).                                         *)
(***************************************************************************)
EXTENDS StudyVerification

CONSTANTS
  ParentPoints,   \* program points of the supervisor an interrupt may land at
  MaxStops        \* bound: KeyboardInterrupts of the supervisor

Waits      == {"invoke", "wait", "receipt"}   \* inside the supervisor's try
Publishing == {"report", "manifest", "verification"}
Ways       == Waits \union Publishing
                \union {"mkdir", "partial", "fill", "unlink", "print", "done"}

ASSUME IsolatedWorkerAssumption ==
  /\ ParentPoints \subseteq Ways
  /\ MaxStops \in Nat

VARIABLES
  at,           \* where the supervisor is
  worker,       \* none | running | gone
  returncode,   \* what run_process reports: a status, Stopped, or Running
  timedOut,     \* the deadline passed
  interrupted,  \* the supervisor caught a KeyboardInterrupt
  data,         \* the result to publish, or Absent
  own,          \* the supervisor's write in progress
  status,       \* the exit status of the command, or Running
  stops         \* KeyboardInterrupts of the supervisor so far

child    == <<pc, writing, study, judgement, exit, signals>>
outcome  == <<worker, returncode, timedOut>>
parent   == <<at, outcome, interrupted, data, own, status, stops>>
isolated == <<directory, child, parent>>

Own == INSTANCE AtomicFiles WITH writing <- own

Stopped == -9   \* a child that a signal ended

InitIsolated ==
  /\ Init
  /\ at = "mkdir" /\ worker = "none" /\ returncode = Running
  /\ timedOut = FALSE /\ interrupted = FALSE
  /\ data = Absent /\ own = Idle /\ status = Running /\ stops = 0

-----------------------------------------------------------------------------
(* The child.                                                              *)

Work ==
  /\ worker = "running" /\ pc # "done"
  /\ Next
  /\ UNCHANGED parent

(* main: the receipt is written, and the child exits with its status.      *)
DeferResult ==
  /\ worker = "running" /\ pc = "worker-result" /\ Written("none")
  /\ writing' = Idle /\ pc' = "done" /\ exit' = manifest.exit
  /\ UNCHANGED <<directory, study, judgement, signals, parent>>

-----------------------------------------------------------------------------
(* The supervisor.                                                         *)

Quits(code) ==
  at' = "done" /\ status' = code /\ own' = Idle
Moves(to) == at' = to /\ UNCHANGED <<status, own>>

(* A directory that exists is an OSError, status 5 at the command line.    *)
MakeOutput ==
  /\ at = "mkdir"
  /\ Moves("invoke") \/ Quits(5)
  /\ UNCHANGED <<directory, child, outcome, interrupted, data, stops>>

Invoke ==
  /\ at = "invoke"
  /\ \/ worker' = "running" /\ Moves("wait")
     \/ worker' = worker /\ Moves("partial")     \* the launch failed
  /\ UNCHANGED <<directory, child, returncode, timedOut, interrupted, data, stops>>

(* The child dies of a signal or a native crash.                           *)
Crash ==
  /\ worker = "running" /\ pc # "done" /\ worker' = "gone"
  /\ UNCHANGED <<directory, child, at, returncode, timedOut, interrupted, data,
                 own, status, stops>>

(* run_process returns when the child has ended or the deadline passes,    *)
(* also when both happen.  Mistake: there is no deadline.                  *)
Late_Never == {FALSE}
Late == BOOLEAN

HasEnded == pc = "done" \/ worker = "gone"

Returned ==
  /\ at = "wait"
  /\ timedOut' \in Late /\ (timedOut' \/ HasEnded)
  /\ worker' = "gone" /\ returncode' = IF pc = "done" THEN exit ELSE Stopped
  /\ Moves(IF timedOut' THEN "partial" ELSE "receipt")
  /\ UNCHANGED <<directory, child, interrupted, data, stops>>

(* run_process raises ProcessError instead, or unlinking the transport     *)
(* file raises.                                                            *)
ProcessFails ==
  /\ at = "wait" /\ (HasEnded \/ TRUE \in Late)
  /\ worker' = "gone" /\ Moves("partial")
  /\ UNCHANGED <<directory, child, returncode, timedOut, interrupted, data, stops>>

(* _read_receipt.  Mistake: the status of the process is not compared.     *)
Believed_Unmatched(receipt) ==
  receipt # Absent /\ receipt.records = <<files["reference"], files["candidate"]>>
Believed(receipt) ==
  /\ receipt # Absent
  /\ receipt.exit = returncode
  /\ receipt.exit # VerificationExitCodes[receipt.verdict] =>
       receipt.exit = 130 /\ receipt.verdict = "EXECUTION_FAILED"
  /\ receipt.records = <<files["reference"], files["candidate"]>>
  /\ receipt.exit \in {0, 1} =>
       \A i \in 1 .. 2 : receipt.records[i].status = "completed"

ReadReceipt ==
  /\ at = "receipt"
  /\ LET receipt == files["worker-result"]
     IN  \/ Believed(receipt) /\ data' = receipt /\ Moves("unlink") /\ Works
         \/ /\ (~Believed(receipt) /\ Works) \/ Faults
            /\ data' = data /\ Moves("partial")
  /\ UNCHANGED <<files, temps, child, outcome, interrupted, stops>>

(* _partial_records: the first missing record tells how the worker ended,  *)
(* a second one never began.                                               *)
Ending == IF interrupted THEN "interrupted"
          ELSE IF timedOut THEN "timed_out" ELSE "failed"
FirstMissing_Reference == "reference"   \* mistake: both are filled in
FirstMissing == IF files["reference"] = Absent THEN "reference" ELSE "candidate"

Records == <<files["reference"], files["candidate"]>>

FillMissing ==
  /\ at = "partial" /\ Published # RoleFiles
  /\ Own!Begins(FirstMissing, Lost(Ending))
  /\ at' = "fill"
  /\ UNCHANGED <<directory, child, outcome, interrupted, data, status, stops>>

FillRest ==
  /\ at = "fill" /\ Own!Written("none")
  /\ IF Published # RoleFiles
     THEN Own!Begins("candidate", Lost("cancelled")) /\ UNCHANGED <<at, status>>
     ELSE at' = "partial" /\ own' = Idle /\ UNCHANGED status
  /\ UNCHANGED <<directory, child, outcome, interrupted, data, stops>>

(* _failure_result.                                                        *)
FailureResult ==
  /\ at = "partial" /\ Published = RoleFiles
  /\ data' = [kind |-> "manifest", verdict |-> "EXECUTION_FAILED",
              exit |-> IF interrupted THEN 130 ELSE 5, records |-> Records]
  /\ Moves("unlink")
  /\ UNCHANGED <<directory, child, outcome, interrupted, stops>>

(* A record that is there cannot be read, or a write failed.               *)
Fails ==
  /\ \/ at = "partial" /\ Published # {} /\ Faults /\ Quits(5)
     \/ at \in {"fill"} \union Publishing /\ Own!Written("os") /\ Quits(5) /\ Works
     \/ /\ at \in {"fill"} \union Publishing /\ Own!Written("interrupt")
        /\ Quits(130) /\ Works
  /\ UNCHANGED <<files, temps, child, outcome, interrupted, data, stops>>

(* The receipt gives way to the report.                                    *)
Unlink ==
  /\ at = "unlink"
  /\ \/ /\ files' = [files EXCEPT !["worker-result"] = Absent]
        /\ Own!Begins("report", data) /\ at' = "report" /\ UNCHANGED status /\ Works
     \/ Faults /\ Quits(5) /\ UNCHANGED files
  /\ UNCHANGED <<temps, child, outcome, interrupted, data, stops>>

WriteOwn ==
  /\ Own!WriteStep
  /\ UNCHANGED <<child, at, outcome, interrupted, data, status, stops>>

PersistOwn ==
  /\ at \in Publishing /\ Own!Written("none")
  /\ LET next == Following[at]
     IN  /\ IF next = "print" THEN own' = Idle ELSE Own!Begins(next, data)
         /\ at' = next
  /\ UNCHANGED <<directory, child, outcome, interrupted, data, status, stops>>

ReportOwn ==
  /\ at = "print"
  /\ (Quits(data.exit) /\ Works) \/ (Quits(2) /\ Faults)
  /\ UNCHANGED <<files, temps, child, outcome, interrupted, data, stops>>

(* A KeyboardInterrupt of the supervisor: run_process stops the child, and *)
(* the handler turns what is there into evidence.  After the try block it  *)
(* leaves the command.                                                     *)
Stop ==
  /\ stops < MaxStops /\ at \in ParentPoints \ {"done"} /\ stops' = stops + 1
  /\ \/ /\ at \in Waits
        /\ interrupted' = TRUE
        /\ worker' = IF worker = "running" THEN "gone" ELSE worker
        /\ Moves("partial") /\ UNCHANGED directory
     \/ /\ at \notin Waits /\ own.step \in {"create", "publish", "discard"}
        /\ Own!InterruptWrite
        /\ UNCHANGED <<at, status, worker, interrupted>>
     \/ /\ at \notin Waits /\ own.step \notin {"create", "publish", "discard"}
        /\ Quits(130)
        /\ UNCHANGED <<directory, worker, interrupted>>
  /\ UNCHANGED <<child, returncode, timedOut, data>>

Supervise ==
  \/ MakeOutput \/ Invoke \/ Returned \/ ProcessFails \/ ReadReceipt
  \/ FillMissing \/ FillRest \/ FailureResult \/ Fails \/ Unlink
  \/ WriteOwn \/ PersistOwn \/ ReportOwn

Concluded == at = "done" /\ UNCHANGED isolated

NextIsolated == Work \/ DeferResult \/ Crash \/ Supervise \/ Stop \/ Concluded

(* The deadline makes Returned possible whatever the child does, so only   *)
(* the supervisor's own steps need to be fair.                             *)
SpecIsolated == InitIsolated /\ [][NextIsolated]_isolated /\ WF_isolated(Supervise)

-----------------------------------------------------------------------------
(* The child and its supervisor keep their types, and the child exists     *)
(* exactly while the supervisor waits for it.                              *)
TypesKept ==
  /\ TypeOK
  /\ at \in Ways
  /\ worker \in {"none", "running", "gone"}
  /\ worker = "running" => at = "wait"
  /\ returncode \in {Running, Stopped, -2, 0, 1, 3, 4, 5, 130}
  /\ timedOut \in BOOLEAN /\ interrupted \in BOOLEAN
  /\ data \in {Absent} \union Manifests
  /\ own \in [step : Steps, name : Names \union {"none"},
              value : {Absent} \union RunFiles \union Manifests, error : Errors]
  /\ own.step # "idle" <=> at \in {"fill"} \union Publishing
  /\ status \in {Running, 0, 1, 2, 3, 4, 5, 130} /\ (status = Running <=> at # "done")
  /\ stops \in 0 .. MaxStops

(* A published result that is not a failure is the one the child reached:  *)
(* it ended by itself, in time, with the status of that result, and was    *)
(* not interrupted.                                                        *)
Accepted ==
  files["verification"] # Absent /\ files["verification"].verdict # "EXECUTION_FAILED" =>
    /\ pc = "done" /\ manifest = files["verification"] /\ exit = manifest.exit
    /\ ~timedOut /\ ~interrupted

(* However the child stops, its completed records survive (no supervisor   *)
(* replaces a record the child saved), and a record that is missing tells   *)
(* why: the first how the worker ended, a later one that it never began.    *)
StopTold ==
  files["verification"] # Absent =>
    /\ \A i \in 1 .. Len(saved) : files[Roles[i]] = saved[i]
    /\ interrupted => files["verification"].exit = 130
    /\ timedOut /\ ~interrupted => files["verification"].exit = 5
    /\ files["verification"].exit \in {0, 1} =>
         \A r \in RoleFiles : files[r].status = "completed"
    /\ files["candidate"].status = "cancelled" =>
         files["reference"].status \in {"failed", "timed_out", "interrupted"}

(* docs/guides/vllm-prefix-verification.md: a missing run becomes failed,   *)
(* timed-out, interrupted or cancelled evidence, so once the worker ran     *)
(* there is a result, when the file system works and the supervisor is not *)
(* interrupted while it publishes.                                         *)
Undisturbed == faults = 0 /\ (stops = 0 \/ (stops = 1 /\ interrupted))
WorkerFailureRetained ==
  at = "done" /\ worker = "gone" /\ Undisturbed =>
    files["verification"] # Absent /\ status = files["verification"].exit

(* The same, unless the worker was stopped in the middle of a save: then   *)
(* its temporary file keeps the supervisor from filling in that record.    *)
Torn == \E r \in temps \intersect RoleFiles : files[r] = Absent
RetainedUnlessTorn == ~Torn => WorkerFailureRetained

(* So what a worker measured is evidence, however the worker ends.         *)
EvidenceRetained == StopTold /\ RetainedUnlessTorn

(* The bundle and the exit status of the command keep the same promise as   *)
(* a verification in one process.                                          *)
SupervisedBundle == INSTANCE EvidenceBundle WITH
  files <- [n \in {"reference", "candidate", "report", "manifest", "verification"} |->
              files[n]],
  exit <- status
SupervisorKeepsBundle == SupervisedBundle!Spec

(* The deadline ends every verification, whatever the child does.          *)
SupervisionEnds == <>(at = "done")

=============================================================================
