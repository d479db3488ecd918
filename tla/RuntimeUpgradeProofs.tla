------------------------- MODULE RuntimeUpgradeProofs -------------------------
(***************************************************************************)
(* Proofs about RuntimeUpgrade, for any installations, any number of       *)
(* versions and any number of changes: the types, that completed runs used *)
(* the files they were pinned to, and that no worker which failed or was   *)
(* killed completes its run.                                               *)
(***************************************************************************)
EXTENDS RuntimeUpgrade, TLAPS

(* The records a run may return, and those a failure makes of them.         *)
LEMMA RecordTypes ==
  /\ Unlaunched \subseteq RunRecord /\ Launched \subseteq RunRecord
  /\ NoRecord.status # "completed" /\ Unknown.status # "completed"
  /\ \A s \in {"failed", "timed_out"} :
       /\ Failed(s) \in RunRecord /\ Failed(s).status = s
       /\ \A result \in RunRecord \cup {NoRecord} :
            /\ [result EXCEPT !.status = s] \in RunRecord
            /\ [result EXCEPT !.status = s].status = s
<1>1. Unlaunched \subseteq RunRecord /\ Launched \subseteq RunRecord
  BY DEF Unlaunched, Launched
<1>2. NoRecord.status # "completed" /\ Unknown.status # "completed"
  BY DEF NoRecord, Unknown
<1>3. ASSUME NEW s \in {"failed", "timed_out"}
      PROVE  Failed(s) \in RunRecord /\ Failed(s).status = s
  BY DEF Failed, RunRecord
<1>4. ASSUME NEW s \in {"failed", "timed_out"}, NEW result \in RunRecord \cup {NoRecord}
      PROVE  /\ [result EXCEPT !.status = s] \in RunRecord
             /\ [result EXCEPT !.status = s].status = s
  <2>1. CASE result \in RunRecord
    BY <2>1 DEF RunRecord
  <2>2. CASE result = NoRecord
    BY <2>2 DEF RunRecord, NoRecord
  <2> QED BY <2>1, <2>2
<1> QED BY <1>1, <1>2, <1>3, <1>4

-----------------------------------------------------------------------------
(* The inductive invariant.                                                 *)

(* Where the controller is while a worker lives, and in which phase.        *)
Shape ==
  /\ worker \in Working => pc = "wait"
  /\ pc = "bind" => worker = "dead"
  /\ pc = "wait" => worker # "none"
  /\ pc = "validate" => mode = "inspect" /\ role = "candidate"
  /\ pc \in {"call", "openmp", "done", "raised"} => mode = "run"
  /\ pc = "refused" => mode = "inspect"

(* A receipt exists only for a role that has been worked on, and a worker   *)
(* has not written it before it is about to exit.                           *)
Other(r) == IF r = "reference" THEN "candidate" ELSE "reference"

Receipts ==
  /\ pc \in {"hash", "openmp", "spawn", "call", "validate"} => receipt[role] = "none"
  /\ worker \in Working \ {"exit"} => receipt[role] = "none"
  /\ mode = "inspect" \/ role = "reference" => receipt[Other(role)] = "none"

(* The record a receipt speaks of is a run record.                          *)
RecordReady ==
  mode = "run" /\ pc \in {"wait", "bind"}
    /\ (worker \in {"after", "record", "receipt", "exit"} \/ receipt[role] = "written")
  => record \in RunRecord

(* No result is there before its role is bound.                             *)
Undecided ==
  /\ mode = "inspect" => \A r \in Roles : results[r] = Unknown
  /\ pc # "done" => results[role] = Unknown
  /\ role = "reference" => results["candidate"] = Unknown

Matches(r, p) == loaded[r][p] = pins[r][p] \/ <<r, p>> \in returned

(* A worker that has loaded other files than the pinned ones will see it,   *)
(* unless the files have been put back.                                     *)
Watched ==
  mode = "run" /\ pc = "wait" =>
    \A p \in Parts :
      p # "runtime" \/ worker \in {"after", "record", "receipt", "exit"} =>
        Matches(role, p) \/ env[role][p] # pins[role][p]

(* Once the second observation is over, it has used the pinned files.       *)
Checked ==
  mode = "run" /\ pc \in {"wait", "bind"}
    /\ (worker \in {"record", "receipt", "exit"} \/ receipt[role] = "written")
  => \A p \in Parts : Matches(role, p)

PinnedRuns == \A r \in Roles : Completed(r) => \A p \in Parts : Matches(r, p)

PinsValid == mode = "run" => ValidPins

Ready   == Shape /\ Receipts /\ RecordReady /\ Undecided
Genuine == Watched /\ Checked /\ PinnedRuns /\ PinsValid
IInv    == TypeOK /\ Ready /\ Genuine

-----------------------------------------------------------------------------

LEMMA ChangeKeeps ==
  ASSUME IInv, NEW r \in Roles, NEW p \in Parts, Change(r, p)
  PROVE  IInv'
<1> USE UpgradeAssumption, RecordTypes DEF IInv
<1>1. TypeOK'
  BY DEF TypeOK, Roles, Files, Loaded, Results, Working, Unpinned, NoRecord, Torn, Unknown, Ended, Change, files, control, process, Ready, RecordReady, Shape
<1>2. Ready'
  BY DEF Ready, Shape, Receipts, RecordReady, Undecided, Other, Working, Roles, TypeOK, Change, files, control, process
<1>3. Genuine'
  BY DEF Genuine, Watched, Checked, PinnedRuns, PinsValid, Matches, Completed, ValidPins, Roles, Parts, Working, Ready, Shape, Receipts, Undecided, Other, TypeOK, Change, files, control, process
<1> QED BY <1>1, <1>2, <1>3

LEMMA ObserveKeeps ==
  ASSUME IInv, Observe
  PROVE  IInv'
<1> USE UpgradeAssumption, RecordTypes DEF IInv
<1>1. TypeOK'
  BY DEF TypeOK, Roles, Files, Loaded, Results, Working, Unpinned, NoRecord, Torn, Unknown, Ended, Observe, Dies, files, control, process, Ready, RecordReady, Shape
<1>2. Ready'
  BY DEF Ready, Shape, Receipts, RecordReady, Undecided, Other, Working, Roles, TypeOK, Observe, Dies, files, control, process
<1>3. Genuine'
  BY DEF Genuine, Watched, Checked, PinnedRuns, PinsValid, Matches, Completed, ValidPins, Roles, Parts, Working, Ready, Shape, Receipts, Undecided, Other, TypeOK, Observe, Dies, files, control, process
<1> QED BY <1>1, <1>2, <1>3

LEMMA ExecuteKeeps ==
  ASSUME IInv, Execute
  PROVE  IInv'
<1> USE UpgradeAssumption, RecordTypes DEF IInv
<1>1. TypeOK'
  <2>1. record' \in RunRecord
    BY DEF Execute
  <2>2. loaded' \in [Roles -> Loaded]
    <3>1. env[role]["runtime"] \in 0..MaxVersion + 1
      BY DEF TypeOK, Files, Parts
    <3>2. [loaded[role] EXCEPT !["runtime"] = env[role]["runtime"]] \in Loaded
      BY <3>1 DEF TypeOK, Loaded, Parts
    <3> QED BY <3>2 DEF TypeOK, Execute
  <2> QED
    BY <2>1, <2>2 DEF TypeOK, Execute, files, control, Working
<1>2. Ready'
  BY DEF Ready, Shape, Receipts, RecordReady, Undecided, Other, Working, Roles, TypeOK, Execute, files, control, process
<1>3. Genuine'
  <2>1. \A r \in Roles, p \in Parts : Matches(r, p) /\ (r # role \/ p # "runtime") => Matches(r, p)'
    BY DEF TypeOK, Loaded, Execute, Matches, Parts, files, control
  <2>2. loaded'[role]["runtime"] = env[role]["runtime"]
    BY DEF TypeOK, Loaded, Execute, Parts
  <2>3. pc = "wait" /\ receipt[role] # "written" /\ ~Completed(role)
    BY RecordTypes DEF Ready, Shape, Receipts, Undecided, Completed, Working, Execute
  <2>4. Watched'
    <3> SUFFICES ASSUME mode = "run", NEW p \in Parts
                 PROVE  Matches(role, p)' \/ env[role][p] # pins[role][p]
      BY <2>3 DEF Watched, Execute, files, control
    <3>1. CASE p = "runtime"
      BY <2>2, <3>1 DEF Matches, Execute, files, control
    <3>2. CASE p # "runtime"
      <4>1. Matches(role, p) \/ env[role][p] # pins[role][p]
        BY <2>3, <3>2 DEF Genuine, Watched
      <4>2. Matches(role, p) => Matches(role, p)'
        BY <2>1, <3>2 DEF TypeOK, Execute, control, Matches
      <4> QED BY <4>1, <4>2
    <3> QED BY <3>1, <3>2
  <2>5. Checked'
    BY <2>3 DEF Checked, Execute, files, control
  <2>6. PinnedRuns'
    BY <2>1, <2>3 DEF Genuine, PinnedRuns, Completed, Execute, files, control
  <2> QED
    BY <2>4, <2>5, <2>6 DEF Genuine, PinsValid, ValidPins, Execute, files, control
<1> QED BY <1>1, <1>2, <1>3

LEMMA AfterKeeps ==
  ASSUME IInv, After
  PROVE  IInv'
<1> USE UpgradeAssumption, RecordTypes DEF IInv
<1>1. TypeOK'
  BY DEF TypeOK, Roles, Files, Loaded, Results, Working, Unpinned, NoRecord, Torn, Unknown, Ended, After, Dies, files, control, process, Ready, RecordReady, Shape
<1>2. Ready'
  BY DEF Ready, Shape, Receipts, RecordReady, Undecided, Other, Working, Roles, TypeOK, After, Dies, files, control, process
<1>3. Genuine'
  BY DEF Genuine, Watched, Checked, PinnedRuns, PinsValid, Matches, Completed, ValidPins, Roles, Parts, Working, Ready, Shape, Receipts, Undecided, Other, TypeOK, After, Dies, files, control, process
<1> QED BY <1>1, <1>2, <1>3

LEMMA WriteRecordKeeps ==
  ASSUME IInv, WriteRecord
  PROVE  IInv'
<1> USE UpgradeAssumption, RecordTypes DEF IInv
<1>1. TypeOK'
  BY DEF TypeOK, Roles, Files, Loaded, Results, Working, Unpinned, NoRecord, Torn, Unknown, Ended, WriteRecord, files, control, process, Ready, RecordReady, Shape
<1>2. Ready'
  BY DEF Ready, Shape, Receipts, RecordReady, Undecided, Other, Working, Roles, TypeOK, WriteRecord, files, control, process
<1>3. Genuine'
  BY DEF Genuine, Watched, Checked, PinnedRuns, PinsValid, Matches, Completed, ValidPins, Roles, Parts, Working, Ready, Shape, Receipts, Undecided, Other, TypeOK, WriteRecord, files, control, process
<1> QED BY <1>1, <1>2, <1>3

LEMMA WriteReceiptKeeps ==
  ASSUME IInv, WriteReceipt
  PROVE  IInv'
<1> USE UpgradeAssumption, RecordTypes DEF IInv
<1>1. TypeOK'
  BY DEF TypeOK, Roles, Files, Loaded, Results, Working, Unpinned, NoRecord, Torn, Unknown, Ended, WriteReceipt, files, control, process, Ready, RecordReady, Shape
<1>2. Ready'
  BY DEF Ready, Shape, Receipts, RecordReady, Undecided, Other, Working, Roles, TypeOK, WriteReceipt, files, control, process
<1>3. Genuine'
  BY DEF Genuine, Watched, Checked, PinnedRuns, PinsValid, Matches, Completed, ValidPins, Roles, Parts, Working, Ready, Shape, Receipts, Undecided, Other, TypeOK, WriteReceipt, files, control, process
<1> QED BY <1>1, <1>2, <1>3

LEMMA ExitWorkerKeeps ==
  ASSUME IInv, ExitWorker
  PROVE  IInv'
<1> USE UpgradeAssumption, RecordTypes DEF IInv
<1>1. TypeOK'
  BY DEF TypeOK, Roles, Files, Loaded, Results, Working, Unpinned, NoRecord, Torn, Unknown, Ended, ExitWorker, files, control, process, Ready, RecordReady, Shape
<1>2. Ready'
  BY DEF Ready, Shape, Receipts, RecordReady, Undecided, Other, Working, Roles, TypeOK, ExitWorker, files, control, process
<1>3. Genuine'
  BY DEF Genuine, Watched, Checked, PinnedRuns, PinsValid, Matches, Completed, ValidPins, Roles, Parts, Working, Ready, Shape, Receipts, Undecided, Other, TypeOK, ExitWorker, files, control, process
<1> QED BY <1>1, <1>2, <1>3

LEMMA CrashKeeps ==
  ASSUME IInv, Crash
  PROVE  IInv'
<1> USE UpgradeAssumption, RecordTypes DEF IInv
<1>1. TypeOK'
  BY DEF TypeOK, Roles, Files, Loaded, Results, Working, Unpinned, NoRecord, Torn, Unknown, Ended, Crash, Cut, Dies, files, control, process, Ready, RecordReady, Shape
<1>2. Ready'
  BY DEF Ready, Shape, Receipts, RecordReady, Undecided, Other, Working, Roles, TypeOK, Crash, Cut, Dies, files, control, process
<1>3. Genuine'
  BY DEF Genuine, Watched, Checked, PinnedRuns, PinsValid, Matches, Completed, ValidPins, Roles, Parts, Working, Ready, Shape, Receipts, Undecided, Other, TypeOK, Crash, Cut, Dies, files, control, process
<1> QED BY <1>1, <1>2, <1>3

LEMMA ValidateKeeps ==
  ASSUME IInv, Validate
  PROVE  IInv'
<1> USE UpgradeAssumption, RecordTypes DEF IInv
<1>1. TypeOK'
  BY DEF TypeOK, Roles, Files, Loaded, Results, Working, Unpinned, NoRecord, Torn, Unknown, Ended, Validate, files, control, process, Ready, RecordReady, Shape
<1>2. Ready'
  BY DEF Ready, Shape, Receipts, RecordReady, Undecided, Other, Working, Roles, TypeOK, Validate, files, control, process
<1>3. Genuine'
  BY DEF Genuine, Watched, Checked, PinnedRuns, PinsValid, Matches, Completed, ValidPins, Roles, Parts, Working, Ready, Shape, Receipts, Undecided, Other, TypeOK, Validate, files, control, process
<1> QED BY <1>1, <1>2, <1>3

LEMMA CallKeeps ==
  ASSUME IInv, Call
  PROVE  IInv'
<1> USE UpgradeAssumption, RecordTypes DEF IInv
<1>1. TypeOK'
  BY DEF TypeOK, Roles, Files, Loaded, Results, Working, Unpinned, NoRecord, Torn, Unknown, Ended, Call, files, control, process, Ready, RecordReady, Shape
<1>2. Ready'
  BY DEF Ready, Shape, Receipts, RecordReady, Undecided, Other, Working, Roles, TypeOK, Call, files, control, process
<1>3. Genuine'
  BY DEF Genuine, Watched, Checked, PinnedRuns, PinsValid, Matches, Completed, ValidPins, Roles, Parts, Working, Ready, Shape, Receipts, Undecided, Other, TypeOK, Call, files, control, process
<1> QED BY <1>1, <1>2, <1>3

LEMMA CallTooLateKeeps ==
  ASSUME IInv, CallTooLate
  PROVE  IInv'
<1> USE UpgradeAssumption, RecordTypes DEF IInv
<1>1. TypeOK'
  BY DEF TypeOK, Roles, Files, Loaded, Results, Working, Unpinned, NoRecord, Torn, Unknown, Ended, CallTooLate, FailRun, Give, Advance, files, control, process, Ready, RecordReady, Shape
<1>2. Ready'
  BY DEF Ready, Shape, Receipts, RecordReady, Undecided, Other, Working, Roles, TypeOK, CallTooLate, FailRun, Give, Advance, files, control, process
<1>3. Genuine'
  BY DEF Genuine, Watched, Checked, PinnedRuns, PinsValid, Matches, Completed, ValidPins, Roles, Parts, Working, Ready, Shape, Receipts, Undecided, Other, TypeOK, CallTooLate, FailRun, Give, Advance, files, control, process
<1> QED BY <1>1, <1>2, <1>3

LEMMA HashPythonKeeps ==
  ASSUME IInv, HashPython
  PROVE  IInv'
<1> USE UpgradeAssumption, RecordTypes DEF IInv
<1>1. TypeOK'
  BY DEF TypeOK, Roles, Files, Loaded, Results, Working, Unpinned, NoRecord, Torn, Unknown, Ended, Parts, HashPython, FailRun, Give, Advance, files, control, process, Ready, RecordReady, Shape
<1>2. Ready'
  BY DEF Ready, Shape, Receipts, RecordReady, Undecided, Other, Working, Roles, TypeOK, HashPython, FailRun, Give, Advance, files, control, process
<1>3. Genuine'
  BY DEF Genuine, Watched, Checked, PinnedRuns, PinsValid, Matches, Completed, ValidPins, Roles, Parts, Working, Ready, Shape, Receipts, Undecided, Other, TypeOK, HashPython, FailRun, Give, Advance, files, control, process
<1> QED BY <1>1, <1>2, <1>3

LEMMA HashOpenmpKeeps ==
  ASSUME IInv, HashOpenmp
  PROVE  IInv'
<1> USE UpgradeAssumption, RecordTypes DEF IInv
<1>1. TypeOK'
  BY DEF TypeOK, Roles, Files, Loaded, Results, Working, Unpinned, NoRecord, Torn, Unknown, Ended, HashOpenmp, FailRun, Give, Advance, files, control, process, Ready, RecordReady, Shape
<1>2. Ready'
  BY DEF Ready, Shape, Receipts, RecordReady, Undecided, Other, Working, Roles, TypeOK, HashOpenmp, FailRun, Give, Advance, files, control, process
<1>3. Genuine'
  BY DEF Genuine, Watched, Checked, PinnedRuns, PinsValid, Matches, Completed, ValidPins, Roles, Parts, Working, Ready, Shape, Receipts, Undecided, Other, TypeOK, HashOpenmp, FailRun, Give, Advance, files, control, process
<1> QED BY <1>1, <1>2, <1>3

LEMMA SpawnKeeps ==
  ASSUME IInv, Spawn
  PROVE  IInv'
<1> USE UpgradeAssumption, RecordTypes DEF IInv
<1>1. TypeOK'
  <2>1. [env[role] EXCEPT !["runtime"] = MaxVersion + 1] \in Loaded
    BY DEF TypeOK, Files, Loaded, Parts
  <2>2. loaded' \in [Roles -> Loaded]
    BY <2>1 DEF TypeOK, Spawn
  <2> QED
    BY <2>2 DEF TypeOK, Spawn, files, Working
<1>2. Ready'
  BY DEF Ready, Shape, Receipts, RecordReady, Undecided, Other, Working, Roles, TypeOK, Spawn, files, control, process
<1>3. Genuine'
  BY DEF Genuine, Watched, Checked, PinnedRuns, PinsValid, Matches, Completed, ValidPins, Roles, Parts, Working, Ready, Shape, Receipts, Undecided, Other, TypeOK, Spawn, files, control, process
<1> QED BY <1>1, <1>2, <1>3

LEMMA WorkerEndsKeeps ==
  ASSUME IInv, WorkerEnds
  PROVE  IInv'
<1> USE UpgradeAssumption, RecordTypes DEF IInv
<1>1. TypeOK'
  BY DEF TypeOK, Roles, Files, Loaded, Results, Working, Unpinned, NoRecord, Torn, Unknown, Ended, WorkerEnds, files, control, process, Ready, RecordReady, Shape
<1>2. Ready'
  BY DEF Ready, Shape, Receipts, RecordReady, Undecided, Other, Working, Roles, TypeOK, WorkerEnds, files, control, process
<1>3. Genuine'
  BY DEF Genuine, Watched, Checked, PinnedRuns, PinsValid, Matches, Completed, ValidPins, Roles, Parts, Working, Ready, Shape, Receipts, Undecided, Other, TypeOK, WorkerEnds, files, control, process
<1> QED BY <1>1, <1>2, <1>3

LEMMA TimesOutKeeps ==
  ASSUME IInv, TimesOut
  PROVE  IInv'
<1> USE UpgradeAssumption, RecordTypes DEF IInv
<1>1. TypeOK'
  BY DEF TypeOK, Roles, Files, Loaded, Results, Working, Unpinned, NoRecord, Torn, Unknown, Ended, TimesOut, Cut, files, control, process, Ready, RecordReady, Shape
<1>2. Ready'
  BY DEF Ready, Shape, Receipts, RecordReady, Undecided, Other, Working, Roles, TypeOK, TimesOut, Cut, files, control, process
<1>3. Genuine'
  BY DEF Genuine, Watched, Checked, PinnedRuns, PinsValid, Matches, Completed, ValidPins, Roles, Parts, Working, Ready, Shape, Receipts, Undecided, Other, TypeOK, TimesOut, Cut, files, control, process
<1> QED BY <1>1, <1>2, <1>3

LEMMA ProcessRaisesKeeps ==
  ASSUME IInv, ProcessRaises
  PROVE  IInv'
<1> USE UpgradeAssumption, RecordTypes DEF IInv
<1>1. TypeOK'
  BY DEF TypeOK, Roles, Files, Loaded, Results, Working, Unpinned, NoRecord, Torn, Unknown, Ended, ProcessRaises, files, control, process, Ready, RecordReady, Shape
<1>2. Ready'
  BY DEF Ready, Shape, Receipts, RecordReady, Undecided, Other, Working, Roles, TypeOK, ProcessRaises, files, control, process
<1>3. Genuine'
  BY DEF Genuine, Watched, Checked, PinnedRuns, PinsValid, Matches, Completed, ValidPins, Roles, Parts, Working, Ready, Shape, Receipts, Undecided, Other, TypeOK, ProcessRaises, files, control, process
<1> QED BY <1>1, <1>2, <1>3

LEMMA BindInspectionKeeps ==
  ASSUME IInv, BindInspection
  PROVE  IInv'
<1> USE UpgradeAssumption, RecordTypes DEF IInv
<1>1. TypeOK'
  BY DEF TypeOK, Roles, Files, Loaded, Results, Working, Unpinned, NoRecord, Torn, Unknown, Ended, BindInspection, Advance, files, control, process, Ready, RecordReady, Shape
<1>2. Ready'
  <2>1. mode = "inspect" /\ pc = "bind" /\ worker' = "none" /\ results' = results
    BY DEF BindInspection
  <2>2. \A r \in Roles : receipt'[r] = "none"
    BY <2>1 DEF Ready, Receipts, Other, Roles, TypeOK, BindInspection
  <2>3. \/ role' = "candidate" /\ mode' = "inspect" /\ pc' = "hash"
        \/ role' = role /\ role = "candidate" /\ mode' = "inspect" /\ pc' = "validate"
        \/ role' = role /\ mode' = "inspect" /\ pc' = "refused"
    <3>1. CASE code = "ok" /\ observed["python"] = expected
      <4>1. CASE role = "reference"
        BY <2>1, <3>1, <4>1 DEF BindInspection, Advance
      <4>2. CASE role = "candidate"
        BY <2>1, <3>1, <4>2 DEF BindInspection, Advance
      <4> QED BY <4>1, <4>2 DEF TypeOK, Roles
    <3>2. CASE ~(code = "ok" /\ observed["python"] = expected)
      BY <2>1, <3>2 DEF BindInspection
    <3> QED BY <3>1, <3>2
  <2>4. Shape'
    BY <2>1, <2>3 DEF Shape, Working
  <2>5. Receipts' /\ RecordReady'
    BY <2>1, <2>2, <2>3 DEF Receipts, RecordReady, Other, Roles, Working, TypeOK
  <2>6. Undecided'
    BY <2>1, <2>3 DEF Ready, Undecided, Roles, TypeOK
  <2> QED BY <2>4, <2>5, <2>6 DEF Ready
<1>3. Genuine'
  BY DEF Genuine, Watched, Checked, PinnedRuns, PinsValid, Matches, Completed, ValidPins, Roles, Parts, Working, Ready, Shape, Receipts, Undecided, Other, TypeOK, BindInspection, Advance, files, control, process
<1> QED BY <1>1, <1>2, <1>3

LEMMA BindRunKeeps ==
  ASSUME IInv, BindRun
  PROVE  IInv'
<1> USE UpgradeAssumption, RecordTypes DEF IInv
<1>1. TypeOK'
  BY DEF TypeOK, Roles, Files, Loaded, Results, Working, Unpinned, NoRecord, Torn, Unknown, Ended, BindRun, Give, Advance, RunResult, Bound, files, control, process, Ready, RecordReady, Shape
<1>2. Ready'
  BY DEF Ready, Shape, Receipts, RecordReady, Undecided, Other, Working, Roles, TypeOK, BindRun, Give, Advance, RunResult, Bound, files, control, process
<1>3. Genuine'
  <2>1. results \in [Roles -> Results] /\ role \in Roles /\ mode = "run" /\ pc' # "wait" /\ pc' # "bind"
    BY DEF TypeOK, BindRun, Advance
  <2>2. \A r \in Roles, p \in Parts : Matches(r, p)' = Matches(r, p)
    BY DEF BindRun, Matches, files
  <2>3. \A r \in Roles : Completed(r)' => Completed(r) \/ (r = role /\ RunResult.status = "completed")
    <3> SUFFICES ASSUME NEW r \in Roles, Completed(r)', ~Completed(r)
                 PROVE  r = role /\ RunResult.status = "completed"
      OBVIOUS
    <3>0. ASSUME NEW result, Give(result)
          PROVE  r = role /\ result.status = "completed"
      <4>1. results' = [results EXCEPT ![role] = result]
        BY <3>0 DEF Give
      <4>2. results'[r].status = "completed" /\ results[r].status # "completed"
        BY DEF Completed
      <4> QED BY <2>1, <4>1, <4>2
    <3>1. Failed("failed").status # "completed"
      BY DEF Failed
    <3> HIDE DEF Give, RunResult, Failed
    <3> QED BY <3>0, <3>1 DEF BindRun
  <2>4. RunResult.status = "completed" => receipt[role] = "written"
    BY DEF RunResult, Bound, BindRun, Ready, RecordReady, RunRecord, NoRecord
  <2>5. PinnedRuns'
    BY <2>1, <2>2, <2>3, <2>4 DEF Genuine, PinnedRuns, Checked, BindRun
  <2>6. PinsValid'
    BY <2>1 DEF Genuine, PinsValid, ValidPins, BindRun, Advance
  <2> QED BY <2>1, <2>5, <2>6 DEF Genuine, Watched, Checked
<1> QED BY <1>1, <1>2, <1>3

LEMMA DeadlinePassesKeeps ==
  ASSUME IInv, DeadlinePasses
  PROVE  IInv'
<1> USE UpgradeAssumption, RecordTypes DEF IInv
<1>1. TypeOK'
  BY DEF TypeOK, Roles, Files, Loaded, Results, Working, Unpinned, NoRecord, Torn, Unknown, Ended, DeadlinePasses, files, control, process, Ready, RecordReady, Shape
<1>2. Ready'
  BY DEF Ready, Shape, Receipts, RecordReady, Undecided, Other, Working, Roles, TypeOK, DeadlinePasses, files, control, process
<1>3. Genuine'
  BY DEF Genuine, Watched, Checked, PinnedRuns, PinsValid, Matches, Completed, ValidPins, Roles, Parts, Working, Ready, Shape, Receipts, Undecided, Other, TypeOK, DeadlinePasses, files, control, process
<1> QED BY <1>1, <1>2, <1>3

-----------------------------------------------------------------------------
LEMMA Invariance == Spec => []IInv
<1> USE UpgradeAssumption DEF IInv
<1>1. Init => IInv
  <2> SUFFICES ASSUME Init PROVE IInv
    OBVIOUS
  <2>1. TypeOK
    <3>1. 0 \in 0..MaxVersion /\ MaxVersion + 1 \in 0..MaxVersion + 1
      OBVIOUS
    <3>2. Unpinned \in Loaded
      BY <3>1 DEF Unpinned, Loaded
    <3>3. env \in [Roles -> Files] /\ changes \in 0..MaxChanges
      BY DEF Init
    <3>4. results \in [Roles -> Results] /\ loaded \in [Roles -> Loaded]
      BY <3>2 DEF Init, Results
    <3>5. /\ pins \in [Roles -> Files \cup {Unpinned}]
          /\ receipt \in [Roles -> {"none", "torn", "written"}]
      BY DEF Init
    <3> QED
      BY <3>1, <3>3, <3>4, <3>5 DEF TypeOK, Init, Roles
  <2>2. Ready
    BY DEF Init, Ready, Shape, Receipts, RecordReady, Undecided, Working, Other, Roles
  <2>3. Genuine
    BY DEF Init, Genuine, Watched, Checked, PinnedRuns, PinsValid, Completed, Unknown
  <2> QED BY <2>1, <2>2, <2>3
<1>2. IInv /\ [Next]_vars => IInv'
  <2> SUFFICES ASSUME IInv, [Next]_vars PROVE IInv'
    OBVIOUS
  <2>1. CASE Controller
    BY <2>1, ValidateKeeps, CallKeeps, CallTooLateKeeps, HashPythonKeeps, HashOpenmpKeeps,
       SpawnKeeps, WorkerEndsKeeps, TimesOutKeeps, BindInspectionKeeps, BindRunKeeps
       DEF Controller
  <2>2. CASE Worker
    BY <2>2, ObserveKeeps, ExecuteKeeps, AfterKeeps, WriteRecordKeeps, WriteReceiptKeeps,
       ExitWorkerKeeps, CrashKeeps DEF Worker
  <2>3. CASE DeadlinePasses
    BY <2>3, DeadlinePassesKeeps
  <2>4. CASE \E r \in Roles, p \in Parts : Change(r, p)
    BY <2>4, ChangeKeeps
  <2>6. CASE ProcessRaises
    BY <2>6, ProcessRaisesKeeps
  <2>5. CASE UNCHANGED vars
    <3>1. TypeOK'
      BY <2>5 DEF vars, files, control, process, TypeOK
    <3>2. Ready'
      BY <2>5 DEF vars, files, control, process, Ready, Shape, Receipts, RecordReady,
         Undecided
    <3>3. Genuine'
      BY <2>5 DEF vars, files, control, process, Genuine, Watched, Checked, PinnedRuns,
         PinsValid, ValidPins, Matches, Completed
    <3> QED BY <3>1, <3>2, <3>3
  <2> QED BY <2>1, <2>2, <2>3, <2>4, <2>5, <2>6 DEF Next, Finished
<1> QED BY <1>1, <1>2, PTL DEF Spec

(* The types of the verification's state: among them, that whatever a        *)
(* worker leaves behind, the study gets a run record for each role.          *)
THEOREM TypeCorrect == Spec => []TypeOK
<1>1. IInv => TypeOK
  BY DEF IInv
<1> QED BY <1>1, Invariance, PTL

(* A completed run used the pinned files of every part, whatever is          *)
(* installed while it lasts, unless a part was put back.                     *)
THEOREM PinnedExecution == Spec => []RanPinned
<1>1. IInv => RanPinned
  BY DEF IInv, Genuine, PinnedRuns, RanPinned, Matches
<1> QED BY <1>1, Invariance, PTL

(* Two completed runs had the same interpreter and the controller's package. *)
THEOREM LikeWithLike == Spec => []OnlyRuntimeDiffers
<1>1. IInv => OnlyRuntimeDiffers
  <2> SUFFICES ASSUME IInv, \A r \in Roles : Completed(r), returned = {}
               PROVE  /\ loaded["reference"]["python"] = loaded["candidate"]["python"]
                      /\ \A r \in Roles : loaded[r]["package"] = Implementation
    BY DEF OnlyRuntimeDiffers
  <2>1. \A r \in Roles, p \in Parts : loaded[r][p] = pins[r][p]
    BY DEF IInv, Genuine, PinnedRuns, Matches
  <2>2. mode = "run"
    BY DEF IInv, Ready, Undecided, Completed, Unknown, TypeOK, Roles
  <2> QED BY <2>1, <2>2 DEF IInv, Genuine, PinsValid, ValidPins, Roles, Parts
<1> QED BY <1>1, Invariance, PTL

-----------------------------------------------------------------------------
(* A record that says completed has measurements, also while it is torn.    *)
MeasuredRecord == record.status = "completed" => record.measured

LEMMA MeasuredKeeps == MeasuredRecord /\ [Next]_vars => MeasuredRecord'
<1> SUFFICES ASSUME MeasuredRecord, [Next]_vars PROVE MeasuredRecord'
  OBVIOUS
<1>1. \/ record' = record \/ record' \in {NoRecord, Torn}
      \/ record' \in Unlaunched \cup Launched
  BY DEF Next, Controller, Worker, Validate, Call, CallTooLate, HashPython, HashOpenmp,
     FailRun, Spawn, WorkerEnds, TimesOut, ProcessRaises, BindInspection, BindRun, Observe, Execute, After,
     WriteRecord, WriteReceipt, ExitWorker, Crash, Cut, DeadlinePasses, Change, Finished,
     vars, process
<1>2. /\ \A r \in Unlaunched \cup Launched : r.status = "completed" => r.measured
      /\ NoRecord.status # "completed" /\ Torn.status # "completed"
  BY DEF Unlaunched, Launched, RunRecord, NoRecord, Torn
<1> QED BY <1>1, <1>2 DEF MeasuredRecord

(* What the study gets for a role is one of a run that was not started, or  *)
(* the result of its worker.                                               *)
LEMMA ResultSteps ==
  ASSUME IInv, Next, results' # results
  PROVE  \/ /\ receipt[role] = "none"
            /\ \E s \in {"failed", "timed_out"} : Give(Failed(s))
         \/ BindRun
<1>1. \/ FailRun("failed") /\ pc \in {"hash", "openmp"}
      \/ FailRun("timed_out") /\ pc = "call"
      \/ BindRun
  BY DEF Next, Controller, Worker, Validate, Call, CallTooLate, HashPython, HashOpenmp,
     Spawn, WorkerEnds, TimesOut, ProcessRaises, BindInspection, Observe, Execute, After,
     WriteRecord,
     WriteReceipt, ExitWorker, Crash, DeadlinePasses, Change, Finished, vars, control
<1> QED BY <1>1 DEF FailRun, IInv, Ready, Receipts

(* A worker that was killed or failed never gives its run the status        *)
(* completed, whatever record and receipt it has left; and what it has left *)
(* in full is in the result, unless the exchange failed and the result says *)
(* failed.                                                                  *)
THEOREM CompletionIsEarned == Spec => ResultsEarned
<1> DEFINE Earned(r) ==
      results'[r] # results[r] =>
       /\ Completed(r)' => code = "ok" /\ receipt[r] = "written" /\ record.measured
       /\ receipt[r] = "written" =>
            \/ /\ results'[r].measured = record.measured
               /\ results'[r].observed = record.observed
            \/ results'[r] = Failed("failed")
<1>1. IInv /\ MeasuredRecord /\ [Next]_vars => [\A r \in Roles : Earned(r)]_vars
  <2> SUFFICES ASSUME IInv, MeasuredRecord, Next, NEW r \in Roles, results'[r] # results[r]
               PROVE  Earned(r)
    OBVIOUS
  <2>t. results \in [Roles -> Results] /\ role \in Roles
    BY DEF IInv, TypeOK
  <2>1. CASE /\ receipt[role] = "none"
             /\ \E s \in {"failed", "timed_out"} : Give(Failed(s))
    <3>1. r = role /\ Completed(r)' = FALSE
      BY <2>t, <2>1 DEF Give, Completed, Failed
    <3> QED BY <2>1, <3>1
  <2>2. CASE BindRun /\ Give(Failed("failed"))
    <3>1. r = role /\ results'[r] = Failed("failed") /\ Completed(r)' = FALSE
      BY <2>t, <2>2 DEF Give, Completed, Failed
    <3> QED BY <3>1
  <2>3. CASE BindRun /\ Give(RunResult)
    <3>1. r = role /\ results'[r] = RunResult
      BY <2>t, <2>3 DEF BindRun, Give
    <3>2. receipt[r] = "written" => record \in RunRecord
      BY <2>3, <3>1 DEF BindRun, IInv, Ready, RecordReady
    <3>3. RunResult.status = "completed" => code = "ok" /\ Bound
      BY <3>1, <3>2 DEF RunResult, Bound, RunRecord, NoRecord
    <3>4. Bound => RunResult.measured = record.measured /\ RunResult.observed = record.observed
      BY <3>1, <3>2 DEF RunResult, Bound, RunRecord
    <3>5. code = "ok" /\ Bound => RunResult = record
      BY DEF RunResult
    <3> QED BY <3>1, <3>3, <3>4, <3>5 DEF Completed, Bound, MeasuredRecord
  <2>4. BindRun => Give(RunResult) \/ Give(Failed("failed"))
    BY DEF BindRun
  <2> QED BY <2>1, <2>2, <2>3, <2>4, ResultSteps
<1>2. Init => MeasuredRecord
  BY DEF Init, MeasuredRecord, NoRecord
<1> QED BY <1>1, <1>2, Invariance, MeasuredKeeps, PTL DEF Spec, ResultsEarned
==============================================================================
