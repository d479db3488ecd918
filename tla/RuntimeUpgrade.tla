---------------------------- MODULE RuntimeUpgrade ----------------------------
(***************************************************************************)
(* Verification of a runtime upgrade in two pinned local environments      *)
(* (metria.runtime_environment, runtime_executor, runtime_worker,          *)
(* preparation_upgrade and verification_upgrade).                          *)
(*                                                                         *)
(* Preparation inspects both environments through a worker process in each *)
(* interpreter and pins what it observes.  Verification then runs each     *)
(* role in a worker of its own, under one deadline for both, and binds the *)
(* worker's receipt and record to its request.  Meanwhile anybody may      *)
(* install other files in the environments (`env`), a worker may die at    *)
(* any point of its work, and it may be killed by the deadline.            *)
(*                                                                         *)
(* A file set is its version.  A worker uses what it has loaded (`loaded`), *)
(* which is not what a later hash of the files shows.                      *)
(***************************************************************************)
EXTENDS Naturals, RunRecords

CONSTANTS
  Installed,     \* the files that may be installed at first
  MaxChanges,    \* bound: changes of installed files
  MaxVersion     \* bound: versions of one part, counted from 0

Roles == {"reference", "candidate"}
Parts == {"python", "openmp", "package", "runtime"}
Files == [Parts -> 0..MaxVersion]

ASSUME UpgradeAssumption ==
  /\ MaxChanges \in Nat /\ MaxVersion \in Nat
  /\ Installed \subseteq [Roles -> Files]

(* The controller's own package; the worker's must be the same.             *)
Implementation == 0

(* Whether the files of the runtime carry the version the upgrade route is  *)
(* qualified for: the last version stands for any other.                    *)
Qualified(version) == version # MaxVersion

VARIABLES
  env,         \* [Roles -> the files installed now]
  changes,     \* how often they were changed
  returned,    \* <<role, part>>: changed back to the pinned files
  pins,        \* [Roles -> pinned files, once inspected]
  mode, role,  \* inspect | run, and the role worked on
  pc,          \* program point of the controller
  armed, due,  \* the shared deadline: set by the first run, passed
  expected,    \* hash of the interpreter that inspection expects
  worker,      \* program point of the worker process
  loaded,      \* [Roles -> what the role's last worker has loaded]
  observed,    \* what the worker observed first
  record,      \* the run's record, in the worker until it is its file
  receipt,     \* [Roles -> none | torn | written]
  code,        \* the worker's exit: running | ok | failed | killed
  results      \* [Roles -> the record returned to the study]

files    == <<env, changes, returned>>
control  == <<pins, mode, role, pc, armed, due, expected, results>>
process  == <<worker, loaded, observed, record, receipt, code>>
vars     == <<files, control, process>>

Unpinned == [p \in Parts |-> MaxVersion + 1]
Unknown  == [status |-> "none", measured |-> FALSE, observed |-> FALSE]
NoRecord == [status |-> "none", measured |-> FALSE, observed |-> FALSE]
Torn     == [status |-> "torn", measured |-> FALSE, observed |-> FALSE]
Failed(status) == [status |-> status, measured |-> FALSE, observed |-> FALSE]
Ended    == {"done", "refused", "raised"}
Working  == {"observe", "execute", "after", "record", "receipt", "exit"}

Init ==
  /\ env \in Installed /\ changes = 0 /\ returned = {}
  /\ pins = [r \in Roles |-> Unpinned]
  /\ mode = "inspect" /\ role = "reference" /\ pc = "hash"
  /\ armed = FALSE /\ due = FALSE /\ expected = 0
  /\ worker = "none" /\ loaded = [r \in Roles |-> Unpinned] /\ observed = Unpinned
  /\ record = NoRecord /\ receipt = [r \in Roles |-> "none"] /\ code = "running"
  /\ results = [r \in Roles |-> Unknown]

-----------------------------------------------------------------------------
(* Everybody else: files are replaced, possibly by what was there before.   *)

Change(r, p) ==
  /\ changes < MaxChanges /\ pc \notin Ended
  /\ changes' = changes + 1
  /\ \E v \in 0..MaxVersion \ {env[r][p]} :
       /\ env' = [env EXCEPT ![r][p] = v]
       /\ returned' = IF v = pins[r][p] THEN returned \cup {<<r, p>>} ELSE returned
  /\ UNCHANGED <<control, process>>

-----------------------------------------------------------------------------
(* The worker process (runtime_worker.main, execute_request).               *)

Dies == worker' = "dead" /\ code' = "failed"

(* The first observation.  Inspection reports it; a run continues only in   *)
(* the pinned environment.                                                  *)
Observe ==
  /\ worker = "observe"
  /\ observed' = env[role]
  /\ \/ /\ env[role]["package"] # Implementation
        /\ Dies
     \/ /\ env[role]["package"] = Implementation /\ mode = "inspect"
        /\ worker' = "receipt" /\ UNCHANGED code
     \/ /\ env[role]["package"] = Implementation /\ mode = "run"
        /\ IF env[role] = pins[role] THEN worker' = "execute" /\ UNCHANGED code
                                     ELSE Dies
  /\ UNCHANGED <<files, control, loaded, record, receipt>>

(* execute_run imports the runtime and returns one of its records           *)
(* (RunLifecycle).                                                          *)
Execute ==
  /\ worker = "execute"
  /\ loaded' = [loaded EXCEPT ![role]["runtime"] = env[role]["runtime"]]
  /\ record' \in Unlaunched \cup Launched
  /\ worker' = "after"
  /\ UNCHANGED <<files, control, observed, receipt, code>>

(* The second observation, after the run.                                   *)
After_Skipped ==                      \* mistake: no second observation
  /\ worker = "after" /\ worker' = "record"
  /\ UNCHANGED <<files, control, loaded, observed, record, receipt, code>>

After ==
  /\ worker = "after"
  /\ IF env[role] = pins[role] THEN worker' = "record" /\ UNCHANGED <<code, record>>
                               ELSE Dies /\ record' = NoRecord
  /\ UNCHANGED <<files, control, loaded, observed, receipt>>

(* The record is written before the receipt that names its digest.          *)
WriteRecord ==
  /\ worker = "record" /\ worker' = "receipt"
  /\ UNCHANGED <<files, control, loaded, observed, record, receipt, code>>

WriteReceipt ==
  /\ worker = "receipt" /\ worker' = "exit"
  /\ receipt' = [receipt EXCEPT ![role] = "written"]
  /\ UNCHANGED <<files, control, loaded, observed, record, code>>

ExitWorker ==
  /\ worker = "exit" /\ worker' = "dead" /\ code' = "ok"
  /\ UNCHANGED <<files, control, loaded, observed, record, receipt>>

(* A worker that ends early leaves what it has not written yet unwritten,   *)
(* and what it is writing possibly torn.                                    *)
Cut ==
  /\ record' \in CASE worker \in {"execute", "after"} -> {NoRecord}
                   [] worker = "record" -> {NoRecord, Torn}
                   [] OTHER -> {record}
  /\ IF worker = "receipt"
       THEN receipt' \in {receipt, [receipt EXCEPT ![role] = "torn"]}
       ELSE UNCHANGED receipt

Crash ==
  /\ worker \in Working
  /\ Dies /\ Cut
  /\ UNCHANGED <<files, control, loaded, observed>>

Worker == Observe \/ Execute \/ After \/ WriteRecord \/ WriteReceipt
            \/ ExitWorker \/ Crash

-----------------------------------------------------------------------------
(* The controller.                                                          *)

Give(result) == results' = [results EXCEPT ![role] = result]

(* The next role, or the next phase.                                        *)
Advance ==
  \/ /\ role = "reference"
     /\ role' = "candidate" /\ UNCHANGED mode
     /\ pc' = IF mode = "inspect" THEN "hash" ELSE "call"
  \/ /\ role = "candidate"
     /\ pc' = IF mode = "inspect" THEN "validate" ELSE "done"
     /\ UNCHANGED <<role, mode>>

FailRun(status) ==
  /\ Give(Failed(status)) /\ Advance
  /\ UNCHANGED <<files, process, pins, armed, due, expected>>

(* validate_upgrade_recipe: qualified versions, the same interpreter and    *)
(* the controller's package in both environments.                           *)
ValidPins_AnyPython ==                \* mistake: interpreters are not compared
  \A r \in Roles : /\ pins[r]["package"] = Implementation
                   /\ Qualified(pins[r]["runtime"])

ValidPins ==
  /\ \A r \in Roles : /\ pins[r]["package"] = Implementation
                      /\ Qualified(pins[r]["runtime"])
  /\ pins["reference"]["python"] = pins["candidate"]["python"]

Validate ==
  /\ pc = "validate"
  /\ IF ValidPins
       THEN mode' = "run" /\ role' = "reference" /\ pc' = "call"
       ELSE pc' = "refused" /\ UNCHANGED <<mode, role>>
  /\ UNCHANGED <<files, process, pins, armed, due, expected, results>>

(* RuntimeRunExecutor.__call__: the first run sets the deadline, and a run  *)
(* that finds it passed is not started.                                     *)
Call ==
  /\ pc = "call" /\ ~due
  /\ armed' = TRUE /\ pc' = "hash"
  /\ UNCHANGED <<files, process, pins, mode, role, due, expected, results>>

CallTooLate == pc = "call" /\ due /\ FailRun("timed_out")

(* The interpreter is hashed first: an inspection keeps the hash, a run     *)
(* compares it with its pin.                                                *)
HashPython ==
  /\ pc = "hash"
  /\ \/ /\ mode = "inspect"
        /\ expected' = env[role]["python"] /\ pc' = "spawn"
        /\ UNCHANGED <<files, process, pins, mode, role, armed, due, results>>
     \/ /\ mode = "run" /\ env[role]["python"] = pins[role]["python"]
        /\ pc' = "openmp"
        /\ UNCHANGED <<files, process, pins, mode, role, armed, due, expected, results>>
     \/ /\ mode = "run" /\ env[role]["python"] # pins[role]["python"]
        /\ FailRun("failed")

(* child_environment: the library to preload is hashed before the launch.   *)
HashOpenmp ==
  /\ pc = "openmp"
  /\ IF env[role]["openmp"] = pins[role]["openmp"]
       THEN /\ pc' = "spawn"
            /\ UNCHANGED <<files, process, pins, mode, role, armed, due, expected, results>>
       ELSE FailRun("failed")

Spawn ==
  /\ pc = "spawn" /\ pc' = "wait"
  /\ worker' = "observe" /\ code' = "running" /\ record' = NoRecord
  /\ loaded' = [loaded EXCEPT ![role] = [env[role] EXCEPT !["runtime"] = MaxVersion + 1]]
  /\ UNCHANGED <<files, pins, mode, role, armed, due, expected, results, observed,
                 receipt>>

(* run_process returns when the worker has ended, or kills it at its        *)
(* deadline (RunProcess); an inspection has a deadline of its own.          *)
WorkerEnds ==
  /\ pc = "wait" /\ worker = "dead"
  /\ pc' = "bind"
  /\ UNCHANGED <<files, process, pins, mode, role, armed, due, expected, results>>

TimesOut_Never == FALSE               \* mistake: nobody kills the worker

TimesOut ==
  /\ pc = "wait" /\ worker # "dead"
  /\ mode = "inspect" \/ due
  /\ worker' = "dead" /\ code' = "killed" /\ Cut
  /\ pc' = "bind"
  /\ UNCHANGED <<files, pins, mode, role, armed, due, expected, results, loaded,
                 observed>>

(* run_process raises instead (a launch or a pipe that fails, a cleanup past  *)
(* its deadline: RunProcess), having ended the worker.  Nobody catches the   *)
(* ProcessError: the temporary directory goes, with the record and receipt  *)
(* in it, the role gets no result, and the verification or the preparation   *)
(* ends with the error.                                                     *)
ProcessRaises ==
  /\ pc \in {"spawn", "wait"}
  /\ pc' = IF mode = "inspect" THEN "refused" ELSE "raised"
  /\ worker' = "dead" /\ code' = "killed"
  /\ record' = NoRecord /\ receipt' = [receipt EXCEPT ![role] = "none"]
  /\ UNCHANGED <<files, pins, mode, role, armed, due, expected, results, loaded,
                 observed>>

(* inspect_environment accepts the receipt of a worker that ended well and  *)
(* saw the interpreter that was hashed.                                     *)
BindInspection ==
  /\ pc = "bind" /\ mode = "inspect"
  /\ IF code = "ok" /\ observed["python"] = expected
       THEN pins' = [pins EXCEPT ![role] = observed] /\ Advance
       ELSE pc' = "refused" /\ UNCHANGED <<pins, role, mode>>
  /\ receipt' = [receipt EXCEPT ![role] = "none"]
  /\ worker' = "none"
  /\ UNCHANGED <<files, loaded, observed, record, code, armed, due, expected, results>>

(* _bound_record, and the result made of it: whatever the worker has left   *)
(* in full is kept as evidence, but a worker that did not finish has not    *)
(* completed its run.                                                       *)
Bound == receipt[role] = "written"

RunResult_Trusting ==                 \* mistake: a bound record decides
  IF Bound THEN record
           ELSE Failed(IF code = "killed" THEN "timed_out" ELSE "failed")

RunResult ==
  LET evidence == IF Bound THEN record ELSE NoRecord IN
  CASE code = "killed"       -> [evidence EXCEPT !.status = "timed_out"]
    [] code = "ok" /\ Bound  -> record
    [] OTHER                 -> [evidence EXCEPT !.status = "failed"]

(* The directory of the exchange is removed before the result is returned;  *)
(* when that fails, the result and its evidence are lost to a failure.       *)
BindRun ==
  /\ pc = "bind" /\ mode = "run"
  /\ Give(RunResult) \/ Give(Failed("failed"))
  /\ Advance
  /\ worker' = "none"
  /\ UNCHANGED <<files, loaded, observed, record, receipt, code, pins, armed, due,
                 expected>>

(* time.monotonic passes the deadline.                                      *)
DeadlinePasses ==
  /\ armed /\ ~due /\ pc \notin Ended
  /\ due' = TRUE
  /\ UNCHANGED <<files, process, pins, mode, role, pc, armed, expected, results>>

Controller == Validate \/ Call \/ CallTooLate \/ HashPython \/ HashOpenmp \/ Spawn
                \/ WorkerEnds \/ TimesOut \/ BindInspection \/ BindRun

Finished == pc \in Ended /\ UNCHANGED vars

Next == Controller \/ ProcessRaises \/ Worker \/ DeadlinePasses
          \/ (\E r \in Roles, p \in Parts : Change(r, p)) \/ Finished

(* The controller is scheduled and time passes; a worker may stop working   *)
(* at any point.                                                            *)
Spec == Init /\ [][Next]_vars /\ WF_vars(Controller) /\ WF_vars(DeadlinePasses)

-----------------------------------------------------------------------------
Loaded  == [Parts -> 0..MaxVersion + 1]
Results == RunRecord \cup {Unknown}

TypeOK ==
  /\ env \in [Roles -> Files] /\ changes \in 0..MaxChanges
  /\ returned \subseteq Roles \X Parts
  /\ pins \in [Roles -> Files \cup {Unpinned}]
  /\ mode \in {"inspect", "run"} /\ role \in Roles
  /\ pc \in {"hash", "openmp", "spawn", "wait", "bind", "validate", "call"}
            \cup Ended
  /\ armed \in BOOLEAN /\ due \in BOOLEAN /\ expected \in 0..MaxVersion
  /\ worker \in Working \cup {"none", "dead"}
  /\ loaded \in [Roles -> Loaded] /\ observed \in Files \cup {Unpinned}
  /\ record \in RunRecord \cup {NoRecord, Torn}
  /\ receipt \in [Roles -> {"none", "torn", "written"}]
  /\ code \in {"running", "ok", "failed", "killed"}
  /\ results \in [Roles -> Results]

(* A completed run used the pinned interpreter, library, package and        *)
(* runtime, all of them, whatever was installed meanwhile, unless the part  *)
(* was exchanged and put back while the run lasted.                         *)
Completed(r) == results[r].status = "completed"

RanPinned ==
  \A r \in Roles : Completed(r) =>
    \A p \in Parts : loaded[r][p] = pins[r][p] \/ <<r, p>> \in returned

(* Two completed runs differ in nothing but the runtime and its library:    *)
(* the same interpreter and the controller's own package ran both.          *)
OnlyRuntimeDiffers ==
  (\A r \in Roles : Completed(r)) /\ returned = {} =>
    /\ loaded["reference"]["python"] = loaded["candidate"]["python"]
    /\ \A r \in Roles : loaded[r]["package"] = Implementation

(* A run becomes completed only by a worker that has ended well, never by   *)
(* one that was killed or has failed after writing its record and receipt;  *)
(* yet what such a worker has written in full is evidence of its run: all   *)
(* of it, or none when the exchange itself has failed, and then the result   *)
(* is a failure.  (A ProcessError gives no result at all: ProcessRaises.)   *)
ResultsEarned ==
  [][\A r \in Roles : results'[r] # results[r] =>
       /\ Completed(r)' => code = "ok" /\ receipt[r] = "written" /\ record.measured
       /\ receipt[r] = "written" =>
            \/ /\ results'[r].measured = record.measured
               /\ results'[r].observed = record.observed
            \/ results'[r] = Failed("failed")]_vars

(* Verification ends, though a worker may hang: the deadline is shared by   *)
(* both runs and ends every wait.                                           *)
VerificationEnds == <>(pc \in Ended)
==============================================================================
