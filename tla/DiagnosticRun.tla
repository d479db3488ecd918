---------------------------- MODULE DiagnosticRun ----------------------------
(***************************************************************************)
(* metria.integrations.turboquant_diagnostic_runner.run_diagnostic: the    *)
(* thirteen sections of the TurboQuant hardware diagnostic, the thread     *)
(* that samples the system meanwhile, the handler of Ctrl+C, and the       *)
(* package made of the log, the profile and the samples.                   *)
(*                                                                         *)
(* Three actors interleave: the main thread (pc, and `section` inside the  *)
(* try statement), the monitor thread, and the user who presses Ctrl+C.    *)
(* Every stage of the main thread writes to the log, so a log that cannot  *)
(* be written any more (`broken`) makes the next stage raise.  What the    *)
(* benchmarks measure is chosen when their section runs; the commands      *)
(* themselves end by their own timeouts (RunProcess).                      *)
(***************************************************************************)
EXTENDS PlatformSupport, AnomalyDetector

CONSTANTS
  RunHosts,        \* the hosts the diagnostic is started on
  Probes,          \* [failed, markers]: outcomes of the backend probe
  DecodeDepths,    \* DECODE_DEPTHS, ascending
  StressDepths,    \* STRESS_DEPTHS, ascending
  DecodeRuns,      \* [ratios, slow]: what section 7 may measure, one ratio (or
                   \* NoRatio) per depth, and whether the baseline is too slow
  StressRuns,      \* ratios section 8 may measure
  PplDeltas,       \* perplexity differences, in tenths of a percent
  Samples,         \* what a monitor sample may show: ok, hot, swapping
  MaxRows,         \* bound: samples the monitor takes
  MaxFaults,       \* bound: failures outside the benchmark commands
  MaxSignals       \* bound: presses of Ctrl+C

ASSUME DiagnosticAssumption ==
  /\ RunHosts \subseteq Hosts
  /\ Probes \subseteq [failed : BOOLEAN, markers : SUBSET Backends]
  /\ DecodeDepths \in Seq(Nat) /\ StressDepths \in Seq(Nat)
  /\ DecodeRuns \subseteq [ratios : [DOMAIN DecodeDepths -> Nat \cup {NoRatio}],
                            slow : BOOLEAN]
  /\ StressRuns \subseteq [DOMAIN StressDepths -> Nat \cup {NoRatio}]
  /\ PplDeltas \subseteq Int
  /\ Samples \subseteq {"ok", "hot", "swapping"}
  /\ MaxRows \in Nat /\ MaxFaults \in Nat /\ MaxSignals \in Nat

VARIABLES
  host, skips,     \* the host, and the skip flags [stress, ppl]
  support,         \* the support contract
  pc,              \* program point of the main thread
  section,         \* the section the try statement runs next
  raised,          \* what left the try statement: none | probe | backend | error | log | exit
  broken,          \* the log cannot be written any more
  faults, signals, \* failures and presses so far
  mon,             \* program point of the monitor thread
  stopping,        \* its stop event
  latest,          \* its latest sample
  counted,         \* samples counted
  csv,             \* the monitor file: [exists, rows]
  detector,        \* the anomaly detector
  curves,          \* sections 7 and 8 -> the ratios they compared
  quality,         \* the perplexity differences section 10 compared
  trace,           \* [section -> none | ran | skipped | absent]: what the log
                   \* says of it; absent: skipped for lack of its corpus
  complete,        \* TURBO_DIAG_COMPLETE in the log: none | true | false
  summary,         \* what section 13 concludes: none | clean | flagged
  profile,         \* the profile file: none | torn | written
  logLost,         \* scrubbing has truncated the log and not rewritten all of it
  seen,            \* the rows scrubbing has read from the monitor file
  zip,             \* the package: [state, rows]
  status           \* the exit status; -1 while running

user     == <<host, skips>>
stage    == <<section, raised>>
events   == <<broken, faults, signals>>
monitor  == <<mon, latest, counted>>
findings == <<detector, curves, quality>>
verdicts == <<trace, complete, summary>>
files    == <<profile, logLost, seen, zip>>
vars     == <<user, support, pc, stage, events, monitor, stopping, csv, findings,
              verdicts, files, status>>

Running == -1
Points  == {"options", "banner", "start", "display", "sections", "except", "finally",
            "join", "summary", "profile", "relog", "reprofile", "scrub", "rescrub",
            "zip", "cleanup", "leaving", "hung", "ended"}
Logging == {"banner", "sections", "except", "summary", "profile", "cleanup"}
Quiet   == {"start", "display", "finally", "join", "relog", "reprofile", "scrub",
            "rescrub", "zip"}

(* The rows of the monitor file are numbered by the samples they hold.      *)
NoFile == [exists |-> FALSE, rows |-> {}]

Init ==
  /\ host \in RunHosts
  /\ skips \in [stress : BOOLEAN, ppl : BOOLEAN]
  /\ support = HostSupport(host)
  /\ pc = "options" /\ section = 1 /\ raised = "none"
  /\ broken = FALSE /\ faults = 0 /\ signals = 0
  /\ mon = "new" /\ stopping = FALSE /\ latest = "none" /\ counted = 0
  /\ csv = NoFile
  /\ detector = NewDetector /\ curves = <<>> /\ quality = {}
  /\ trace = [n \in AllSections |-> "none"]
  /\ complete = "none" /\ summary = "none"
  /\ profile = "none" /\ logLost = FALSE /\ seen = {} /\ zip = [state |-> "none", rows |-> {}]
  /\ status = Running

Exit(code) == pc' = "ended" /\ status' = code

-----------------------------------------------------------------------------
(* Before the try statement.                                                *)

(* --platform-support prints the contract and stops; a host without support *)
(* is refused; a missing tool or model ends with an error.                  *)
Refuse ==
  /\ pc = "options"
  /\ \/ Exit(0)
     \/ HostStatus(host) = "unsupported" /\ Exit(2)
     \/ HostStatus(host) # "unsupported" /\ Exit(1)
  /\ UNCHANGED <<user, support, stage, events, monitor, stopping, csv, findings,
                 verdicts, files>>

(* The log and the monitor file are created and the handler is installed.   *)
Setup ==
  /\ pc = "options" /\ HostStatus(host) # "unsupported"
  /\ support' = WithSkips(support, skips.stress, skips.ppl)
  /\ csv' = [exists |-> TRUE, rows |-> {}]
  /\ pc' = "banner"
  /\ UNCHANGED <<user, stage, events, monitor, stopping, findings, verdicts,
                 files, status>>

Banner ==
  /\ pc = "banner" /\ ~broken
  /\ pc' = "start"
  /\ UNCHANGED <<user, support, stage, events, monitor, stopping, csv, findings,
                 verdicts, files, status>>

(* The monitor and the display are threads.  One that does not start, or a   *)
(* first sample that fails and cannot be logged, ends the program here:     *)
(* without except or finally clause, and without a package.                 *)
StartMonitor ==
  /\ pc = "start"
  /\ \/ mon' = "check" /\ pc' = "display" /\ UNCHANGED <<faults, status>>
     \/ faults < MaxFaults /\ faults' = faults + 1 /\ Exit(1) /\ UNCHANGED mon
  /\ UNCHANGED <<user, support, stage, broken, signals, latest, counted, stopping, csv,
                 findings, verdicts, files>>

StartDisplay ==
  /\ pc = "display"
  /\ \/ pc' = "sections" /\ UNCHANGED <<faults, status>>
     \/ faults < MaxFaults /\ faults' = faults + 1 /\ Exit(1)
  /\ UNCHANGED <<user, support, stage, broken, signals, monitor, stopping, csv,
                 findings, verdicts, files>>

-----------------------------------------------------------------------------
(* The sections.                                                            *)

Ran(n, how) ==
  /\ pc = "sections" /\ section = n /\ ~broken
  /\ trace' = [trace EXCEPT ![n] = how]

(* The sections that only report: a command of theirs that fails is a line  *)
(* in the log.                                                              *)
Report(n) ==
  /\ Ran(n, "ran")
  /\ section' = n + 1
  /\ UNCHANGED <<user, support, pc, raised, events, monitor, stopping, csv,
                 findings, complete, summary, files, status>>

(* Section 4 probes the backend, and what follows depends on it.            *)
ProbeBackend ==
  \E probe \in Probes :
    LET verdict == Assessed(host, support, probe.failed, probe.markers) IN
    /\ Ran(4, "ran")
    /\ support' = verdict
    /\ CASE verdict.status = "inconclusive" ->
              raised' = "probe" /\ pc' = "except" /\ UNCHANGED section
         [] verdict.status = "unsupported" ->
              raised' = "backend" /\ pc' = "except" /\ UNCHANGED section
         [] OTHER -> section' = 5 /\ UNCHANGED <<pc, raised>>
    /\ UNCHANGED <<user, events, monitor, stopping, csv, findings, complete,
                   summary, files, status>>

(* The depths at which both cache types were measured, in ascending order.  *)
Curve(depths, measured) ==
  LET upTo[i \in 0..Len(depths)] ==
        IF i = 0 THEN <<>>
        ELSE IF measured[i] = NoRatio THEN upTo[i - 1]
        ELSE Append(upTo[i - 1], [depth |-> depths[i], ratio |-> measured[i]])
  IN upTo[Len(depths)]

MeasureDecode ==
  \E run \in DecodeRuns :
    LET curve == Curve(DecodeDepths, run.ratios) IN
    /\ Ran(7, "ran")
    /\ detector' = CheckMonitor(CheckDecodeRatios(CheckBaseline(detector, run.slow),
                                                  curve), latest)
    /\ curves' = Append(curves, curve)
    /\ section' = 8
    /\ UNCHANGED <<user, support, pc, raised, events, monitor, stopping, csv,
                   quality, complete, summary, files, status>>

MeasureStress ==
  \E measured \in StressRuns :
    LET curve == Curve(StressDepths, measured) IN
    /\ ~skips.stress /\ Ran(8, "ran")
    /\ detector' = CheckMonitor(CheckDecodeRatios(detector, curve), latest)
    /\ curves' = Append(curves, curve)
    /\ section' = 9
    /\ UNCHANGED <<user, support, pc, raised, events, monitor, stopping, csv,
                   quality, complete, summary, files, status>>

(* Without its corpus section 10 is skipped, which only the log says.        *)
NoCorpus ==
  /\ ~skips.ppl /\ Ran(10, "absent")
  /\ section' = 11
  /\ UNCHANGED <<user, support, pc, raised, events, monitor, stopping, csv,
                 findings, complete, summary, files, status>>

(* Each comparison needs the q8_0 baseline and a result of its own.          *)
MeasurePpl ==
  \E compared \in SUBSET {"plain", "mode2"}, plain, mode2 \in PplDeltas :
    LET first == IF "plain" \in compared THEN CheckPpl(detector, plain, FALSE)
                                         ELSE detector IN
    /\ ~skips.ppl /\ Ran(10, "ran")
    /\ detector' = IF "mode2" \in compared THEN CheckPpl(first, mode2, TRUE) ELSE first
    /\ quality' = (IF "plain" \in compared THEN {plain} ELSE {})
                    \cup (IF "mode2" \in compared THEN {mode2} ELSE {})
    /\ section' = 11
    /\ UNCHANGED <<user, support, pc, raised, events, monitor, stopping, csv,
                   curves, complete, summary, files, status>>

SkipSection(n) ==
  /\ n \in Skips(skips.stress, skips.ppl)
  /\ Ran(n, "skipped")
  /\ section' = n + 1
  /\ UNCHANGED <<user, support, pc, raised, events, monitor, stopping, csv,
                 findings, complete, summary, files, status>>

Summarize ==
  /\ Ran(13, "ran")
  /\ complete' = "true"
  /\ summary' = IF Clean(detector) THEN "clean" ELSE "flagged"
  /\ section' = 14 /\ pc' = "finally"
  /\ UNCHANGED <<user, support, raised, events, monitor, stopping, csv, findings,
                 files, status>>

Inventory       == Report(1)
LoadBefore      == Report(2)
ModelInfo       == Report(3)
BuildValidation == Report(5)
Prefill         == Report(6)
Combined        == Report(9)
Memory          == Report(11)
LoadAfter       == Report(12)

Reports  == Inventory \/ LoadBefore \/ ModelInfo \/ BuildValidation \/ Prefill
              \/ Combined \/ NoCorpus \/ Memory \/ LoadAfter
Skip     == SkipSection(8) \/ SkipSection(10)
Sections == Reports \/ Skip \/ ProbeBackend \/ MeasureDecode \/ MeasureStress
              \/ MeasurePpl \/ Summarize

-----------------------------------------------------------------------------
(* The except clauses, the finally clause and the package.                  *)

(* The two deliberate stops are logged with COMPLETE=false, any other       *)
(* exception only with its traceback.                                       *)
Except ==
  /\ pc = "except" /\ ~broken
  /\ complete' = IF raised \in {"probe", "backend"} THEN "false" ELSE complete
  /\ pc' = "finally"
  /\ UNCHANGED <<user, support, stage, events, monitor, stopping, csv, findings,
                 trace, summary, files, status>>

(* display.stop and the first half of monitor.stop.                         *)
Finally_Early ==                      \* mistake: the monitor is joined before the stop
  /\ pc = "finally" /\ mon = "gone"
  /\ stopping' = TRUE /\ pc' = "join"
  /\ UNCHANGED <<user, support, stage, events, monitor, csv, findings, verdicts,
                 files, status>>

Finally ==
  /\ pc = "finally"
  /\ stopping' = TRUE /\ pc' = "join"
  /\ UNCHANGED <<user, support, stage, events, monitor, csv, findings, verdicts,
                 files, status>>

(* Thread.join(timeout=5): the thread has ended, or the time is over.       *)
Join ==
  /\ pc = "join"
  /\ CASE raised = "exit" -> Exit(130)
       [] raised = "log"  -> Exit(1)
       [] OTHER -> pc' = "summary" /\ UNCHANGED status
  /\ UNCHANGED <<user, support, stage, events, monitor, stopping, csv, findings,
                 verdicts, files>>

MonitorSummary ==
  /\ pc = "summary" /\ ~broken
  /\ pc' = "profile"
  /\ UNCHANGED <<user, support, stage, events, monitor, stopping, csv, findings,
                 verdicts, files, status>>

(* package_results logs first; a profile that cannot be written is a        *)
(* warning.                                                                 *)
WriteProfile ==
  /\ pc = "profile" /\ ~broken
  /\ \/ profile' = "written" /\ UNCHANGED faults
     \/ faults < MaxFaults /\ faults' = faults + 1 /\ profile' = "torn"
  /\ pc' = "relog"
  /\ UNCHANGED <<user, support, stage, broken, signals, monitor, stopping, csv,
                 findings, verdicts, logLost, seen, zip, status>>

(* Scrubbing reads each file, truncates it and writes it back; a failure is  *)
(* passed over.  The log is the first: what it said is lost with it.        *)
ScrubLog ==
  /\ pc = "relog" /\ pc' = "reprofile"
  /\ \/ UNCHANGED <<faults, complete, logLost>>
     \/ /\ faults < MaxFaults /\ faults' = faults + 1
        /\ complete' \in {complete, "none"} /\ logLost' = TRUE
  /\ UNCHANGED <<user, support, stage, broken, signals, monitor, stopping, csv, findings,
                 trace, summary, profile, seen, zip, status>>

ScrubProfile ==
  /\ pc = "reprofile" /\ pc' = "scrub"
  /\ \/ UNCHANGED <<faults, profile>>
     \/ faults < MaxFaults /\ faults' = faults + 1 /\ profile' = "torn"
  /\ UNCHANGED <<user, support, stage, broken, signals, monitor, stopping, csv, findings,
                 verdicts, logLost, seen, zip, status>>

(* The monitor file is the last, and the monitor may still append to it.     *)
ScrubRead ==
  /\ pc = "scrub"
  /\ seen' = csv.rows /\ pc' = "rescrub"
  /\ UNCHANGED <<user, support, stage, events, monitor, stopping, csv, findings,
                 verdicts, profile, logLost, zip, status>>

ScrubWrite ==
  /\ pc = "rescrub"
  /\ \/ csv' = [csv EXCEPT !.rows = seen] /\ UNCHANGED faults
     \/ /\ faults < MaxFaults /\ faults' = faults + 1
        /\ csv' = [csv EXCEPT !.rows = {}]
  /\ pc' = "zip"
  /\ UNCHANGED <<user, support, stage, broken, signals, monitor, stopping,
                 findings, verdicts, files, status>>

Ending == CASE raised = "backend" -> 2 [] raised = "none" -> 0 [] OTHER -> 1

(* Without a package the raw artifacts stay, and the failure is logged.     *)
MakeZip_Careless ==                   \* mistake: cleans up although the zip failed
  /\ pc = "zip" /\ pc' = "cleanup"
  /\ \/ zip' = [state |-> "made", rows |-> csv.rows] /\ UNCHANGED faults
     \/ /\ faults < MaxFaults /\ faults' = faults + 1
        /\ zip' = [state |-> "torn", rows |-> {}]
  /\ UNCHANGED <<user, support, stage, broken, signals, monitor, stopping, csv,
                 findings, verdicts, profile, logLost, seen, status>>

MakeZip ==
  /\ pc = "zip"
  /\ \/ /\ zip' = [state |-> "made", rows |-> csv.rows]
        /\ pc' = "cleanup"
        /\ UNCHANGED <<faults, status>>
     \/ /\ faults < MaxFaults /\ faults' = faults + 1
        /\ zip' = [state |-> "torn", rows |-> {}]
        /\ Exit(IF broken THEN 1 ELSE Ending)
  /\ UNCHANGED <<user, support, stage, broken, signals, monitor, stopping, csv,
                 findings, verdicts, profile, logLost, seen>>

(* The profile and the monitor file are removed, the second only after the  *)
(* first.                                                                   *)
Cleanup ==
  /\ pc = "cleanup" /\ ~broken
  /\ \/ /\ profile' = "none" /\ csv' = NoFile
        /\ UNCHANGED faults
     \/ /\ faults < MaxFaults /\ faults' = faults + 1
        /\ profile' \in {profile, "none"} /\ UNCHANGED csv
  /\ Exit(Ending)
  /\ UNCHANGED <<user, support, stage, broken, signals, monitor, stopping,
                 findings, verdicts, logLost, seen, zip>>

-----------------------------------------------------------------------------
(* Failures.                                                                *)

(* Section 13 may fail after it has logged COMPLETE=true.                   *)
LoggedByNow == {complete} \cup (IF section = 13 THEN {"true"} ELSE {})

SectionRaises ==
  /\ pc = "sections" /\ ~broken /\ faults < MaxFaults
  /\ faults' = faults + 1
  /\ raised' = "error" /\ pc' = "except"
  /\ complete' \in LoggedByNow
  /\ UNCHANGED <<user, support, section, broken, signals, monitor, stopping,
                 csv, findings, trace, summary, files, status>>

LogBreaks ==
  /\ pc \in Logging \cup Quiet /\ ~broken /\ faults < MaxFaults
  /\ faults' = faults + 1 /\ broken' = TRUE
  /\ UNCHANGED <<user, support, pc, stage, signals, monitor, stopping, csv,
                 findings, verdicts, files, status>>

(* A write that fails raises: inside the try statement into its except      *)
(* clause, inside an except clause into the finally clause, and elsewhere   *)
(* out of the program.  The cleanup has removed its files before it logs.   *)
LogFails ==
  /\ pc \in Logging /\ broken
  /\ CASE pc = "sections" -> /\ raised' = "error" /\ pc' = "except"
                             /\ complete' \in LoggedByNow /\ UNCHANGED status
       [] pc = "except"   -> /\ raised' = "log" /\ pc' = "finally"
                             /\ UNCHANGED <<complete, status>>
       [] OTHER           -> Exit(1) /\ UNCHANGED <<raised, complete>>
  /\ IF pc = "cleanup" THEN profile' = "none" /\ csv' = NoFile
                       ELSE UNCHANGED <<profile, csv>>
  /\ UNCHANGED <<user, support, section, events, monitor, stopping, findings,
                 trace, summary, logLost, seen, zip>>

-----------------------------------------------------------------------------
(* Ctrl+C.  The handler runs in the main thread, between two of its         *)
(* instructions: it logs, stops the monitor and the display, and exits.     *)

(* What the interrupted stage may have done to its file.                    *)
LeaveFiles ==
  CASE pc = "profile" -> profile' \in {"none", "torn"} /\ UNCHANGED <<csv, zip>>
    [] pc = "reprofile" -> profile' \in {profile, "torn"} /\ UNCHANGED <<csv, zip>>
    [] pc = "rescrub" -> /\ csv' \in {csv, [csv EXCEPT !.rows = {}]}
                         /\ UNCHANGED <<profile, zip>>
    [] pc = "zip"     -> /\ zip' \in {zip, [state |-> "torn", rows |-> {}]}
                         /\ UNCHANGED <<profile, csv>>
    [] pc = "cleanup" -> /\ \/ UNCHANGED <<profile, csv>>
                            \/ profile' = "none" /\ csv' \in {csv, NoFile}
                         /\ UNCHANGED zip
    [] OTHER          -> UNCHANGED <<profile, csv, zip>>

LeaveLog ==
  \/ UNCHANGED <<complete, logLost>>
  \/ pc = "relog" /\ complete' = "none" /\ logLost' = TRUE

InTry == pc \in {"sections", "except"}

(* The handler's own write needs the lock the interrupted write holds, in   *)
(* the same thread: it waits forever.                                       *)
InterruptWrite ==
  /\ pc \in Logging /\ signals < MaxSignals
  /\ signals' = signals + 1 /\ pc' = "hung"
  /\ UNCHANGED <<user, support, stage, broken, faults, monitor, stopping, csv,
                 findings, verdicts, files, status>>

(* A monitor that was never started cannot be joined: the RuntimeError ends *)
(* the program.                                                             *)
Interrupt ==
  /\ pc \in Logging \cup Quiet /\ signals < MaxSignals
  /\ signals' = signals + 1
  /\ stopping' = TRUE
  /\ CASE mon = "new" -> Exit(1) /\ UNCHANGED raised
       [] mon # "new" /\ InTry -> raised' = "exit" /\ pc' = "leaving" /\ UNCHANGED status
       [] OTHER -> raised' = "exit" /\ pc' = "join" /\ UNCHANGED status
  /\ LeaveFiles /\ LeaveLog
  /\ UNCHANGED <<user, support, section, broken, faults, monitor, findings,
                 trace, summary, seen>>

(* The handler's join, and then SystemExit through the finally clause.      *)
Leave ==
  /\ pc = "leaving"
  /\ pc' = "finally"
  /\ UNCHANGED <<user, support, stage, events, monitor, stopping, csv, findings,
                 verdicts, files, status>>

-----------------------------------------------------------------------------
(* The monitor thread, a daemon: it dies with the program.                  *)

Live == pc # "ended" \* the process

MonitorCheck ==
  /\ Live /\ mon \in {"check", "wait"}
  /\ mon' = IF mon = "check" THEN (IF stopping THEN "gone" ELSE "poll") ELSE "check"
  /\ UNCHANGED <<user, support, pc, stage, events, latest, counted, stopping,
                 csv, findings, verdicts, files, status>>

(* A sample is counted before its row is written.                           *)
MonitorPoll ==
  /\ Live /\ mon = "poll"
  /\ \/ /\ counted < MaxRows /\ counted' = counted + 1
        /\ latest' \in Samples /\ mon' = "row"
        /\ UNCHANGED faults
     \/ /\ faults < MaxFaults /\ faults' = faults + 1
        /\ latest' = "error" /\ mon' = "wait"
        /\ UNCHANGED counted
     \/ /\ counted = MaxRows      \* later samples are not followed
        /\ mon' = "wait"
        /\ UNCHANGED <<latest, counted, faults>>
  /\ UNCHANGED <<user, support, pc, stage, broken, signals, stopping, csv,
                 findings, verdicts, files, status>>

(* The row is appended to the file, which the open makes anew if it is gone. *)
MonitorRow ==
  /\ Live /\ mon = "row"
  /\ \/ /\ csv' = [exists |-> TRUE, rows |-> csv.rows \cup {counted}]
        /\ UNCHANGED <<faults, latest>>
     \/ /\ faults < MaxFaults /\ faults' = faults + 1
        /\ latest' = "error" /\ UNCHANGED csv
  /\ mon' = "wait"
  /\ UNCHANGED <<user, support, pc, stage, broken, signals, counted, stopping,
                 findings, verdicts, files, status>>

Monitor == MonitorCheck \/ MonitorPoll \/ MonitorRow

Main == Refuse \/ Setup \/ Banner \/ StartMonitor \/ StartDisplay \/ Sections
          \/ Except \/ Finally \/ Join \/ MonitorSummary \/ WriteProfile
          \/ ScrubLog \/ ScrubProfile \/ ScrubRead \/ ScrubWrite \/ MakeZip \/ Cleanup \/ LogFails \/ Leave

Finished == pc \in {"ended", "hung"} /\ UNCHANGED vars

Next == Main \/ SectionRaises \/ LogBreaks \/ InterruptWrite \/ Interrupt \/ Monitor
          \/ Finished

(* The main thread is scheduled and every command it waits for has a        *)
(* timeout.  Nothing is promised of the monitor or of the user.             *)
Spec == Init /\ [][Next]_vars /\ WF_vars(Main)

-----------------------------------------------------------------------------
TypeOK ==
  /\ host \in RunHosts /\ skips \in [stress : BOOLEAN, ppl : BOOLEAN]
  /\ support \in Supports
  /\ pc \in Points /\ section \in 1..14
  /\ raised \in {"none", "probe", "backend", "error", "log", "exit"}
  /\ broken \in BOOLEAN /\ faults \in 0..MaxFaults /\ signals \in 0..MaxSignals
  /\ mon \in {"new", "check", "poll", "row", "wait", "gone"}
  /\ latest \in Samples \cup {"none", "error"} /\ counted \in 0..MaxRows
  /\ stopping \in BOOLEAN
  /\ csv \in [exists : BOOLEAN, rows : SUBSET (1..MaxRows)]
  /\ quality \subseteq PplDeltas
  /\ trace \in [AllSections -> {"none", "ran", "skipped", "absent"}]
  /\ logLost \in BOOLEAN
  /\ complete \in {"none", "true", "false"}
  /\ summary \in {"none", "clean", "flagged"}
  /\ profile \in {"none", "torn", "written"} /\ seen \subseteq 1..MaxRows
  /\ zip \in [state : {"none", "torn", "made"}, rows : SUBSET (1..MaxRows)]
  /\ status \in {Running, 0, 1, 2, 130}

(* No benchmark section runs unless the probe of section 4 has found a       *)
(* backend the host may use, and none of them is skipped or run behind a     *)
(* profile that calls it unavailable.                                        *)
StopsBeforeBenchmarks ==
  \A n \in Benchmarks : trace[n] # "none" =>
    /\ support.probe = "successful"
    /\ support.backend \in SupportedBackends(host) \cup DegradedBackends(host)
    /\ support.sections[n] # "unavailable"

(* The exit status tells what the log and the contract say: 0 after a        *)
(* diagnostic only if every section is accounted for and COMPLETE=true was   *)
(* logged, and is in the log unless scrubbing has lost it; 2 only for a host *)
(* or backend without support; and never 0 after COMPLETE=false, an          *)
(* exception or Ctrl+C.                                                      *)
ExitAgrees ==
  /\ status = 0 /\ mon # "new" =>
       /\ complete = "true" \/ (logLost /\ complete = "none")
       /\ raised = "none" /\ signals = 0
       /\ \A n \in AllSections : trace[n] # "none"
  /\ status = 2 => support.status = "unsupported" /\ complete # "true"

(* A log that says COMPLETE=true has every section in it, and skips those    *)
(* that the profile calls skipped and no other, but for section 10 without   *)
(* its corpus: the log skips it, the profile still calls it supported.       *)
SectionsAccounted ==
  complete = "true" =>
    \A n \in AllSections \ {13} :
      IF support.sections[n] = "skipped"
        THEN trace[n] = "skipped"
        ELSE trace[n] = "ran" \/ (n = 10 /\ trace[n] = "absent")

(* What ran, what was skipped and how it ended is what the log, the profile  *)
(* and the exit status say.                                                  *)
StatusAgrees == StopsBeforeBenchmarks /\ ExitAgrees /\ SectionsAccounted

(* Results are called clean only if no measured ratio is above 1.05 or below *)
(* 0.50 at a depth, none falls by more than 15% from the depth measured      *)
(* before it, and no perplexity is 10% worse or 1% better than the baseline. *)
CleanCurve(curve) ==
  \A i \in DOMAIN curve :
    /\ ~Faster(curve[i].ratio)
    /\ curve[i].depth > 0 => curve[i].ratio >= 50
    /\ i > 1 => ~Steep(curve[i - 1].ratio, curve[i].ratio)

CleanSummary ==
  summary = "clean" =>
    /\ \A i \in DOMAIN curves : CleanCurve(curves[i])
    /\ \A delta \in quality : delta \in -10..100

(* The row of a sample that scrubbing has read is not lost by what follows:  *)
(* it is in the package or still in the raw file, unless rewriting the raw   *)
(* file fails or is interrupted; until then no row is lost at all.  A row    *)
(* the monitor appends between that read and the rewriting is overwritten,   *)
(* and one it appends behind the package is removed with the raw file.       *)
Begun == pc \in {"rescrub", "zip", "cleanup"}
Kept  == csv.rows \cup zip.rows

NoRowLost ==
  [][\/ (IF Begun THEN Kept \cap seen ELSE Kept) \subseteq Kept'
     \/ pc = "rescrub" /\ (faults' > faults \/ signals' > signals)]_vars

(* The diagnostic ends, whatever the monitor thread does, unless Ctrl+C has  *)
(* interrupted a write of the log.                                           *)
Ends == <>(pc \in {"ended", "hung"})
==============================================================================
