------------------------- MODULE DiagnosticRunProofs -------------------------
(* What the diagnostic reports and what it keeps, for any hosts, probes,     *)
(* depths and measurements and any number of samples, failures and presses   *)
(* of Ctrl+C.                                                                *)
EXTENDS DiagnosticRun, SequenceTheorems, WellFoundedInduction, TLAPS

(* The frame of every action: the variables written out.                     *)
USE DEF user, stage, events, monitor, findings, verdicts, files

-----------------------------------------------------------------------------
(* The support contract.                                                     *)

Skipped == Skips(skips.stress, skips.ppl)

LEMMA HostFacts ==
  ASSUME NEW h \in Hosts
  PROVE  /\ HostStatus(h) \in {"supported", "degraded", "unsupported"}
         /\ \A n \in AllSections : HostSection(h, n) \in States
         /\ HostStatus(h) # "unsupported" =>
              \A n \in AllSections : HostSection(h, n) \notin {"unavailable", "skipped"}
<1>1. HostStatus(h) \in {"supported", "degraded", "unsupported"}
  BY DEF HostStatus
<1>2. ASSUME NEW n \in AllSections
      PROVE  /\ HostSection(h, n) \in {"supported", "degraded", "unavailable"}
             /\ HostStatus(h) # "unsupported" => HostSection(h, n) # "unavailable"
  BY DEF HostSection
<1> QED
  BY <1>1, <1>2 DEF States

LEMMA HostSupportType ==
  ASSUME NEW h \in Hosts
  PROVE  HostSupport(h) \in Supports
BY HostFacts DEF HostSupport, Supports

(* The first marker of a probe that did not fail is a backend.               *)
LEMMA BackendType ==
  ASSUME NEW failed \in BOOLEAN, NEW markers \in SUBSET Backends
  PROVE  RuntimeBackend(failed, markers) \in Backends \cup {"unknown"}
<1> DEFINE found == {i \in 1 .. 5 : MarkerOrder[i] \in markers}
<1>1. CASE failed \/ found = {}
  BY <1>1 DEF RuntimeBackend
<1>2. CASE ~failed /\ found # {}
  <2>1. \E i \in found : \A j \in found : i <= j
    BY <1>2
  <2>2. (CHOOSE i \in found : \A j \in found : i <= j) \in found
    BY <2>1
  <2> QED
    BY <1>2, <2>2 DEF RuntimeBackend
<1> QED
  BY <1>1, <1>2

LEMMA ProbeFacts ==
  ASSUME NEW failed \in BOOLEAN, NEW markers
  PROVE  ProbeStatus(failed, markers) \in {"successful", "failed", "inconclusive"}
BY DEF ProbeStatus

(* What lets the diagnostic go on behind section 4.                          *)
LEMMA AssessedFacts ==
  ASSUME NEW h \in Hosts, NEW s \in Supports, NEW failed \in BOOLEAN,
         NEW markers \in SUBSET Backends
  PROVE  LET v == Assessed(h, s, failed, markers) IN
         /\ v \in Supports
         /\ v.status \notin {"inconclusive", "unsupported"} =>
              /\ v.probe = "successful"
              /\ v.backend \in SupportedBackends(h) \cup DegradedBackends(h)
              /\ v.sections = s.sections
<1> DEFINE backend == RuntimeBackend(failed, markers)
           probe   == ProbeStatus(failed, markers)
           answer  == AssessedStatus(h, s.status, probe, backend)
           v       == Assessed(h, s, failed, markers)
           shown   == [n \in AllSections |->
                         IF answer \in {"inconclusive", "unsupported"} /\ n \in Benchmarks
                           THEN "unavailable" ELSE s.sections[n]]
<1>1. v = [status |-> answer, probe |-> probe, backend |-> backend, sections |-> shown]
  BY DEF Assessed
<1>2. backend \in Backends \cup {"unknown"}
  BY BackendType
<1>3. probe \in {"successful", "failed", "inconclusive"}
  BY ProbeFacts
<1>4. s.status \in {"supported", "degraded", "unsupported", "inconclusive"}
        /\ s.sections \in [AllSections -> States]
  BY DEF Supports
<1>5. /\ answer \in {"supported", "degraded", "unsupported", "inconclusive"}
      /\ answer \notin {"inconclusive", "unsupported"} =>
           /\ probe = "successful"
           /\ backend \in SupportedBackends(h) \cup DegradedBackends(h)
  <2> HIDE DEF probe, backend
  <2> QED
    BY <1>4 DEF AssessedStatus
<1> HIDE DEF answer, probe, backend
<1>6. shown \in [AllSections -> States]
  BY <1>4 DEF States
<1>7. answer \notin {"inconclusive", "unsupported"} => shown = s.sections
  BY <1>4
<1> HIDE DEF shown, v
<1> QED
  BY <1>1, <1>2, <1>3, <1>5, <1>6, <1>7 DEF Supports, v

-----------------------------------------------------------------------------
(* What the steps of the main thread and of Ctrl+C amount to.                *)

LEMMA JoinSteps ==
  ASSUME Join
  PROVE  \/ raised = "exit" /\ pc' = "ended" /\ status' = 130
         \/ raised = "log" /\ pc' = "ended" /\ status' = 1
         \/ raised \notin {"exit", "log"} /\ pc' = "summary" /\ status' = status
BY DEF Join, Exit

LEMMA ProbeSteps ==
  ASSUME NEW probe \in Probes, 
         LET verdict == Assessed(host, support, probe.failed, probe.markers) IN
           CASE verdict.status = "inconclusive" ->
                  raised' = "probe" /\ pc' = "except" /\ UNCHANGED section
             [] verdict.status = "unsupported" ->
                  raised' = "backend" /\ pc' = "except" /\ UNCHANGED section
             [] OTHER -> section' = 5 /\ UNCHANGED <<pc, raised>>
  PROVE  LET verdict == Assessed(host, support, probe.failed, probe.markers) IN
         \/ /\ verdict.status = "inconclusive"
            /\ raised' = "probe" /\ pc' = "except" /\ section' = section
         \/ /\ verdict.status = "unsupported"
            /\ raised' = "backend" /\ pc' = "except" /\ section' = section
         \/ /\ verdict.status \notin {"inconclusive", "unsupported"}
            /\ section' = 5 /\ pc' = pc /\ raised' = raised
OBVIOUS

(* What the trace may say of a section that is over.                         *)
Fitting(n, how) == IF n \in Skipped THEN how = "skipped"
                                    ELSE how = "ran" \/ (n = 10 /\ how = "absent")
Noted == \E how : Fitting(section, how) /\ trace' = [trace EXCEPT ![section] = how]

(* A section is run or skipped, as the user asks, and the next one follows,  *)
(* except where the probe stops the diagnostic and behind section 13.        *)
LEMMA SectionSteps ==
  ASSUME Sections
  PROVE  /\ pc = "sections" /\ section \in AllSections
         /\ Noted
         /\ UNCHANGED <<user, events, monitor, stopping, csv, files, status>>
         /\ \/ /\ section \notin {4, 13} /\ section' = section + 1
               /\ UNCHANGED <<support, pc, raised, complete>>
            \/ /\ section = 4 /\ complete' = complete
               /\ \E probe \in Probes :
                    LET verdict == Assessed(host, support, probe.failed, probe.markers) IN
                    /\ support' = verdict
                    /\ \/ /\ verdict.status = "inconclusive"
                          /\ raised' = "probe" /\ pc' = "except" /\ section' = section
                       \/ /\ verdict.status = "unsupported"
                          /\ raised' = "backend" /\ pc' = "except" /\ section' = section
                       \/ /\ verdict.status \notin {"inconclusive", "unsupported"}
                          /\ section' = 5 /\ pc' = pc /\ raised' = raised
            \/ /\ section = 13 /\ complete' = "true" /\ section' = 14 /\ pc' = "finally"
               /\ UNCHANGED <<support, raised>>
<1> USE DEF AllSections, Skipped, Skips
<1> DEFINE Over(n) == pc = "sections" /\ section = n /\ Noted
<1>1. ASSUME NEW n, NEW how, Ran(n, how), Fitting(n, how)
      PROVE  Over(n)
  <2>1. Fitting(section, how) /\ trace' = [trace EXCEPT ![section] = how]
    BY <1>1, Zenon DEF Ran
  <2>2. Noted
    BY <2>1, Zenon DEF Noted
  <2> QED
    BY <1>1, <2>2 DEF Ran
<1>2. ASSUME NEW n \in {1, 2, 3, 5, 6, 9, 11, 12}, Report(n)
      PROVE  /\ Over(n) /\ section' = n + 1
             /\ UNCHANGED <<user, support, pc, raised, events, monitor, stopping, csv,
                            complete, files, status>>
  <2>1. Fitting(n, "ran")
    BY DEF Fitting
  <2>2. Over(n)
    BY <1>1, <1>2, <2>1 DEF Report
  <2> HIDE DEF Over
  <2> QED
    BY <1>2, <2>2 DEF Report
<1>3. CASE Reports /\ ~NoCorpus
  <2>1. PICK n \in {1, 2, 3, 5, 6, 9, 11, 12} : Report(n)
    BY <1>3 DEF Reports, Inventory, LoadBefore, ModelInfo, BuildValidation, Prefill,
                Combined, Memory, LoadAfter
  <2> QED
    BY <1>2, <2>1
<1>4. CASE NoCorpus
  <2>1. Fitting(10, "absent") /\ Ran(10, "absent")
    BY <1>4 DEF NoCorpus, Fitting
  <2>2. Over(10)
    BY <1>1, <2>1
  <2> QED
    BY <1>4, <2>2 DEF NoCorpus
<1>10. CASE Skip
  <2>1. PICK n \in {8, 10} : SkipSection(n)
    BY <1>10 DEF Skip
  <2>2. Fitting(n, "skipped") /\ Ran(n, "skipped")
    BY <2>1 DEF SkipSection, Fitting
  <2>3. Over(n)
    BY <1>1, <2>2
  <2> QED
    BY <2>1, <2>3 DEF SkipSection
<1>5. CASE ProbeBackend
  <2>1. PICK probe \in Probes :
          LET verdict == Assessed(host, support, probe.failed, probe.markers) IN
          /\ Ran(4, "ran") /\ support' = verdict
          /\ CASE verdict.status = "inconclusive" ->
                    raised' = "probe" /\ pc' = "except" /\ UNCHANGED section
               [] verdict.status = "unsupported" ->
                    raised' = "backend" /\ pc' = "except" /\ UNCHANGED section
               [] OTHER -> section' = 5 /\ UNCHANGED <<pc, raised>>
          /\ UNCHANGED <<user, events, monitor, stopping, csv, findings, complete,
                         summary, files, status>>
    BY <1>5 DEF ProbeBackend
  <2>2. LET verdict == Assessed(host, support, probe.failed, probe.markers) IN
        \/ /\ verdict.status = "inconclusive"
           /\ raised' = "probe" /\ pc' = "except" /\ section' = section
        \/ /\ verdict.status = "unsupported"
           /\ raised' = "backend" /\ pc' = "except" /\ section' = section
        \/ /\ verdict.status \notin {"inconclusive", "unsupported"}
           /\ section' = 5 /\ pc' = pc /\ raised' = raised
    BY <2>1, ProbeSteps
  <2>3. Over(4)
    BY <1>1, <2>1 DEF Fitting
  <2> QED
    BY <2>1, <2>2, <2>3
<1>6. CASE MeasureDecode
  <2>1. Ran(7, "ran") /\ Fitting(7, "ran")
    BY <1>6 DEF MeasureDecode, Fitting
  <2>2. Over(7)
    BY <1>1, <2>1
  <2> QED
    BY <1>6, <2>2 DEF MeasureDecode
<1>7. CASE MeasureStress
  <2>1. Ran(8, "ran") /\ Fitting(8, "ran")
    BY <1>7 DEF MeasureStress, Fitting
  <2>2. Over(8)
    BY <1>1, <2>1
  <2> QED
    BY <1>7, <2>2 DEF MeasureStress
<1>8. CASE MeasurePpl
  <2>1. Ran(10, "ran") /\ Fitting(10, "ran")
    BY <1>8 DEF MeasurePpl, Fitting
  <2>2. Over(10)
    BY <1>1, <2>1
  <2> QED
    BY <1>8, <2>2 DEF MeasurePpl
<1>9. CASE Summarize
  <2>1. Over(13)
    BY <1>1, <1>9 DEF Summarize, Fitting
  <2> QED
    BY <1>9, <2>1 DEF Summarize
<1> QED
  BY <1>3, <1>4, <1>5, <1>6, <1>7, <1>8, <1>9, <1>10 DEF Sections

LEMMA LogFailsSteps ==
  ASSUME LogFails
  PROVE  /\ pc \in Logging /\ broken
         /\ \/ /\ pc = "sections" /\ raised' = "error" /\ pc' = "except"
               /\ complete' \in LoggedByNow /\ status' = status
            \/ /\ pc = "except" /\ raised' = "log" /\ pc' = "finally"
               /\ complete' = complete /\ status' = status
            \/ /\ pc \notin {"sections", "except"} /\ pc' = "ended" /\ status' = 1
               /\ raised' = raised /\ complete' = complete
         /\ IF pc = "cleanup" THEN profile' = "none" /\ csv' = NoFile
                              ELSE profile' = profile /\ csv' = csv
         /\ UNCHANGED <<user, support, section, events, monitor, stopping, findings,
                        trace, summary, logLost, seen, zip>>
BY DEF LogFails, Exit

(* Ctrl+C disturbs a file only in the stage that writes it.                  *)
LEMMA LeaveFilesSteps ==
  ASSUME LeaveFiles
  PROVE  \/ /\ pc \notin {"profile", "reprofile", "rescrub", "zip", "cleanup"}
            /\ profile' = profile /\ csv' = csv /\ zip' = zip
         \/ /\ pc \in {"profile", "reprofile"} /\ profile' \in {profile, "none", "torn"}
            /\ csv' = csv /\ zip' = zip
         \/ /\ pc = "rescrub" /\ csv' \in {csv, [csv EXCEPT !.rows = {}]}
            /\ profile' = profile /\ zip' = zip
         \/ /\ pc = "zip" /\ zip' \in {zip, [state |-> "torn", rows |-> {}]}
            /\ profile' = profile /\ csv' = csv
         \/ /\ pc = "cleanup" /\ profile' \in {profile, "none"} /\ csv' \in {csv, NoFile}
            /\ zip' = zip
BY DEF LeaveFiles

LEMMA InterruptSteps ==
  ASSUME Interrupt
  PROVE  /\ pc \in Logging \cup Quiet /\ signals' = signals + 1 /\ stopping' = TRUE
         /\ signals < MaxSignals /\ LeaveFiles
         /\ \/ mon = "new" /\ pc' = "ended" /\ status' = 1 /\ raised' = raised
            \/ /\ mon # "new" /\ raised' = "exit" /\ status' = status
               /\ pc' = IF pc \in {"sections", "except"} THEN "leaving" ELSE "join"
         /\ \/ UNCHANGED <<complete, logLost>>
            \/ pc = "relog" /\ complete' = "none" /\ logLost' = TRUE
         /\ UNCHANGED <<user, support, section, broken, faults, monitor, findings,
                        trace, summary, seen>>
BY DEF Interrupt, Exit, InTry, LeaveLog

LEMMA EndingFacts ==
  /\ Ending \in {0, 1, 2}
  /\ Ending = 0 <=> raised = "none"
  /\ Ending = 2 <=> raised = "backend"
BY DEF Ending

LEMMA Bounds == MaxRows \in Nat /\ MaxFaults \in Nat /\ MaxSignals \in Nat
BY DiagnosticAssumption

(* The files of the monitor and of the package.                              *)
Csvs == [exists : BOOLEAN, rows : SUBSET (1 .. MaxRows)]
Zips == [state : {"none", "torn", "made"}, rows : SUBSET (1 .. MaxRows)]

LEMMA FileTypes ==
  /\ NoFile \in Csvs
  /\ \A f \in Csvs, r \in SUBSET (1 .. MaxRows) : [f EXCEPT !.rows = r] \in Csvs
  /\ \A r \in SUBSET (1 .. MaxRows) : [exists |-> TRUE, rows |-> r] \in Csvs
  /\ \A r \in SUBSET (1 .. MaxRows), s \in {"none", "torn", "made"} :
       [state |-> s, rows |-> r] \in Zips
BY DEF NoFile, Csvs, Zips

Typed == TypeOK /\ (mon = "row" => counted # 0)

LEMMA HostTypes == Typed => host \in Hosts
BY DiagnosticAssumption DEF Typed, TypeOK

(* The types of what one action changes; the rest it leaves as it is.        *)
LEMMA TypeInit == Init => Typed
<1> SUFFICES ASSUME Init
             PROVE  Typed
  OBVIOUS
<1>1. support \in Supports
  BY HostSupportType, DiagnosticAssumption DEF Init
<1>2. trace \in [AllSections -> {"none", "ran", "skipped", "absent"}] /\ logLost \in BOOLEAN
  BY DEF Init
<1>3. csv \in Csvs /\ zip \in Zips
  BY FileTypes DEF Init
<1>4. host \in RunHosts /\ skips \in [stress : BOOLEAN, ppl : BOOLEAN]
  BY DEF Init
<1>5. /\ pc \in Points /\ section \in 1 .. 14
      /\ raised \in {"none", "probe", "backend", "error", "log", "exit"}
      /\ broken \in BOOLEAN /\ faults \in 0 .. MaxFaults /\ signals \in 0 .. MaxSignals
      /\ mon = "new" /\ latest = "none" /\ counted \in 0 .. MaxRows
  <2>1. faults = 0 /\ signals = 0 /\ counted = 0
    BY DEF Init
  <2>2. broken \in BOOLEAN
    BY DEF Init
  <2>3. /\ pc = "options" /\ section = 1 /\ raised = "none"
        /\ mon = "new" /\ latest = "none"
    BY DEF Init
  <2> QED
    BY <2>1, <2>2, <2>3, Bounds DEF Points
<1>6. /\ stopping \in BOOLEAN /\ quality \subseteq PplDeltas
      /\ complete = "none" /\ summary = "none" /\ profile = "none" /\ seen = {}
      /\ status = Running
  BY DEF Init
<1> QED
  BY <1>1, <1>2, <1>3, <1>4, <1>5, <1>6 DEF Typed, TypeOK, Csvs, Zips

LEMMA SectionTypes ==
  ASSUME Typed, Sections
  PROVE  Typed'
<1> USE DEF Typed, TypeOK, Points
<1>1. \A n \in 1 .. 13, how \in {"ran", "skipped", "absent"} :
        Ran(n, how) => trace' \in [AllSections -> {"none", "ran", "skipped", "absent"}]
  BY DEF Ran, AllSections
<1>2. ASSUME NEW n \in 1 .. 12, Report(n)
      PROVE  Typed'
  BY <1>1, <1>2 DEF Report
<1>3. CASE Reports
  <2>1. CASE NoCorpus
    BY <1>1, <2>1 DEF NoCorpus
  <2> QED
    BY <1>2, <1>3, <2>1 DEF Reports, Inventory, LoadBefore, ModelInfo, BuildValidation,
                            Prefill, Combined, Memory, LoadAfter
<1>4. ASSUME NEW n \in {8, 10}, SkipSection(n)
      PROVE  Typed'
  BY <1>1, <1>4 DEF SkipSection
<1>5. CASE ProbeBackend
  <2>1. section = 4 /\ UNCHANGED <<latest, quality, summary>>
    BY <1>5 DEF ProbeBackend, Ran
  <2>2. PICK probe \in Probes :
          /\ support' = Assessed(host, support, probe.failed, probe.markers)
          /\ pc' \in {pc, "except"} /\ section' \in {section, 5}
          /\ raised' \in {raised, "probe", "backend"} /\ complete' = complete
    BY <1>5, <2>1, SectionSteps DEF Sections
  <2>3. probe.failed \in BOOLEAN /\ probe.markers \in SUBSET Backends
    BY DiagnosticAssumption
  <2>4. support' \in Supports
    BY <2>2, <2>3, AssessedFacts, HostTypes
  <2> QED
    BY <1>1, <1>5, <2>1, <2>2, <2>4 DEF ProbeBackend
<1>6. CASE MeasureDecode
  BY <1>1, <1>6 DEF MeasureDecode
<1>7. CASE MeasureStress
  BY <1>1, <1>7 DEF MeasureStress
<1>8. CASE MeasurePpl
  BY <1>1, <1>8 DEF MeasurePpl
<1>9. CASE Summarize
  BY <1>1, <1>9 DEF Summarize
<1> QED
  BY <1>3, <1>4, <1>5, <1>6, <1>7, <1>8, <1>9 DEF Sections, Skip

LEMMA TypeNext ==
  ASSUME Typed, [Next]_vars
  PROVE  Typed'
<1> USE DEF Typed, TypeOK, Points, Exit, Running
<1>1. CASE Refuse
  BY <1>1 DEF Refuse
<1>2. CASE Setup
  <2>1. WithSkips(support, skips.stress, skips.ppl) \in Supports
    BY DEF WithSkips, Supports, States
  <2> QED
    BY <1>2, <2>1 DEF Setup
<1>3. CASE Banner \/ StartMonitor \/ StartDisplay \/ Finally \/ MonitorSummary \/ Leave
  <2>1. CASE StartMonitor
    BY <2>1, Bounds DEF StartMonitor
  <2>6. CASE StartDisplay
    BY <2>6, Bounds DEF StartDisplay
  <2>2. CASE Finally
    BY <2>2 DEF Finally
  <2>3. CASE Banner
    BY <2>3 DEF Banner
  <2>4. CASE MonitorSummary
    BY <2>4 DEF MonitorSummary
  <2>5. CASE Leave
    BY <2>5 DEF Leave
  <2> QED
    BY <1>3, <2>1, <2>2, <2>3, <2>4, <2>5, <2>6
<1>4. CASE Sections
  BY <1>4, SectionTypes
<1>5. CASE Except
  BY <1>5 DEF Except
<1>6. CASE Join
  BY <1>6, JoinSteps DEF Join
<1>7. CASE WriteProfile
  BY <1>7, Bounds DEF WriteProfile
<1>8. CASE ScrubRead
  BY <1>8 DEF ScrubRead
<1>9. CASE ScrubWrite
  BY <1>9, Bounds DEF ScrubWrite
<1>21. CASE ScrubLog
  <2>1. pc' = "reprofile" /\ complete' \in {complete, "none"} /\ faults' \in 0 .. MaxFaults
    BY <1>21, Bounds DEF ScrubLog
  <2>2. logLost' \in BOOLEAN
    BY <1>21, Zenon DEF ScrubLog
  <2> QED
    BY <1>21, <2>1, <2>2 DEF ScrubLog
<1>22. CASE ScrubProfile
  BY <1>22, Bounds DEF ScrubProfile
<1>10. CASE MakeZip
  BY <1>10, EndingFacts, Bounds DEF MakeZip
<1>11. CASE Cleanup
  <2>1. csv' \in Csvs
    BY <1>11, FileTypes DEF Cleanup, Csvs
  <2>2. profile' \in {profile, "none"} /\ faults' \in 0 .. MaxFaults
    BY <1>11, Bounds DEF Cleanup
  <2> QED
    BY <1>11, <2>1, <2>2, EndingFacts DEF Cleanup, Csvs
<1>12. CASE LogFails
  <2>1. csv' \in Csvs /\ profile' \in {profile, "none"}
    BY <1>12, LogFailsSteps, FileTypes DEF Csvs
  <2>2. complete' \in {"none", "true", "false"}
    BY <1>12, LogFailsSteps DEF LoggedByNow
  <2>3. /\ pc' \in Points /\ status' \in {status, 1} /\ raised' \in {raised, "error", "log"}
        /\ UNCHANGED <<user, support, section, events, monitor, stopping, findings,
                       trace, summary, logLost, seen, zip>>
    BY <1>12, LogFailsSteps
  <2> HIDE DEF Points
  <2> QED
    BY <2>1, <2>2, <2>3 DEF Csvs
<1>13. CASE SectionRaises
  BY <1>13, Bounds DEF SectionRaises, LoggedByNow
<1>14. CASE LogBreaks
  BY <1>14, Bounds DEF LogBreaks
<1>15. CASE InterruptWrite
  BY <1>15, Bounds DEF InterruptWrite
<1>16. CASE Interrupt
  <2>1. csv' \in {csv, NoFile, [csv EXCEPT !.rows = {}]}
        /\ zip' \in {zip, [state |-> "torn", rows |-> {}]}
        /\ profile' \in {profile, "none", "torn"}
    BY <1>16, InterruptSteps, LeaveFilesSteps
  <2>2. csv' \in Csvs /\ zip' \in Zips
    BY <2>1, FileTypes DEF Csvs, Zips
  <2>3. signals' \in 0 .. MaxSignals
    BY <1>16, InterruptSteps, Bounds
  <2>4. logLost' \in BOOLEAN /\ complete' \in {"none", "true", "false"}
    <3>1. \/ UNCHANGED <<complete, logLost>>
          \/ complete' = "none" /\ logLost' = TRUE
      BY <1>16, InterruptSteps
    <3> QED
      BY <3>1
  <2> QED
    BY <1>16, <2>1, <2>2, <2>3, <2>4, InterruptSteps DEF Csvs, Zips
<1>17. CASE MonitorCheck
  BY <1>17 DEF MonitorCheck
<1>18. CASE MonitorPoll
  BY <1>18, Bounds DEF MonitorPoll
<1>19. CASE MonitorRow
  <2>1. {counted} \subseteq 1 .. MaxRows
    BY <1>19, Bounds DEF MonitorRow
  <2> DEFINE rows == csv.rows \cup {counted}
  <2>2. csv' \in Csvs
    <3>1. rows \in SUBSET (1 .. MaxRows)
      BY <2>1
    <3>2. csv' = csv \/ csv' = [exists |-> TRUE, rows |-> rows]
      BY <1>19 DEF MonitorRow
    <3> HIDE DEF rows
    <3> QED
      BY <3>1, <3>2, FileTypes DEF Csvs
  <2> QED
    BY <1>19, <2>2, Bounds DEF MonitorRow, Csvs
<1>20. CASE UNCHANGED vars
  BY <1>20 DEF vars
<1> QED
  BY <1>1, <1>2, <1>3, <1>4, <1>5, <1>6, <1>7, <1>8, <1>9, <1>10, <1>11, <1>12, <1>13,
     <1>14, <1>15, <1>16, <1>17, <1>18, <1>19, <1>20, <1>21, <1>22
     DEF Next, Main, Monitor, Finished

-----------------------------------------------------------------------------
(* The rows.  The row the monitor is about to write is in no file yet, so    *)
(* it is not among those scrubbing has read; and a package is made only once, *)
(* so that nothing is lost by making it.                                     *)
Fresh ==
  /\ csv.rows \subseteq 1 .. counted /\ seen \subseteq 1 .. counted
  /\ mon = "row" => counted \notin csv.rows /\ counted \notin seen

Opening == {"options", "banner", "start"}

Packed ==
  /\ zip.rows = {} \/ pc \in {"cleanup", "ended", "hung"} \/ (pc = "join" /\ raised = "exit")
  /\ pc = "cleanup" => csv.rows \cap seen \subseteq zip.rows
  /\ pc \in Opening => mon = "new" /\ csv.rows = {}

Rows == Fresh /\ Packed

LEMMA RowsInit == Init => Rows
<1> SUFFICES ASSUME Init
             PROVE  Rows
  OBVIOUS
<1>1. csv.rows = {} /\ seen = {} /\ zip.rows = {} /\ mon = "new" /\ pc = "options"
  BY DEF Init, NoFile
<1> QED
  BY <1>1 DEF Rows, Fresh, Packed, Opening

(* Only Ctrl+C, the monitor and the stages of the package touch the rows.    *)
Untouched == UNCHANGED <<csv, seen, zip, mon, counted>>

LEMMA MainRows ==
  ASSUME Typed, Rows, Main
  PROVE  Rows' /\ ((IF Begun THEN Kept \cap seen ELSE Kept) \subseteq Kept'
                     \/ (pc = "rescrub" /\ faults' > faults))
<1> DEFINE Lost == ~((IF Begun THEN Kept \cap seen ELSE Kept) \subseteq Kept'
                       \/ (pc = "rescrub" /\ faults' > faults))
<1> USE DEF Rows, Fresh, Packed, Opening, Begun, Kept, Exit
<1> HIDE DEF Lost
<1>0. ASSUME UNCHANGED <<csv, seen, zip, counted>>, mon' # "row"  \/ mon' = mon,
             pc' # "cleanup", pc' \in Opening => pc \in Opening /\ mon' = mon,
             pc \notin {"cleanup", "ended", "hung"}, 
             ~(pc = "join" /\ raised = "exit") \/ pc' \in {"ended", "hung"}
      PROVE  Rows' /\ ~Lost
  BY <1>0 DEF Lost
<1>1. CASE Refuse
  BY <1>0, <1>1 DEF Refuse
<1>2. CASE Setup
  BY <1>2 DEF Setup, Lost
<1>3. CASE Banner
  BY <1>0, <1>3 DEF Banner
<1>4. CASE StartMonitor
  BY <1>0, <1>4 DEF StartMonitor
<1>17. CASE StartDisplay
  BY <1>0, <1>17 DEF StartDisplay
<1>18. CASE ScrubLog
  BY <1>0, <1>18 DEF ScrubLog
<1>19. CASE ScrubProfile
  BY <1>0, <1>19 DEF ScrubProfile
<1>5. CASE Sections
  <2>1. pc = "sections" /\ pc' \in {"sections", "except", "finally"}
    BY <1>5, SectionSteps
  <2>2. UNCHANGED <<csv, seen, zip, mon, counted>>
    BY <1>5, SectionSteps
  <2> QED
    BY <1>0, <2>1, <2>2
<1>6. CASE Except
  BY <1>0, <1>6 DEF Except
<1>7. CASE Finally
  BY <1>0, <1>7 DEF Finally
<1>8. CASE Join
  <2>1. UNCHANGED <<csv, seen, zip, mon, counted>> /\ pc = "join"
    BY <1>8 DEF Join
  <2> QED
    BY <1>0, <1>8, <2>1, JoinSteps
<1>9. CASE MonitorSummary
  BY <1>0, <1>9 DEF MonitorSummary
<1>10. CASE WriteProfile
  BY <1>0, <1>10 DEF WriteProfile
<1>11. CASE ScrubRead
  BY <1>11 DEF ScrubRead, Lost
<1>12. CASE ScrubWrite
  BY <1>12 DEF ScrubWrite, Lost, Typed, TypeOK
<1>13. CASE MakeZip
  BY <1>13 DEF MakeZip, Lost
<1>14. CASE Cleanup
  BY <1>14 DEF Cleanup, NoFile, Lost
<1>15. CASE LogFails
  <2>1. /\ UNCHANGED <<seen, zip, mon, counted>>
        /\ pc \in {"banner", "sections", "except", "summary", "profile", "cleanup"}
        /\ pc' \in {"except", "finally", "ended"}
    BY <1>15, LogFailsSteps DEF Logging
  <2>2. CASE pc = "cleanup"
    <3>1. csv'.rows = {}
      BY <1>15, <2>2, LogFailsSteps DEF NoFile
    <3> QED
      BY <1>15, <2>1, <2>2, <3>1, LogFailsSteps DEF Lost
  <2>3. CASE pc # "cleanup"
    <3>1. csv' = csv
      BY <1>15, <2>3, LogFailsSteps
    <3> QED
      BY <1>0, <2>1, <2>3, <3>1
  <2> QED
    BY <2>2, <2>3
<1>16. CASE Leave
  BY <1>0, <1>16 DEF Leave
<1> QED
  BY <1>1, <1>2, <1>3, <1>4, <1>5, <1>6, <1>7, <1>8, <1>9, <1>10, <1>11, <1>12, <1>13,
     <1>14, <1>15, <1>16, <1>17, <1>18, <1>19 DEF Main, Lost

LEMMA EventRows ==
  ASSUME Typed, Rows, [SectionRaises \/ LogBreaks \/ InterruptWrite \/ Interrupt \/ Monitor]_vars
  PROVE  Rows' /\ ((IF Begun THEN Kept \cap seen ELSE Kept) \subseteq Kept'
                     \/ (pc = "rescrub" /\ signals' > signals))
<1> DEFINE Lost == ~((IF Begun THEN Kept \cap seen ELSE Kept) \subseteq Kept'
                       \/ (pc = "rescrub" /\ signals' > signals))
<1> USE DEF Rows, Fresh, Packed, Opening, Begun, Kept
<1>1. CASE SectionRaises
  BY <1>1 DEF SectionRaises, Lost
<1>2. CASE LogBreaks
  BY <1>2 DEF LogBreaks, Lost
<1>3. CASE InterruptWrite
  BY <1>3 DEF InterruptWrite, Lost
<1>4. CASE Interrupt
  <2>1. /\ signals' > signals /\ UNCHANGED <<seen, mon, counted>>
        /\ pc' \in {"ended", "leaving", "join"} /\ pc \notin {"ended", "hung", "options", "leaving"}
        /\ pc' = "leaving" => pc \in {"sections", "except"}
        /\ pc' = "join" => raised' = "exit"
    BY <1>4, InterruptSteps DEF Typed, TypeOK, Logging, Quiet
  <2>2. \/ csv' = csv /\ zip' = zip
        \/ pc = "rescrub" /\ csv'.rows \in {csv.rows, {}} /\ zip' = zip
        \/ pc = "zip" /\ csv' = csv /\ zip'.rows \in {zip.rows, {}}
        \/ pc = "cleanup" /\ csv'.rows \in {csv.rows, {}} /\ zip' = zip
    BY <1>4, InterruptSteps, LeaveFilesSteps DEF NoFile, Typed, TypeOK
  <2> QED
    BY <2>1, <2>2 DEF Lost
<1>5. CASE MonitorCheck
  BY <1>5 DEF MonitorCheck, Lost
<1>6. CASE MonitorPoll
  BY <1>6 DEF MonitorPoll, Lost, Typed, TypeOK
<1>7. CASE MonitorRow
  <2>1. /\ UNCHANGED <<seen, zip, counted, pc, raised>> /\ mon' = "wait"
        /\ counted \notin seen /\ counted \in 1 .. counted
        /\ csv'.rows = csv.rows \/ csv'.rows = csv.rows \cup {counted}
        /\ pc \notin {"ended"}
    BY <1>7 DEF MonitorRow, Live, Typed, TypeOK
  <2>2. pc \notin Opening
    BY <1>7 DEF MonitorRow
  <2> QED
    BY <2>1, <2>2 DEF Lost
<1>8. CASE UNCHANGED vars
  BY <1>8 DEF vars, Lost
<1> QED
  BY <1>1, <1>2, <1>3, <1>4, <1>5, <1>6, <1>7, <1>8 DEF Monitor, Lost

(* The row of a sample that scrubbing has read stays in the package or in    *)
(* the raw file, unless rewriting the raw file fails or is interrupted; of   *)
(* the rows the monitor appends behind that read nothing is promised.        *)
THEOREM RowsAreKept == Spec => NoRowLost
<1>1. Init => Typed /\ Rows
  BY TypeInit, RowsInit
<1>2. Typed /\ Rows /\ [Next]_vars => (Typed /\ Rows)'
  BY TypeNext, MainRows, EventRows DEF Next, Finished
<1>3. Typed /\ Rows /\ [Next]_vars =>
        [\/ (IF Begun THEN Kept \cap seen ELSE Kept) \subseteq Kept'
         \/ pc = "rescrub" /\ (faults' > faults \/ signals' > signals)]_vars
  BY MainRows, EventRows DEF Next, Finished
<1> QED
  BY <1>1, <1>2, <1>3, PTL DEF Spec, NoRowLost

-----------------------------------------------------------------------------
(* The contract and the trace.  From section 1 on the contract lists as      *)
(* skipped what the user skips and as unavailable nothing, until the probe   *)
(* stops the diagnostic; behind section 4 the probe has found a backend; and *)
(* every section before the current one is in the trace.                     *)
Listed ==
  pc \in {"banner", "start", "display", "sections"} \/ section > 4 =>
    \A n \in AllSections :
      /\ support.sections[n] # "unavailable"
      /\ support.sections[n] = "skipped" <=> n \in Skipped

Probed ==
  section > 4 =>
    /\ support.probe = "successful"
    /\ support.backend \in SupportedBackends(host) \cup DegradedBackends(host)

Traced ==
  /\ \A n \in AllSections :
       n < section => Fitting(n, trace[n])
  /\ \A n \in Benchmarks : n >= section => trace[n] = "none"

Contract ==
  /\ pc = "options" => support = HostSupport(host)
  /\ pc \in Opening \cup {"display"} => section = 1
  /\ Listed /\ Probed /\ Traced

LEMMA ContractInit == Init => Contract
BY DEF Init, Contract, Listed, Probed, Traced, Opening, Benchmarks, AllSections, Fitting

LEMMA ContractNext ==
  ASSUME Typed, Contract, [Next]_vars
  PROVE  Contract'
<1> USE DEF Contract, Opening, Exit
<1>0. ASSUME UNCHANGED <<user, support, section, trace>>,
             pc' \in Opening \cup {"display"} => pc \in Opening \cup {"display"},
             pc' = "options" => pc = "options",
             pc' \in {"banner", "start", "display", "sections"} =>
               pc \in {"banner", "start", "display", "sections"}
      PROVE  Contract'
  BY <1>0 DEF Listed, Probed, Traced, Skipped, Fitting
<1>1. CASE Refuse \/ Banner \/ StartMonitor \/ StartDisplay
  BY <1>0, <1>1 DEF Refuse, Banner, StartMonitor, StartDisplay
<1>2. CASE Setup
  <2>1. /\ pc = "options" /\ HostStatus(host) # "unsupported" /\ pc' = "banner"
        /\ support' = WithSkips(support, skips.stress, skips.ppl)
        /\ UNCHANGED <<user, section, trace>> /\ support = HostSupport(host) /\ section = 1
    BY <1>2 DEF Setup
  <2>2. \A n \in AllSections :
          support'.sections[n] = IF n \in Skipped THEN "skipped" ELSE HostSection(host, n)
    BY <2>1 DEF WithSkips, HostSupport, Skipped
  <2>3. Listed'
    BY <2>1, <2>2, HostFacts, HostTypes DEF Listed, Skipped
  <2> QED
    BY <2>1, <2>3 DEF Probed, Traced, Skipped, Fitting
<1>3. CASE Sections
  <2>1. /\ pc = "sections" /\ section \in 1 .. 13 /\ UNCHANGED user
        /\ trace \in [AllSections -> {"none", "ran", "skipped", "absent"}]
    BY <1>3, SectionSteps DEF Typed, TypeOK, AllSections
  <2>2. \A n \in AllSections :
          IF n # section THEN trace'[n] = trace[n] ELSE Fitting(n, trace'[n])
    <3>1. PICK how : Fitting(section, how) /\ trace' = [trace EXCEPT ![section] = how]
      BY <1>3, SectionSteps, Zenon DEF Noted
    <3> QED
      BY <2>1, <3>1
  <2>3. ASSUME section' \in {section, section + 1}, section' = section => section = 4
        PROVE  Traced'
    <3>1. \A n \in AllSections : n < section' => Fitting(n, trace'[n])
      BY <2>1, <2>2, <2>3 DEF Traced, AllSections
    <3>2. \A n \in Benchmarks : n >= section' => trace'[n] = "none"
      BY <2>1, <2>2, <2>3 DEF Traced, AllSections, Benchmarks
    <3>3. Skipped' = Skipped
      BY <2>1 DEF Skipped
    <3> QED
      BY <3>1, <3>2, <3>3 DEF Traced, Fitting
  <2>4. CASE section # 4
    <3>1. /\ section' = section + 1 /\ support' = support
          /\ pc' \in {"sections", "finally"}
      BY <1>3, <2>1, <2>4, SectionSteps
    <3> QED
      BY <2>1, <2>3, <2>4, <3>1 DEF Listed, Probed, Skipped
  <2>5. CASE section = 4
    <3>1. PICK probe \in Probes :
            LET verdict == Assessed(host, support, probe.failed, probe.markers) IN
            /\ support' = verdict
            /\ \/ pc' = "except" /\ section' = section
               \/ /\ verdict.status \notin {"inconclusive", "unsupported"}
                  /\ section' = 5 /\ pc' = pc
      BY <1>3, <2>5, SectionSteps
    <3>2. probe.failed \in BOOLEAN /\ probe.markers \in SUBSET Backends /\ support \in Supports
      BY DiagnosticAssumption DEF Typed, TypeOK
    <3>3. CASE pc' = "except" /\ section' = section
      BY <2>1, <2>3, <2>5, <3>3 DEF Listed, Probed
    <3>4. CASE section' = 5 /\ pc' = pc /\ support'.status \notin {"inconclusive", "unsupported"}
      <4>1. /\ support'.probe = "successful" /\ support'.sections = support.sections
            /\ support'.backend \in SupportedBackends(host) \cup DegradedBackends(host)
        BY <3>1, <3>2, <3>4, AssessedFacts, HostTypes
      <4> QED
        BY <2>1, <2>3, <2>5, <3>4, <4>1 DEF Listed, Probed, Skipped
    <3> QED
      BY <3>1, <3>3, <3>4
  <2> QED
    BY <2>4, <2>5
<1>4. CASE Except \/ Finally \/ Leave
  BY <1>0, <1>4 DEF Except, Finally, Leave
<1>5. CASE Join
  <2>1. UNCHANGED <<user, support, section, trace>>
    BY <1>5 DEF Join
  <2> QED
    BY <1>0, <1>5, <2>1, JoinSteps
<1>6. CASE MonitorSummary \/ WriteProfile \/ ScrubLog \/ ScrubProfile \/ ScrubRead
             \/ ScrubWrite
  BY <1>0, <1>6 DEF MonitorSummary, WriteProfile, ScrubLog, ScrubProfile, ScrubRead,
                    ScrubWrite
<1>7. CASE MakeZip \/ Cleanup
  BY <1>0, <1>7 DEF MakeZip, Cleanup
<1>8. CASE LogFails
  BY <1>0, <1>8, LogFailsSteps
<1>9. CASE SectionRaises \/ LogBreaks \/ InterruptWrite
  BY <1>0, <1>9 DEF SectionRaises, LogBreaks, InterruptWrite
<1>10. CASE Interrupt
  BY <1>0, <1>10, InterruptSteps
<1>11. CASE Monitor
  BY <1>0, <1>11 DEF Monitor, MonitorCheck, MonitorPoll, MonitorRow
<1>12. CASE UNCHANGED vars
  BY <1>0, <1>12 DEF vars
<1> QED
  BY <1>1, <1>2, <1>3, <1>4, <1>5, <1>6, <1>7, <1>8, <1>9, <1>10, <1>11, <1>12
     DEF Next, Main, Finished

-----------------------------------------------------------------------------
(* How it ends.  What has left the try statement decides what the log says   *)
(* and how the process exits; whoever has pressed Ctrl+C leaves by it.       *)
Raised ==
  /\ raised = "backend" => section = 4 /\ support.status = "unsupported"
  /\ pc \in Opening \cup {"display", "sections"} => raised = "none" /\ section <= 13
  /\ pc \in Opening => mon = "new"
  /\ pc = "except" => raised \in {"probe", "backend", "error"}
  /\ pc = "leaving" => raised = "exit"
  /\ signals > 0 => raised = "exit" \/ pc = "hung" \/ (pc = "ended" /\ mon = "new")

InLog == complete = "true" \/ (logLost /\ complete = "none")

Completed ==
  /\ complete = "true" => section >= 13
  /\ raised = "none" /\ pc \notin Opening \cup {"display", "sections", "ended", "hung"} =>
       InLog /\ section = 14

Exited ==
  /\ pc # "ended" => status = Running
  /\ status = 0 /\ mon # "new" => raised = "none" /\ InLog /\ section = 14
  /\ status = 2 => support.status = "unsupported" /\ section <= 4

Outcome == Raised /\ Completed /\ Exited

LEMMA OutcomeInit == Init => Outcome
BY DEF Init, Outcome, Raised, Completed, Exited, InLog, Opening, Running

LEMMA OutcomeNext ==
  ASSUME Typed, Contract, Outcome, [Next]_vars
  PROVE  Outcome'
<1> USE DEF Outcome, Raised, Completed, Exited, InLog, Opening, Exit, Running
<1>0. section \in 1 .. 14 /\ signals \in Nat
  BY Bounds DEF Typed, TypeOK
<1>1. CASE Refuse
  BY <1>1 DEF Refuse, Contract, HostSupport
<1>2. CASE Setup
  BY <1>2 DEF Setup, Contract
<1>3. CASE Banner
  BY <1>3 DEF Banner
<1>4. CASE StartMonitor
  BY <1>4 DEF StartMonitor
<1>25. CASE StartDisplay
  BY <1>25 DEF StartDisplay, Contract
<1>26. CASE ScrubLog
  BY <1>26 DEF ScrubLog
<1>27. CASE ScrubProfile
  BY <1>27 DEF ScrubProfile
<1>5. CASE Sections
  <2>1. /\ pc = "sections" /\ UNCHANGED <<mon, signals, status, logLost>>
    BY <1>5, SectionSteps
  <2>2. CASE section \notin {4, 13}
    <3>1. section' = section + 1 /\ UNCHANGED <<support, pc, raised, complete>>
      BY <1>5, <2>2, SectionSteps
    <3> QED
      BY <1>0, <2>1, <2>2, <3>1
  <2>3. CASE section = 4
    <3>1. /\ complete' = complete
          /\ \/ raised' = "probe" /\ pc' = "except" /\ section' = section
             \/ /\ support'.status = "unsupported"
                /\ raised' = "backend" /\ pc' = "except" /\ section' = section
             \/ section' = 5 /\ pc' = pc /\ raised' = raised
      BY <1>5, <2>3, SectionSteps
    <3> QED
      BY <1>0, <2>1, <2>3, <3>1
  <2>4. CASE section = 13
    <3>1. complete' = "true" /\ section' = 14 /\ pc' = "finally" /\ UNCHANGED <<support, raised>>
      BY <1>5, <2>4, SectionSteps
    <3> QED
      BY <1>0, <2>1, <2>4, <3>1
  <2> QED
    BY <2>2, <2>3, <2>4
<1>6. CASE Except
  BY <1>0, <1>6 DEF Except
<1>7. CASE Finally
  BY <1>7 DEF Finally
<1>8. CASE Join
  <2>1. pc = "join" /\ UNCHANGED <<support, section, raised, mon, complete, logLost, signals>>
    BY <1>8 DEF Join
  <2> QED
    BY <1>8, <2>1, JoinSteps
<1>9. CASE MonitorSummary
  BY <1>9 DEF MonitorSummary
<1>10. CASE WriteProfile
  BY <1>10 DEF WriteProfile
<1>11. CASE ScrubRead
  BY <1>11 DEF ScrubRead
<1>12. CASE ScrubWrite
  BY <1>12 DEF ScrubWrite
<1>13. CASE MakeZip
  BY <1>13, EndingFacts DEF MakeZip
<1>14. CASE Cleanup
  BY <1>14, EndingFacts DEF Cleanup
<1>15. CASE LogFails
  BY <1>0, <1>15, LogFailsSteps DEF LoggedByNow, Logging
<1>16. CASE SectionRaises
  BY <1>0, <1>16 DEF SectionRaises, LoggedByNow
<1>17. CASE LogBreaks
  BY <1>17 DEF LogBreaks, Logging, Quiet
<1>18. CASE InterruptWrite
  BY <1>18 DEF InterruptWrite, Logging
<1>19. CASE Interrupt
  <2>1. /\ signals' = signals + 1 /\ UNCHANGED <<support, section, mon>>
        /\ \/ mon = "new" /\ pc' = "ended" /\ status' = 1 /\ raised' = raised
           \/ /\ mon # "new" /\ raised' = "exit" /\ status' = status
              /\ pc' \in {"leaving", "join"}
        /\ (complete' = complete /\ logLost' = logLost) \/ complete' = "none"
        /\ pc \notin {"ended", "hung", "leaving"}
    BY <1>19, InterruptSteps DEF Logging, Quiet
  <2> QED
    BY <1>0, <2>1
<1>20. CASE Leave
  BY <1>20 DEF Leave
<1>21. CASE MonitorCheck
  BY <1>21 DEF MonitorCheck, Live
<1>22. CASE MonitorPoll
  BY <1>22 DEF MonitorPoll, Live
<1>23. CASE MonitorRow
  BY <1>23 DEF MonitorRow, Live
<1>24. CASE UNCHANGED vars
  BY <1>24 DEF vars
<1> QED
  BY <1>1, <1>2, <1>3, <1>4, <1>5, <1>6, <1>7, <1>8, <1>9, <1>10, <1>11, <1>12, <1>13,
     <1>14, <1>15, <1>16, <1>17, <1>18, <1>19, <1>20, <1>21, <1>22, <1>23, <1>24, <1>25,
     <1>26, <1>27
     DEF Next, Main, Monitor, Finished

LEMMA StatusFollows ==
  ASSUME Typed, Contract, Outcome
  PROVE  StatusAgrees
<1> USE DEF Typed, TypeOK, Contract, Outcome, Listed, Traced, AllSections, Benchmarks,
            Fitting
<1>1. StopsBeforeBenchmarks
  BY DEF StopsBeforeBenchmarks, Probed
<1>2. ExitAgrees
  <2>1. CASE status = 0 /\ mon # "new"
    <3>1. raised = "none" /\ InLog /\ section = 14 /\ pc = "ended"
      BY <2>1 DEF Exited, Running
    <3>2. signals = 0
      BY <2>1, <3>1, Bounds DEF Raised
    <3> QED
      BY <2>1, <3>1, <3>2 DEF ExitAgrees, InLog
  <2>2. status = 2 => support.status = "unsupported" /\ complete # "true"
    BY DEF Exited, Completed
  <2> QED
    BY <2>1, <2>2 DEF ExitAgrees
<1>3. SectionsAccounted
  BY DEF SectionsAccounted, Completed
<1> QED
  BY <1>1, <1>2, <1>3 DEF StatusAgrees

(* No benchmark runs without a backend the host may use; the exit status is  *)
(* what the log says, or has said before scrubbing lost it; and a complete   *)
(* log accounts for every section, section 10 being the one it may skip      *)
(* although the profile calls it supported.                                  *)
THEOREM StatusIsTrue == Spec => []StatusAgrees
<1>1. Init => Typed /\ Contract /\ Outcome
  BY TypeInit, ContractInit, OutcomeInit
<1>2. Typed /\ Contract /\ Outcome /\ [Next]_vars => (Typed /\ Contract /\ Outcome)'
  BY TypeNext, ContractNext, OutcomeNext
<1>3. Typed /\ Contract /\ Outcome => StatusAgrees
  BY StatusFollows
<1> QED
  BY <1>1, <1>2, <1>3, PTL DEF Spec

-----------------------------------------------------------------------------
(* Induction over the naturals below a bound, and the recursions over a      *)
(* sequence that it justifies.                                               *)

LEMMA LeastElement ==
  ASSUME NEW T \in SUBSET Nat, T # {}
  PROVE  \E x \in T : \A y \in T : x <= y
<1>1. \E x \in T : \A y \in T : <<y, x>> \notin OpToRel(<, Nat)
  BY WFMin, NatLessThanWellFounded, Zenon
<1>2. \E x \in T : \A y \in T : ~(y < x)
  BY <1>1, Zenon DEF OpToRel
<1> QED
  BY <1>2

LEMMA Induction ==
  ASSUME NEW n \in Nat, NEW S \in SUBSET (0 .. n), 0 \in S,
         \A i \in 1 .. n : i - 1 \in S => i \in S
  PROVE  S = 0 .. n
<1> DEFINE T == (0 .. n) \ S
<1>1. SUFFICES ASSUME T # {}
               PROVE  FALSE
  OBVIOUS
<1>2. T \in SUBSET Nat
  OBVIOUS
<1>3. PICK x \in T : \A y \in T : x <= y
  <2> HIDE DEF T
  <2> QED
    BY <1>1, <1>2, LeastElement
<1> QED
  BY <1>3

RatiosUpTo(f, d, s, n) ==
  f = [i \in 0 .. n |-> IF i = 0 THEN d ELSE CheckDecodeRatio(f[i - 1], s[i])]

LEMMA RatiosDefined ==
  ASSUME NEW d, NEW s, NEW n \in Nat
  PROVE  \E f : RatiosUpTo(f, d, s, n)
<1> DEFINE Rec(f, m) == RatiosUpTo(f, d, s, m)
           Good(m) == \E f : Rec(f, m)
           S == {m \in 0 .. n : Good(m)}
<1> USE DEF RatiosUpTo
<1>1. Good(0)
  <2>1. Rec([i \in 0 .. 0 |-> d], 0)
    OBVIOUS
  <2> QED
    BY <2>1
<1>2. ASSUME NEW m \in 1 .. n, Good(m - 1)
      PROVE  Good(m)
  <2>1. PICK f : Rec(f, m - 1)
    BY <1>2
  <2> DEFINE g == [i \in 0 .. m |-> IF i = m THEN CheckDecodeRatio(f[m - 1], s[m])
                                             ELSE f[i]]
  <2>2. ASSUME NEW i \in 0 .. m
        PROVE  g[i] = IF i = 0 THEN d ELSE CheckDecodeRatio(g[i - 1], s[i])
    BY <2>1
  <2>3. Rec(g, m)
    BY <2>2
  <2> QED
    BY <2>3
<1>3. S = 0 .. n
  <2>1. 0 \in S
    BY <1>1
  <2>2. \A i \in 1 .. n : i - 1 \in S => i \in S
    <3> HIDE DEF Good
    <3> QED
      BY <1>2
  <2> HIDE DEF S
  <2>3. S \in SUBSET (0 .. n)
    BY DEF S
  <2> QED
    BY <2>1, <2>2, <2>3, Induction
<1> QED
  BY <1>3

CurveUpTo(f, depths, measured, n) ==
  f = [i \in 0 .. n |->
         IF i = 0 THEN <<>>
         ELSE IF measured[i] = NoRatio THEN f[i - 1]
         ELSE Append(f[i - 1], [depth |-> depths[i], ratio |-> measured[i]])]

LEMMA CurveDefined ==
  ASSUME NEW depths, NEW measured, NEW n \in Nat
  PROVE  \E f : CurveUpTo(f, depths, measured, n)
<1> DEFINE Step(seq, i) == IF measured[i] = NoRatio THEN seq
                           ELSE Append(seq, [depth |-> depths[i], ratio |-> measured[i]])
           Rec(f, m) == f = [i \in 0 .. m |-> IF i = 0 THEN <<>> ELSE Step(f[i - 1], i)]
           Good(m) == \E f : Rec(f, m)
           S == {m \in 0 .. n : Good(m)}
<1> HIDE DEF Step
<1>1. Good(0)
  <2>1. Rec([i \in 0 .. 0 |-> <<>>], 0)
    OBVIOUS
  <2> QED
    BY <2>1
<1>2. ASSUME NEW m \in 1 .. n, Good(m - 1)
      PROVE  Good(m)
  <2>1. PICK f : Rec(f, m - 1)
    BY <1>2
  <2> DEFINE g == [i \in 0 .. m |-> IF i = m THEN Step(f[m - 1], m) ELSE f[i]]
  <2>2. ASSUME NEW i \in 0 .. m
        PROVE  g[i] = IF i = 0 THEN <<>> ELSE Step(g[i - 1], i)
    BY <2>1
  <2>3. Rec(g, m)
    BY <2>2
  <2> QED
    BY <2>3
<1>3. S = 0 .. n
  <2>1. 0 \in S
    BY <1>1
  <2>2. \A i \in 1 .. n : i - 1 \in S => i \in S
    <3> HIDE DEF Good
    <3> QED
      BY <1>2
  <2> HIDE DEF S
  <2>3. S \in SUBSET (0 .. n)
    BY DEF S
  <2> QED
    BY <2>1, <2>2, <2>3, Induction
<1>4. PICK f : Rec(f, n)
  BY <1>3
<1>5. CurveUpTo(f, depths, measured, n)
  BY <1>4, Zenon DEF Step, CurveUpTo
<1> QED
  BY <1>5

-----------------------------------------------------------------------------
(* The anomaly detector.  A flag is never taken back, so that a detector     *)
(* without flags has checked nothing that would have raised one.             *)
Lists     == {"anomaly", "notable", "investigate"}
Kinds     == {"faster", "excellent", "steep", "improved", "thrashing", "thermal", "swap",
              "load", "quality"}
Flags     == [anomaly : SUBSET Kinds, notable : SUBSET Kinds, investigate : SUBSET Kinds]
Detectors == [flags : Flags, ratio : Int, depth : Nat]
Measured  == [depth : Nat, ratio : Nat]

LEMMA FlaggedFacts ==
  ASSUME NEW d \in Detectors, NEW list \in Lists, NEW kind \in Kinds
  PROVE  LET e == Flagged(d, list, kind) IN
         e \in Detectors /\ e.ratio = d.ratio /\ e.depth = d.depth /\ ~Clean(e)
<1> DEFINE flags == [d.flags EXCEPT ![list] = @ \cup {kind}]
           e     == [d EXCEPT !.flags = flags]
<1>1. d.flags \in Flags /\ d.ratio \in Int /\ d.depth \in Nat
  BY DEF Detectors
<1>2. /\ flags \in Flags
      /\ kind \in flags.anomaly \cup flags.notable \cup flags.investigate
  <2>1. CASE list = "anomaly"
    BY <1>1, <2>1 DEF Flags
  <2>2. CASE list = "notable"
    BY <1>1, <2>2 DEF Flags
  <2>3. CASE list = "investigate"
    BY <1>1, <2>3 DEF Flags
  <2> QED
    BY <2>1, <2>2, <2>3 DEF Lists
<1> HIDE DEF flags
<1>3. /\ e \in Detectors /\ e.ratio = d.ratio /\ e.depth = d.depth /\ e.flags = flags
  BY <1>1, <1>2 DEF Detectors
<1>4. flags # NoFlags
  BY <1>2 DEF NoFlags, Flags
<1>5. Flagged(d, list, kind) = e
  BY Zenon DEF Flagged, flags
<1> QED
  BY <1>3, <1>4, <1>5 DEF Clean

LEMMA RatioFacts ==
  ASSUME NEW d \in Detectors, NEW point \in Measured
  PROVE  /\ CheckDecodeRatio(d, point) \in Detectors
         /\ CheckDecodeRatio(d, point).ratio = point.ratio
         /\ Clean(CheckDecodeRatio(d, point)) =>
                        /\ Clean(d) /\ ~Faster(point.ratio) /\ ~Steep(d.ratio, point.ratio)
                        /\ ~Thrashing(point.depth, point.ratio)
<1> DEFINE good  == IF Faster(point.ratio)
                      THEN Flagged(d, "investigate", "faster")
                      ELSE FlagIf(d, "notable", "excellent",
                                  Excellent(point.depth, point.ratio))
           trend == IF Steep(d.ratio, point.ratio)
                      THEN Flagged(good, "anomaly", "steep")
                      ELSE FlagIf(good, "investigate", "improved",
                                  /\ Improved(d.ratio, point.ratio)
                                  /\ point.depth > d.depth)
           floor == FlagIf(trend, "investigate", "thrashing",
                           Thrashing(point.depth, point.ratio))
<1>1. \A f \in Detectors, kind \in Kinds :
        /\ Flagged(f, "anomaly", kind) \in Detectors /\ ~Clean(Flagged(f, "anomaly", kind))
        /\ Flagged(f, "notable", kind) \in Detectors /\ ~Clean(Flagged(f, "notable", kind))
        /\ Flagged(f, "investigate", kind) \in Detectors
        /\ ~Clean(Flagged(f, "investigate", kind))
  BY FlaggedFacts DEF Lists
<1>0. /\ "faster" \in Kinds /\ "excellent" \in Kinds /\ "steep" \in Kinds
      /\ "improved" \in Kinds /\ "thrashing" \in Kinds
  BY DEF Kinds
<1>2. good \in Detectors /\ (Clean(good) => Clean(d) /\ ~Faster(point.ratio))
  BY <1>0, <1>1, Zenon DEF FlagIf
<1> HIDE DEF good
<1>3. trend \in Detectors /\ (Clean(trend) => Clean(good) /\ ~Steep(d.ratio, point.ratio))
  BY <1>0, <1>1, <1>2, Zenon DEF FlagIf
<1> HIDE DEF trend
<1>4. floor \in Detectors
        /\ (Clean(floor) => Clean(trend) /\ ~Thrashing(point.depth, point.ratio))
  BY <1>0, <1>1, <1>3, Zenon DEF FlagIf
<1>5. CheckDecodeRatio(d, point) = [floor EXCEPT !.ratio = point.ratio, !.depth = point.depth]
  BY DEF CheckDecodeRatio, good, trend
<1> HIDE DEF floor
<1> DEFINE e == [floor EXCEPT !.ratio = point.ratio, !.depth = point.depth]
<1>6. e \in Detectors /\ e.ratio = point.ratio /\ e.flags = floor.flags
  <2>1. point.ratio \in Int /\ point.depth \in Nat
    BY DEF Measured
  <2> QED
    BY <1>4, <2>1 DEF Detectors
<1> QED
  BY <1>2, <1>3, <1>4, <1>5, <1>6 DEF Clean

(* Only measured ratios are compared.                                        *)
LEMMA CurveType ==
  ASSUME NEW depths \in Seq(Nat), NEW measured \in [DOMAIN depths -> Nat \cup {NoRatio}]
  PROVE  Curve(depths, measured) \in Seq(Measured)
<1> DEFINE n == Len(depths)
           Step(seq, i) == IF measured[i] = NoRatio THEN seq
                           ELSE Append(seq, [depth |-> depths[i], ratio |-> measured[i]])
           f == CHOOSE f : CurveUpTo(f, depths, measured, n)
           S == {i \in 0 .. n : f[i] \in Seq(Measured)}
<1>1. n \in Nat /\ DOMAIN depths = 1 .. n /\ \A i \in 1 .. n : depths[i] \in Nat
  BY LenProperties, ElementOfSeq
<1>2. f = [i \in 0 .. n |-> IF i = 0 THEN <<>> ELSE Step(f[i - 1], i)]
  <2>1. \E g : CurveUpTo(g, depths, measured, n)
    BY <1>1, CurveDefined
  <2>2. CurveUpTo(f, depths, measured, n)
    BY <2>1
  <2> HIDE DEF f
  <2> QED
    BY <2>2, Zenon DEF CurveUpTo
<1>3. Curve(depths, measured) = f[n]
  BY Zenon DEF Curve, CurveUpTo
<1>4. ASSUME NEW i \in 1 .. n, NEW seq \in Seq(Measured)
      PROVE  Step(seq, i) \in Seq(Measured)
  <2>1. CASE measured[i] = NoRatio
    BY <2>1
  <2>2. CASE measured[i] # NoRatio
    <3> DEFINE point == [depth |-> depths[i], ratio |-> measured[i]]
    <3>1. measured[i] \in Nat /\ depths[i] \in Nat
      BY <1>1, <2>2
    <3>2. point \in Measured
      BY <3>1 DEF Measured
    <3>3. Step(seq, i) = Append(seq, point)
      BY <2>2
    <3> HIDE DEF point, Step
    <3> QED
      BY <3>2, <3>3, AppendProperties
  <2> QED
    BY <2>1, <2>2
<1> HIDE DEF f, n, Step
<1>5. f[0] = <<>> /\ \A i \in 1 .. n : f[i] = Step(f[i - 1], i)
  BY <1>1, <1>2
<1>6. ASSUME NEW i \in 1 .. n, i - 1 \in S
      PROVE  i \in S
  <2>1. f[i - 1] \in Seq(Measured)
    BY <1>6
  <2>2. f[i] \in Seq(Measured)
    BY <1>4, <1>5, <2>1
  <2> QED
    BY <1>1, <2>2
<1>7. S = 0 .. n
  <2>1. <<>> \in Seq(Measured)
    BY EmptySeq
  <2>2. 0 \in S
    <3>1. f[0] \in Seq(Measured)
      BY <1>5, <2>1
    <3> QED
      BY <1>1, <3>1
  <2>3. S \in SUBSET (0 .. n)
    OBVIOUS
  <2> HIDE DEF S
  <2> QED
    BY <1>1, <1>6, <2>2, <2>3, Induction
<1> QED
  BY <1>1, <1>3, <1>7

(* A detector without flags behind a curve has found it clean.               *)
LEMMA RatiosFacts ==
  ASSUME NEW d \in Detectors, NEW c \in Seq(Measured)
  PROVE  LET e == CheckDecodeRatios(d, c) IN
         e \in Detectors /\ (Clean(e) => Clean(d) /\ CleanCurve(c))
<1> DEFINE n == Len(c)
           f == CHOOSE f : RatiosUpTo(f, d, c, n)
           CleanAt(i) == /\ ~Faster(c[i].ratio) /\ ~Thrashing(c[i].depth, c[i].ratio)
                         /\ i > 1 => ~Steep(c[i - 1].ratio, c[i].ratio)
           S == {i \in 0 .. n : /\ f[i] \in Detectors
                                /\ i > 0 => f[i].ratio = c[i].ratio
                                /\ Clean(f[i]) => Clean(d) /\ \A j \in 1 .. i : CleanAt(j)}
<1>1. n \in Nat /\ DOMAIN c = 1 .. n /\ \A i \in 1 .. n : c[i] \in Measured
  BY LenProperties, ElementOfSeq
<1>2. RatiosUpTo(f, d, c, n)
  <2>1. \E g : RatiosUpTo(g, d, c, n)
    BY <1>1, RatiosDefined
  <2> QED
    BY <2>1
<1>3. CheckDecodeRatios(d, c) = f[n]
  BY Zenon DEF CheckDecodeRatios, RatiosUpTo
<1> HIDE DEF f, n
<1>4. f[0] = d /\ \A i \in 1 .. n : f[i] = CheckDecodeRatio(f[i - 1], c[i])
  BY <1>1, <1>2 DEF RatiosUpTo
<1>5. ASSUME NEW i \in 1 .. n, i - 1 \in S
      PROVE  i \in S
  <2>1. /\ f[i - 1] \in Detectors
        /\ i - 1 > 0 => f[i - 1].ratio = c[i - 1].ratio
        /\ Clean(f[i - 1]) => Clean(d) /\ \A j \in 1 .. i - 1 : CleanAt(j)
    BY <1>5
  <2>2. /\ f[i] \in Detectors /\ f[i].ratio = c[i].ratio
        /\ Clean(f[i]) => /\ Clean(f[i - 1]) /\ ~Faster(c[i].ratio)
                          /\ ~Steep(f[i - 1].ratio, c[i].ratio)
                          /\ ~Thrashing(c[i].depth, c[i].ratio)
    <3>1. f[i] = CheckDecodeRatio(f[i - 1], c[i]) /\ c[i] \in Measured
      BY <1>1, <1>4
    <3> DEFINE e == f[i - 1]
               point == c[i]
    <3>2. e \in Detectors /\ point \in Measured
      BY <2>1, <3>1
    <3> HIDE DEF e, point
    <3>3. /\ CheckDecodeRatio(e, point) \in Detectors
          /\ CheckDecodeRatio(e, point).ratio = point.ratio
          /\ Clean(CheckDecodeRatio(e, point)) =>
               /\ Clean(e) /\ ~Faster(point.ratio) /\ ~Steep(e.ratio, point.ratio)
               /\ ~Thrashing(point.depth, point.ratio)
      BY <3>2, RatioFacts, Zenon
    <3> QED
      BY <3>1, <3>3, Zenon DEF e, point
  <2>3. Clean(f[i]) => CleanAt(i)
    BY <2>1, <2>2
  <2> HIDE DEF CleanAt
  <2>4. Clean(f[i]) => \A j \in 1 .. i : CleanAt(j)
    BY <2>1, <2>2, <2>3
  <2> QED
    BY <1>1, <2>1, <2>2, <2>4
<1>6. S = 0 .. n
  <2>1. 0 \in S
    BY <1>1, <1>4
  <2>2. S \in SUBSET (0 .. n)
    OBVIOUS
  <2> HIDE DEF S
  <2> QED
    BY <1>1, <1>5, <2>1, <2>2, Induction
<1>7. f[n] \in Detectors /\ (Clean(f[n]) => Clean(d) /\ \A j \in 1 .. n : CleanAt(j))
  BY <1>1, <1>6
<1>8. (\A j \in 1 .. n : CleanAt(j)) => CleanCurve(c)
  BY <1>1 DEF CleanCurve, Thrashing, Measured
<1> QED
  BY <1>3, <1>7, <1>8

LEMMA CheckFacts ==
  ASSUME NEW d \in Detectors
  PROVE  /\ \A sample : /\ CheckMonitor(d, sample) \in Detectors
                        /\ Clean(CheckMonitor(d, sample)) => Clean(d)
         /\ \A slow : /\ CheckBaseline(d, slow) \in Detectors
                      /\ Clean(CheckBaseline(d, slow)) => Clean(d)
         /\ \A delta \in Int, env \in BOOLEAN :
              /\ CheckPpl(d, delta, env) \in Detectors
              /\ Clean(CheckPpl(d, delta, env)) => Clean(d) /\ delta \in -10 .. 100
<1>1. \A f \in Detectors, kind \in Kinds :
        /\ Flagged(f, "anomaly", kind) \in Detectors /\ ~Clean(Flagged(f, "anomaly", kind))
        /\ Flagged(f, "notable", kind) \in Detectors /\ ~Clean(Flagged(f, "notable", kind))
        /\ Flagged(f, "investigate", kind) \in Detectors
        /\ ~Clean(Flagged(f, "investigate", kind))
  BY FlaggedFacts DEF Lists
<1>2. "thermal" \in Kinds /\ "swap" \in Kinds /\ "load" \in Kinds /\ "quality" \in Kinds
  BY DEF Kinds
<1>3. ASSUME NEW sample
      PROVE  /\ CheckMonitor(d, sample) \in Detectors
             /\ Clean(CheckMonitor(d, sample)) => Clean(d)
  <2> DEFINE e == FlagIf(d, "anomaly", "thermal", sample = "hot")
  <2>1. e \in Detectors /\ (Clean(e) => Clean(d))
    BY <1>1, <1>2, Zenon DEF FlagIf
  <2> HIDE DEF e
  <2>2. LET g == FlagIf(e, "anomaly", "swap", sample = "swapping")
        IN  g \in Detectors /\ (Clean(g) => Clean(e))
    BY <1>1, <1>2, <2>1, Zenon DEF FlagIf
  <2> QED
    BY <2>1, <2>2, Zenon DEF CheckMonitor, e
<1>4. ASSUME NEW slow
      PROVE  /\ CheckBaseline(d, slow) \in Detectors
             /\ Clean(CheckBaseline(d, slow)) => Clean(d)
  BY <1>1, <1>2, Zenon DEF CheckBaseline, FlagIf
<1>5. ASSUME NEW delta \in Int, NEW env \in BOOLEAN
      PROVE  /\ CheckPpl(d, delta, env) \in Detectors
             /\ Clean(CheckPpl(d, delta, env)) => Clean(d) /\ delta \in -10 .. 100
  <2>0. /\ delta > 100 => ~(delta < -10) /\ delta # 0
        /\ delta < -10 => delta # 0
    OBVIOUS
  <2>1. \/ delta > 100 /\ CheckPpl(d, delta, env) = Flagged(d, "anomaly", "quality")
        \/ delta < -10 /\ CheckPpl(d, delta, env) = Flagged(d, "investigate", "quality")
        \/ ~(delta > 100) /\ ~(delta < -10)
              /\ CheckPpl(d, delta, env) \in {Flagged(d, "notable", "quality"), d}
    BY <2>0, Zenon DEF CheckPpl
  <2>2. ~(delta > 100) /\ ~(delta < -10) => delta \in -10 .. 100
    OBVIOUS
  <2> QED
    BY <1>1, <1>2, <2>1, <2>2, Zenon
<1> QED
  BY <1>3, <1>4, <1>5

-----------------------------------------------------------------------------
(* What section 13 concludes.  The detector without a flag has seen every    *)
(* curve and every difference, and it is not asked again after section 13.   *)
Judged ==
  /\ detector \in Detectors /\ curves \in Seq(Seq(Measured))
  /\ Clean(detector) => /\ \A i \in DOMAIN curves : CleanCurve(curves[i])
                        /\ \A delta \in quality : delta \in -10 .. 100
  /\ summary # "none" => section = 14
  /\ summary = "clean" => Clean(detector)

LEMMA JudgedInit == Init => Judged
<1> SUFFICES ASSUME Init
             PROVE  Judged
  OBVIOUS
<1>1. detector \in Detectors
  BY DEF Init, NewDetector, NoFlags, NoRatio, Detectors, Flags
<1>2. curves \in Seq(Seq(Measured)) /\ DOMAIN curves = {}
  BY EmptySeq DEF Init
<1>3. quality = {} /\ summary = "none"
  BY DEF Init
<1> QED
  BY <1>1, <1>2, <1>3 DEF Judged

LEMMA CurvesGrow ==
  ASSUME NEW old \in Seq(Seq(Measured)), NEW c \in Seq(Measured),
         \A i \in DOMAIN old : CleanCurve(old[i]), CleanCurve(c)
  PROVE  \A i \in DOMAIN Append(old, c) : CleanCurve(Append(old, c)[i])
<1>1. /\ Len(Append(old, c)) = Len(old) + 1 /\ Append(old, c)[Len(old) + 1] = c
      /\ \A i \in 1 .. Len(old) : Append(old, c)[i] = old[i]
      /\ DOMAIN Append(old, c) = 1 .. Len(old) + 1
      /\ Len(old) \in Nat /\ DOMAIN old = 1 .. Len(old)
  BY AppendProperties, LenProperties
<1> QED
  BY <1>1

(* A section that compares a curve: what it starts from is not cleaner than  *)
(* the detector it leaves, and the curve is among those it has found clean.  *)
LEMMA CurveJudged ==
  ASSUME Typed, Outcome, Judged, pc = "sections", NEW d \in Detectors, NEW c \in Seq(Measured),
         Clean(d) => Clean(detector),
         detector' = CheckMonitor(CheckDecodeRatios(d, c), latest),
         curves' = Append(curves, c), quality' = quality, summary' = summary
  PROVE  Judged'
<1>1. summary = "none"
  BY DEF Judged, Outcome, Raised, Typed, TypeOK
<1>2. /\ CheckDecodeRatios(d, c) \in Detectors
      /\ Clean(CheckDecodeRatios(d, c)) => Clean(d) /\ CleanCurve(c)
  BY RatiosFacts
<1>3. /\ detector' \in Detectors
      /\ Clean(detector') => Clean(detector) /\ CleanCurve(c)
  <2> DEFINE e == CheckDecodeRatios(d, c)
  <2>1. e \in Detectors /\ (Clean(e) => Clean(detector) /\ CleanCurve(c))
    BY <1>2
  <2> HIDE DEF e
  <2>2. CheckMonitor(e, latest) \in Detectors /\ (Clean(CheckMonitor(e, latest)) => Clean(e))
    BY <2>1, CheckFacts
  <2> QED
    BY <2>1, <2>2 DEF e
<1>4. curves' \in Seq(Seq(Measured))
  BY AppendProperties DEF Judged
<1>5. Clean(detector') => \A i \in DOMAIN curves' : CleanCurve(curves'[i])
  BY <1>3, CurvesGrow DEF Judged
<1> QED
  BY <1>1, <1>3, <1>4, <1>5 DEF Judged, Clean

LEMMA JudgedNext ==
  ASSUME Typed, Outcome, Judged, [Next]_vars
  PROVE  Judged'
<1>1. Sections \/ UNCHANGED <<detector, curves, quality, summary, section>>
  <2>1. CASE Refuse \/ Setup \/ Banner \/ StartMonitor \/ StartDisplay \/ Except \/ Finally
               \/ Join \/ Leave
    BY <2>1 DEF Refuse, Setup, Banner, StartMonitor, StartDisplay, Except, Finally, Join,
                Leave
  <2>2. CASE MonitorSummary \/ WriteProfile \/ ScrubLog \/ ScrubProfile \/ ScrubRead
               \/ ScrubWrite \/ MakeZip \/ Cleanup
    BY <2>2 DEF MonitorSummary, WriteProfile, ScrubLog, ScrubProfile, ScrubRead, ScrubWrite,
                MakeZip, Cleanup
  <2>3. CASE LogFails \/ SectionRaises \/ LogBreaks \/ InterruptWrite \/ Interrupt
    BY <2>3, LogFailsSteps, InterruptSteps DEF SectionRaises, LogBreaks, InterruptWrite
  <2>4. CASE Monitor \/ UNCHANGED vars
    BY <2>4 DEF Monitor, MonitorCheck, MonitorPoll, MonitorRow, vars
  <2> QED
    BY <2>1, <2>2, <2>3, <2>4 DEF Next, Main, Finished
<1>2. CASE UNCHANGED <<detector, curves, quality, summary, section>>
  BY <1>2 DEF Judged, Clean
<1>3. CASE Sections
  <2>1. /\ pc = "sections" /\ section <= 13 /\ summary = "none"
    BY <1>3, SectionSteps DEF Judged, Outcome, Raised, Typed, TypeOK
  <2>2. CASE Reports \/ Skip \/ ProbeBackend
    <3>1. UNCHANGED <<detector, curves, quality, summary>>
      BY <2>2 DEF Reports, Inventory, LoadBefore, ModelInfo, BuildValidation, Prefill,
                  Combined, NoCorpus, Memory, LoadAfter, Report, Skip, SkipSection,
                  ProbeBackend
    <3> QED
      BY <2>1, <3>1 DEF Judged, Clean
  <2>3. CASE MeasureDecode
    <3>1. PICK run \in DecodeRuns :
            LET curve == Curve(DecodeDepths, run.ratios) IN
            /\ detector' = CheckMonitor(CheckDecodeRatios(CheckBaseline(detector, run.slow),
                                                          curve), latest)
            /\ curves' = Append(curves, curve) /\ quality' = quality /\ summary' = summary
      BY <2>3 DEF MeasureDecode
    <3>2. Curve(DecodeDepths, run.ratios) \in Seq(Measured)
      BY CurveType, DiagnosticAssumption
    <3>3. /\ CheckBaseline(detector, run.slow) \in Detectors
          /\ Clean(CheckBaseline(detector, run.slow)) => Clean(detector)
      BY CheckFacts DEF Judged
    <3> QED
      BY <2>1, <3>1, <3>2, <3>3, CurveJudged
  <2>4. CASE MeasureStress
    <3>1. PICK measured \in StressRuns :
            LET curve == Curve(StressDepths, measured) IN
            /\ detector' = CheckMonitor(CheckDecodeRatios(detector, curve), latest)
            /\ curves' = Append(curves, curve) /\ quality' = quality /\ summary' = summary
      BY <2>4 DEF MeasureStress
    <3>2. Curve(StressDepths, measured) \in Seq(Measured)
      BY CurveType, DiagnosticAssumption
    <3> QED
      BY <2>1, <3>1, <3>2, CurveJudged DEF Judged
  <2>5. CASE MeasurePpl
    <3>1. PICK compared \in SUBSET {"plain", "mode2"}, plain \in PplDeltas, mode2 \in PplDeltas :
            LET first == IF "plain" \in compared THEN CheckPpl(detector, plain, FALSE)
                                                 ELSE detector IN
            /\ detector' = IF "mode2" \in compared THEN CheckPpl(first, mode2, TRUE) ELSE first
            /\ quality' = (IF "plain" \in compared THEN {plain} ELSE {})
                            \cup (IF "mode2" \in compared THEN {mode2} ELSE {})
            /\ curves' = curves /\ summary' = summary
      BY <2>5 DEF MeasurePpl
    <3> DEFINE e == IF "plain" \in compared THEN CheckPpl(detector, plain, FALSE)
                                            ELSE detector
               g == IF "mode2" \in compared THEN CheckPpl(e, mode2, TRUE) ELSE e
    <3>2. /\ e \in Detectors
          /\ Clean(e) => Clean(detector) /\ ("plain" \in compared => plain \in -10 .. 100)
      BY CheckFacts, DiagnosticAssumption DEF Judged
    <3>4. detector' = g
      BY <3>1
    <3> HIDE DEF e
    <3>3. /\ g \in Detectors
          /\ Clean(g) => Clean(e) /\ ("mode2" \in compared => mode2 \in -10 .. 100)
      BY <3>2, CheckFacts, DiagnosticAssumption
    <3> HIDE DEF g
    <3>5. /\ detector' \in Detectors
          /\ Clean(detector') => Clean(detector) /\ \A delta \in quality' : delta \in -10 .. 100
      BY <3>1, <3>2, <3>3, <3>4
    <3> QED
      BY <2>1, <3>1, <3>5 DEF Judged, Clean
  <2>6. CASE Summarize
    <3>1. /\ UNCHANGED <<detector, curves, quality>> /\ section' = 14
          /\ summary' = IF Clean(detector) THEN "clean" ELSE "flagged"
      BY <2>6 DEF Summarize
    <3> QED
      BY <3>1 DEF Judged, Clean
  <2> QED
    BY <1>3, <2>2, <2>3, <2>4, <2>5, <2>6 DEF Sections
<1> QED
  BY <1>1, <1>2, <1>3

(* Results are called clean only if no ratio and no perplexity is out of     *)
(* range, for any depths and any measurements.                               *)
THEOREM CleanIsJustified == Spec => []CleanSummary
<1>1. Init => Typed /\ Contract /\ Outcome /\ Judged
  BY TypeInit, ContractInit, OutcomeInit, JudgedInit
<1>2. Typed /\ Contract /\ Outcome /\ Judged /\ [Next]_vars =>
        (Typed /\ Contract /\ Outcome /\ Judged)'
  BY TypeNext, ContractNext, OutcomeNext, JudgedNext
<1>3. Judged => CleanSummary
  BY DEF Judged, CleanSummary
<1> QED
  BY <1>1, <1>2, <1>3, PTL DEF Spec
=============================================================================
