-------------------------- MODULE VerificationProofs --------------------------
(***************************************************************************)
(* Proofs about StudyVerification and IsolatedWorker, for any outcomes of   *)
(* the runs, any number of failing file operations, interrupts and stops,   *)
(* and a child that dies between any two of its steps.                     *)
(*                                                                         *)
(* First the verifier on its own: what its verdict and its exit status say  *)
(* of the retained runs, and that a bundle is published in order.  Then its *)
(* supervisor, where the verifier is the child and leaves its result in a   *)
(* receipt (Deferred): what the supervisor accepts, what is kept of a       *)
(* worker that failed, and that the bundle keeps the same promise.         *)
(***************************************************************************)
EXTENDS IsolatedWorker, TLAPS

Leaving == {"report", "manifest", "verification", "worker-result"}
Early      == {"start", "run", "sink", "append", "compare", "fill"}
Results    == {"report", "manifest", "verification"}

(* Which write is under way, and that one without an error has stored it.   *)
WriteInv ==
  /\ pc \in {"sink", "append"} =>
       /\ Len(saved) < 2 /\ writing.name = Roles[Len(saved) + 1]
       /\ writing.value \in RunFiles
  /\ pc \in Leaving => writing.name = pc /\ writing.value = manifest
  /\ writing.step \in {"create", "publish"} => writing.error = "none"
  /\ writing.step \in {"discard", "over"} /\ writing.error = "none" =>
       files[writing.name] = writing.value
  /\ pc = "append" => Written("none")

(* The role files on disk are those of the saved records and, while one is  *)
(* being saved, perhaps its own.                                           *)
OnlySaved ==
  \A i \in 1 .. 2 : files[Roles[i]] # Absent =>
    i <= Len(saved) \/ (pc \in {"sink", "append"} /\ i = Len(saved) + 1)

SavedInv ==
  /\ \A i \in 1 .. Len(saved) : files[Roles[i]] = saved[i]
  /\ pc \in {"start", "run", "compare"} => ~handling
  /\ pc = "fill" => handling
  /\ pc \in {"start", "run"} => Len(saved) < 2
  /\ pc \in {"compare", "conclude"} => Len(saved) = 2
  /\ pc \in Early \union {"conclude"} /\ ~handling => OnlySaved

(* What the judgement rests on, and that the result is made of it.          *)
Judged ==
  /\ pc \in Early => ~comparable /\ analysis = "none"
  /\ handling => analysis = "none"
  /\ comparable => BothCompleted
  /\ analysis = "completed" => comparable /\ ~SomeGaps
  /\ pc \in Early \union {"conclude"} => manifest = Absent
  /\ pc \in Leaving \union {"print"} => manifest # Absent
  /\ manifest # Absent => Len(saved) = 2 /\ manifest = Manifest
  /\ \A n \in Results : files[n] # Absent => files[n] = manifest

(* The files of the result are published one after the other, and none of   *)
(* them before there is a result.                                          *)
Ordered ==
  /\ pc \in {"manifest", "verification", "print"} => files["report"] # Absent
  /\ pc \in {"verification", "print"} => files["manifest"] # Absent
  /\ pc = "print" => files["verification"] # Absent
  /\ pc = "report" => files["manifest"] = Absent /\ files["verification"] = Absent
  /\ pc = "manifest" => files["verification"] = Absent
  /\ pc \in Early \union {"conclude"} => files["worker-result"] = Absent

(* An undisturbed verification, or one with a single interrupt of a run or  *)
(* of the comparison, meets no error, and ends with what it retained.       *)
Quiet ==
  /\ faults = 0
  /\ interrupts = 0 \/ (interrupts = 1 /\ handling /\ landed \in {"run", "compare"})

Calm ==
  /\ landed \in {"run", "compare"} => handling
  /\ Quiet =>
       /\ writing.error = "none"
       /\ temps = IF writing.step \in {"publish", "discard"} THEN {writing.name} ELSE {}
       /\ writing.step \in {"create", "publish"} => files[writing.name] = Absent
       /\ pc \in Early => OnlySaved
       /\ handling /\ pc = "done" => exit = 130 /\ files["verification"] # Absent

(* Core is also kept by the worker of IsolatedWorker, whose supervisor takes *)
(* over where Calm ends.                                                    *)
Core == TypeOK /\ WriteInv /\ SavedInv /\ Judged /\ Ordered
Inv  == Core /\ Calm

-----------------------------------------------------------------------------
(* The contents of the directory tell their kinds.                         *)
LEMMA Kinds ==
  /\ \A r \in RunFiles : r # Absent
  /\ \A m \in Manifests : m # Absent
  /\ Manifest # Absent
  /\ \A r \in Outcomes, g \in BOOLEAN : Saved(r, g) \in RunFiles
  /\ \A s \in {"interrupted", "cancelled"} : Lost(s) \in RunFiles
<1>1. \A r \in RunFiles : r # Absent
  BY DEF RunFiles, Absent
<1>2. \A m \in Manifests : m # Absent
  BY DEF Manifests, Absent
<1>3. Manifest # Absent
  <2>1. Manifest.kind = "manifest" BY DEF Manifest
  <2>2. Absent.kind = "absent" BY DEF Absent
  <2> QED BY <2>1, <2>2
<1>4. ASSUME NEW r \in Outcomes, NEW g \in BOOLEAN PROVE Saved(r, g) \in RunFiles
  <2>1. r \in RunRecord
    BY StudyVerificationAssumption DEF Unlaunched, Launched
  <2> QED BY <2>1 DEF RunRecord, Saved, RunFiles
<1>5. \A s \in {"interrupted", "cancelled"} : Lost(s) \in RunFiles
  BY DEF Lost, RunFiles
<1> QED BY <1>1, <1>2, <1>3, <1>4, <1>5

LEMMA NamesKnown ==
  /\ RoleFiles \subseteq Names /\ Leaving \subseteq Names
  /\ Roles[1] = "reference" /\ Roles[2] = "candidate" /\ "none" \notin Names
  BY StudyVerificationAssumption DEF RoleFiles, Leaving, Roles

(* What the verifier writes as its result is a manifest.                    *)
LEMMA ManifestTyped ==
  ASSUME TypeOK
  PROVE  /\ Manifest \in Manifests
         /\ handling => Manifest.exit = 130
         /\ Manifest.records = saved /\ Manifest.verdict = Verdict
<1>1. Judgement \in {"EXECUTION_FAILED", "INSUFFICIENT_EVIDENCE", "NOT_COMPARABLE", "VERIFIED"}
  BY DEF Judgement
<1>2. policy \in {"none", "PASS", "FAIL", "INSUFFICIENT_EVIDENCE"}
  BY StudyVerificationAssumption DEF TypeOK
<1>3. Verdict \in {"VERIFIED", "PASS", "FAIL", "NOT_COMPARABLE", "INSUFFICIENT_EVIDENCE",
                   "EXECUTION_FAILED"}
  BY <1>1, <1>2 DEF Verdict
<1>4. ExitCode \in {0, 1, 3, 4, 5, 130} /\ (handling => ExitCode = 130)
  BY <1>3 DEF ExitCode, VerificationExitCodes
<1>5. Verdict \in DOMAIN VerificationExitCodes
  BY <1>3 DEF VerificationExitCodes
<1> QED BY <1>4, <1>5 DEF Manifest, Manifests, TypeOK

(* A step that leaves the records and the analyses alone leaves what is     *)
(* concluded from them.                                                    *)
LEMMA Steady ==
  ASSUME UNCHANGED <<saved, handling, comparable, analysis, policy>>
  PROVE  /\ Manifest' = Manifest /\ BothCompleted' = BothCompleted
         /\ SomeGaps' = SomeGaps
  BY DEF Manifest, ExitCode, Verdict, Judgement, AnyFailed, Sufficient,
         BothCompleted, SomeGaps

LEMMA InitInv == Init => Inv
<1> SUFFICES ASSUME Init PROVE Inv
  OBVIOUS
<1> USE StudyVerificationAssumption, AtomicFilesAssumption DEF Init
<1>1. TypeOK
  <2>1. /\ files \in [Names -> {Absent} \union RunFiles \union Manifests]
        /\ temps \subseteq Names /\ faults \in 0 .. MaxFaults
        /\ interrupts \in 0 .. MaxInterrupts /\ saved \in Seq(RunFiles) /\ Len(saved) <= 2
    OBVIOUS
  <2>2. writing \in [step : Steps, name : Names \union {"none"},
                    value : {Absent} \union RunFiles \union Manifests, error : Errors]
    BY DEF Idle, Steps, Errors
  <2>3. /\ pc \in Points /\ pc # "done" /\ writing.step = "idle"
        /\ landed \in Points \union {"none"}
    BY DEF Idle, Points
  <2>4. exit \in {Running, -2, 0, 1, 2, 3, 4, 5, 130} /\ exit = Running
    OBVIOUS
  <2>5. pc \notin {"sink", "append", "report", "manifest", "verification", "worker-result"}
    OBVIOUS
  <2>6. handling \in BOOLEAN /\ comparable \in BOOLEAN
    BY Zenon
  <2>7. /\ firstMissing \in 0 .. 3
        /\ analysis \in {"none", "skipped", "failed", "completed", "bad_metrics"}
        /\ policy \in Policies /\ manifest \in {Absent} \union Manifests
    OBVIOUS
  <2> QED BY <2>1, <2>2, <2>3, <2>4, <2>5, <2>6, <2>7 DEF TypeOK
<1>2. WriteInv BY DEF WriteInv, Idle, Leaving
<1>3. SavedInv BY NamesKnown DEF SavedInv, OnlySaved, Early, RoleFiles
<1>4. Judged BY NamesKnown DEF Judged, Early, Leaving, Results
<1>5. Ordered BY NamesKnown DEF Ordered, Early, Leaving
<1>6. Calm BY <1>3 DEF Calm, Quiet, Idle, SavedInv, Early
<1> QED BY <1>1, <1>2, <1>3, <1>4, <1>5, <1>6 DEF Inv, Core

-----------------------------------------------------------------------------
LEMMA StartKeeps ==
  ASSUME Core, Start
  PROVE  Core' /\ (Calm => Calm')
<1> USE StudyVerificationAssumption, AtomicFilesAssumption
    DEF Core, Start, Escapes, EscapeCode, Goes, study, judgement, signals, directory
<1>1. TypeOK'
  BY DEF TypeOK, Idle, Running, Points, StudyBody, Steps, Errors
<1>2. WriteInv' BY DEF WriteInv, Idle, Leaving, TypeOK
<1>3. SavedInv' BY DEF SavedInv, OnlySaved, Early, TypeOK
<1>4. Judged' BY Steady DEF Judged, Early, Leaving, Results
<1>5. Ordered' BY DEF Ordered, Early
<1>6. Calm => Calm' BY DEF Calm, Quiet, Idle, SavedInv, Early, OnlySaved, TypeOK
<1> QED BY <1>1, <1>2, <1>3, <1>4, <1>5, <1>6

LEMMA RunKeeps ==
  ASSUME Core, Run
  PROVE  Core' /\ (Calm => Calm')
<1> USE StudyVerificationAssumption, AtomicFilesAssumption
    DEF Core, Run, Begins, Goes, study, judgement, signals, directory
<1> PICK r \in Outcomes, gaps \in BOOLEAN : Begins(Roles[Len(saved) + 1], Saved(r, gaps))
  OBVIOUS
<1>0. Saved(r, gaps) \in RunFiles
  BY Kinds
<1>1. TypeOK'
  BY <1>0, NamesKnown DEF TypeOK, SavedInv, Points, StudyBody, Steps, Errors, RoleFiles
<1>2. WriteInv' BY <1>0 DEF WriteInv, SavedInv, Leaving
<1>3. SavedInv' BY DEF SavedInv, OnlySaved, Early, TypeOK
<1>4. Judged' BY Steady DEF Judged, Early, Leaving, Results
<1>5. Ordered' BY DEF Ordered, Early
<1>6. Calm => Calm' BY DEF Calm, Quiet, SavedInv, Early, OnlySaved, TypeOK
<1> QED BY <1>1, <1>2, <1>3, <1>4, <1>5, <1>6

LEMMA RunRaisesKeeps ==
  ASSUME Core, RunRaises
  PROVE  Core' /\ (Calm => Calm')
<1> USE StudyVerificationAssumption, AtomicFilesAssumption
    DEF Core, RunRaises, Escapes, EscapeCode, study, judgement, signals, directory
<1>1. TypeOK' BY DEF TypeOK, Idle, Running, Points, StudyBody, Steps, Errors
<1>2. WriteInv' BY DEF WriteInv, Idle, Leaving
<1>3. SavedInv' BY DEF SavedInv, OnlySaved, Early
<1>4. Judged' BY Steady DEF Judged, Early, Leaving, Results
<1>5. Ordered' BY DEF Ordered, Early
<1>6. Calm => Calm' BY DEF Calm, Quiet, Idle, SavedInv, Early, TypeOK
<1> QED BY <1>1, <1>2, <1>3, <1>4, <1>5, <1>6

LEMMA UnserializableKeeps ==
  ASSUME Core, Unserializable
  PROVE  Core' /\ (Calm => Calm')
<1> USE StudyVerificationAssumption, AtomicFilesAssumption
    DEF Core, Unserializable, Raise, Escapes, EscapeCode, study, judgement, signals, directory
<1>1. TypeOK' BY DEF TypeOK, Idle, Running, Points, StudyBody, Steps, Errors
<1>2. WriteInv' BY DEF WriteInv, Idle, Leaving
<1>3. SavedInv' BY DEF SavedInv, OnlySaved, Early
<1>4. Judged' BY Steady DEF Judged, Early, Leaving, Results
<1>5. Ordered' BY DEF Ordered, Early
<1>6. Calm => Calm' BY DEF Calm, Quiet, Idle, Judged, Early, TypeOK
<1> QED BY <1>1, <1>2, <1>3, <1>4, <1>5, <1>6

-----------------------------------------------------------------------------
(* A step of a write changes how far it is and its error, nothing else.     *)
LEMMA TurnsFacts ==
  ASSUME TypeOK, NEW step \in Steps, NEW error \in Errors, Turns(step, error)
  PROVE  /\ writing' \in [step : Steps, name : Names \union {"none"},
                          value : {Absent} \union RunFiles \union Manifests, error : Errors]
         /\ writing'.step = step /\ writing'.error = error
         /\ writing'.name = writing.name /\ writing'.value = writing.value
  BY DEF TypeOK, Turns

(* The name of a write in progress is a file, and where it leads.           *)
LEMMA WriteNames ==
  ASSUME Core, writing.step \in {"create", "publish", "discard"}
  PROVE  /\ \/ /\ pc = "sink" /\ Len(saved) \in {0, 1}
               /\ writing.name = Roles[Len(saved) + 1]
               /\ writing.value \in RunFiles
            \/ pc \in Leaving /\ writing.name = pc /\ writing.value = manifest
         /\ writing.name \in Names /\ (pc = "sink" => writing.name \in RoleFiles)
<1>1. pc \in {"sink", "append"} \union Leaving
  BY DEF Core, TypeOK, Leaving
<1>2. pc # "append"
  BY DEF Core, WriteInv, Written
<1>3. Len(saved) \in Nat
  BY DEF Core, TypeOK
<1>4. CASE pc = "sink"
  <2>1. Len(saved) < 2 /\ writing.name = Roles[Len(saved) + 1] /\ writing.value \in RunFiles
    BY <1>4 DEF Core, WriteInv
  <2>2. Len(saved) \in {0, 1}
    <3>1. \A n \in Nat : n < 2 => n \in {0, 1} OBVIOUS
    <3> QED BY <3>1, <2>1, <1>3
  <2>3. writing.name \in RoleFiles
    BY <2>1, <2>2, NamesKnown DEF RoleFiles
  <2> QED BY <1>4, <2>1, <2>2, <2>3, NamesKnown
<1>5. CASE pc \in Leaving
  BY <1>5, NamesKnown DEF Core, WriteInv, Leaving
<1> QED BY <1>1, <1>2, <1>4, <1>5

(* The steps of a write: only Publish changes a file, from Absent.          *)
LEMMA CreateKeeps ==
  ASSUME Core, Create, UNCHANGED <<pc, study, judgement, exit, signals>>
  PROVE  Core' /\ (Calm => Calm')
<1> USE StudyVerificationAssumption, AtomicFilesAssumption
    DEF Core, Create, Keeps, Works, Faults, study, judgement, signals
<1>n. /\ writing.name \in Names
      /\ writing.error = "none"
  BY WriteNames DEF WriteInv
<1>w. /\ writing' \in [step : Steps, name : Names \union {"none"},
                       value : {Absent} \union RunFiles \union Manifests, error : Errors]
      /\ writing'.name = writing.name /\ writing'.value = writing.value
      /\ \/ writing'.step = "publish" /\ writing'.error = "none"
         \/ writing'.step = "over" /\ writing'.error = "os"
      /\ temps' = IF writing'.step = "publish" THEN temps \union {writing.name} ELSE temps
      /\ writing'.step = "over" => writing.name \in temps \/ faults' = faults + 1
  BY <1>n, TurnsFacts DEF Steps, Errors, TypeOK
<1>1. TypeOK' BY <1>n, <1>w DEF TypeOK
<1>2. WriteInv' BY <1>n, <1>w DEF WriteInv, Written
<1>3. SavedInv' BY DEF SavedInv, OnlySaved
<1>4. Judged' BY Steady DEF Judged
<1>5. Ordered' BY DEF Ordered, Early
<1>6. Calm => Calm'
  <2> SUFFICES ASSUME Calm PROVE Calm'
    OBVIOUS
  <2>1. Quiet' => Quiet /\ faults' = faults
    BY DEF Quiet, TypeOK
  <2>2. Quiet' => temps = {} /\ writing'.step = "publish"
    BY <2>1, <1>w DEF Calm, TypeOK
  <2>3. OnlySaved' <=> OnlySaved BY DEF OnlySaved
  <2> QED BY <2>1, <2>2, <2>3, <1>n, <1>w DEF Calm
<1> QED BY <1>1, <1>2, <1>3, <1>4, <1>5, <1>6

LEMMA FillFailsKeeps ==
  ASSUME Core, FillFails, UNCHANGED <<pc, study, judgement, exit, signals>>
  PROVE  Core' /\ (Calm => Calm')
<1> USE StudyVerificationAssumption, AtomicFilesAssumption
    DEF Core, FillFails, Faults, study, judgement, signals
<1>w. /\ writing' \in [step : Steps, name : Names \union {"none"},
                       value : {Absent} \union RunFiles \union Manifests, error : Errors]
      /\ writing'.name = writing.name /\ writing'.value = writing.value
      /\ writing'.step = "discard" /\ writing'.error = "os"
  BY TurnsFacts DEF Steps, Errors
<1>1. TypeOK' BY <1>w DEF TypeOK
<1>2. WriteInv' BY <1>w DEF WriteInv, Written
<1>3. SavedInv' BY DEF SavedInv, OnlySaved
<1>4. Judged' BY Steady DEF Judged
<1>5. Ordered' BY DEF Ordered, Early
<1>6. Calm => Calm' BY DEF Calm, Quiet, TypeOK
<1> QED BY <1>1, <1>2, <1>3, <1>4, <1>5, <1>6

LEMMA DiscardKeeps ==
  ASSUME Core, Discard, UNCHANGED <<pc, study, judgement, exit, signals>>
  PROVE  Core' /\ (Calm => Calm')
<1> USE StudyVerificationAssumption, AtomicFilesAssumption
    DEF Core, Discard, Keeps, Works, Faults, study, judgement, signals
<1>w. /\ writing' \in [step : Steps, name : Names \union {"none"},
                       value : {Absent} \union RunFiles \union Manifests, error : Errors]
      /\ writing'.name = writing.name /\ writing'.value = writing.value
      /\ writing'.step = "over" /\ writing'.error = writing.error
  BY TurnsFacts DEF Steps, TypeOK
<1>1. TypeOK' BY <1>w DEF TypeOK
<1>2. WriteInv' BY <1>w DEF WriteInv, Written
<1>3. SavedInv' BY DEF SavedInv, OnlySaved
<1>4. Judged' BY Steady DEF Judged
<1>5. Ordered' BY DEF Ordered, Early
<1>6. Calm => Calm'
  <2> SUFFICES ASSUME Calm PROVE Calm'
    OBVIOUS
  <2>1. Quiet' => Quiet /\ faults' = faults
    BY DEF Quiet, TypeOK
  <2> QED BY <2>1, <1>w DEF Calm, OnlySaved, TypeOK
<1> QED BY <1>1, <1>2, <1>3, <1>4, <1>5, <1>6

LEMMA PublishKeeps ==
  ASSUME Core, Publish, UNCHANGED <<pc, study, judgement, exit, signals>>
  PROVE  Core' /\ (Calm => Calm')
<1> USE StudyVerificationAssumption, AtomicFilesAssumption
    DEF Core, Publish, Vacant, Keeps, Works, Faults, study, judgement, signals
<1>n. /\ \/ /\ pc = "sink" /\ Len(saved) \in {0, 1}
            /\ writing.name = Roles[Len(saved) + 1] /\ writing.value \in RunFiles
         \/ pc \in Leaving /\ writing.name = pc /\ writing.value = manifest
      /\ writing.name \in Names /\ writing.error = "none"
      /\ pc = "sink" => writing.name \in RoleFiles
  BY WriteNames, NamesKnown DEF WriteInv, RoleFiles, Leaving
<1>w. /\ writing' \in [step : Steps, name : Names \union {"none"},
                       value : {Absent} \union RunFiles \union Manifests, error : Errors]
      /\ writing'.name = writing.name /\ writing'.value = writing.value
      /\ writing'.step = "discard"
  BY <1>n, TurnsFacts DEF Steps, Errors, TypeOK
<1>3. CASE /\ files' = files /\ writing'.error = "os"
           /\ files[writing.name] # Absent \/ faults' = faults + 1
  <2>1. TypeOK' BY <1>3, <1>n, <1>w DEF TypeOK
  <2>2. WriteInv' BY <1>3, <1>n, <1>w DEF WriteInv, Written
  <2>3. SavedInv' BY <1>3 DEF SavedInv, OnlySaved
  <2>4. Judged' BY <1>3, Steady DEF Judged
  <2>5. Ordered' BY <1>3 DEF Ordered
  <2>6. Calm => Calm'
    <3> SUFFICES ASSUME Calm PROVE Calm'
      OBVIOUS
    <3>1. Quiet' => Quiet /\ faults' = faults
      BY DEF Quiet, TypeOK
    <3> QED BY <3>1, <1>3, <1>n, <1>w DEF Calm, OnlySaved, TypeOK
  <2> QED BY <2>1, <2>2, <2>3, <2>4, <2>5, <2>6
<1>4. CASE /\ files' = [files EXCEPT ![writing.name] = writing.value]
           /\ files[writing.name] = Absent /\ writing'.error = "none" /\ faults' = faults
  <2>f. /\ files'[writing.name] = writing.value
        /\ \A n \in Names : n # writing.name => files'[n] = files[n]
    BY <1>4, <1>n DEF TypeOK
  <2>0. \A i \in 1 .. Len(saved) : saved[i] \in RunFiles /\ saved[i] # Absent
    BY Kinds DEF TypeOK
  <2>r. Len(saved) \in {0, 1, 2} /\ Roles[1] \in Names /\ Roles[2] \in Names
    <3>1. \A n \in Nat : n <= 2 => n \in {0, 1, 2} OBVIOUS
    <3>2. Len(saved) \in Nat /\ Len(saved) <= 2 BY DEF TypeOK
    <3> QED BY <3>1, <3>2, NamesKnown DEF RoleFiles
  <2>1. TypeOK' BY <1>4, <1>n, <1>w DEF TypeOK
  <2>2. WriteInv' BY <2>f, <1>4, <1>n, <1>w DEF WriteInv, Written
  <2>3. SavedInv'
    <3>1. \A i \in 1 .. Len(saved) : Roles[i] # writing.name
      BY <1>4, <2>0 DEF SavedInv
    <3>2. \A i \in 1 .. Len(saved) : files'[Roles[i]] = saved[i]
      BY <3>1, <2>f, <2>r DEF SavedInv
    <3>3. OnlySaved => OnlySaved'
      BY <1>n, <2>f, <2>r, NamesKnown DEF OnlySaved, Leaving
    <3> QED BY <3>2, <3>3 DEF SavedInv
  <2>4. Judged'
    <3>1. \A n \in Results : files'[n] # Absent => files'[n] = manifest
      BY <1>n, <2>f, NamesKnown DEF Judged, Results, Leaving, RoleFiles
    <3> QED BY <3>1, Steady DEF Judged
  <2>5. Ordered'
    BY <1>n, <2>f, NamesKnown DEF Ordered, Leaving, RoleFiles, Early
  <2>6. Calm => Calm'
    <3> SUFFICES ASSUME Calm PROVE Calm'
      OBVIOUS
    <3>1. OnlySaved => OnlySaved'
      BY <1>n, <2>f, <2>r, NamesKnown DEF OnlySaved, Leaving
    <3> QED BY <3>1, <1>4, <1>n, <1>w, <2>f DEF Calm, Quiet, TypeOK, Leaving
  <2> QED BY <2>1, <2>2, <2>3, <2>4, <2>5, <2>6
<1>5. \/ files' = files /\ writing'.error = "os"
         /\ (files[writing.name] # Absent \/ faults' = faults + 1)
      \/ /\ files' = [files EXCEPT ![writing.name] = writing.value]
         /\ files[writing.name] = Absent /\ writing'.error = "none" /\ faults' = faults
  BY <1>n, TurnsFacts DEF Steps, Errors, TypeOK
<1> QED BY <1>3, <1>4, <1>5

LEMMA WriteOnKeeps ==
  ASSUME Core, WriteOn
  PROVE  Core' /\ (Calm => Calm')
  BY CreateKeeps, FillFailsKeeps, PublishKeeps, DiscardKeeps DEF WriteOn, WriteStep

(* An interrupt inside a write is one more than there were, and lands where *)
(* no undisturbed verification has one.                                    *)
LEMMA InterruptWriteKeeps ==
  ASSUME Core, InterruptWrite, UNCHANGED <<pc, study, judgement, exit>>,
         interrupts' \in 0 .. MaxInterrupts, interrupts' = interrupts + 1,
         landed' = pc, writing.step \in {"create", "publish", "discard"}
  PROVE  Core' /\ (Calm => Calm')
<1> USE StudyVerificationAssumption, AtomicFilesAssumption
    DEF Core, InterruptWrite, study, judgement
<1>n. writing.name \in Names /\ pc \in {"sink"} \union Leaving
  BY WriteNames
<1>w. /\ writing' \in [step : Steps, name : Names \union {"none"},
                       value : {Absent} \union RunFiles \union Manifests, error : Errors]
      /\ writing'.name = writing.name /\ writing'.value = writing.value
      /\ writing'.step \in {"discard", "over"} /\ writing'.error = "interrupt"
  BY TurnsFacts DEF Steps, Errors
<1>1. TypeOK' BY <1>n, <1>w DEF TypeOK
<1>2. WriteInv' BY <1>n, <1>w, WriteNames DEF WriteInv, Written
<1>3. SavedInv' BY DEF SavedInv, OnlySaved
<1>4. Judged' BY Steady DEF Judged
<1>5. Ordered' BY DEF Ordered, Early
<1>6. Calm => Calm' BY <1>n DEF Calm, Quiet, TypeOK, Leaving
<1> QED BY <1>1, <1>2, <1>3, <1>4, <1>5, <1>6

(* An exception that leaves the verifier, or enters its handler.            *)
LEMMA RaiseKeeps ==
  ASSUME Core, pc # "done", NEW error \in {"os", "interrupt", "value"}, Raise(error),
         UNCHANGED <<directory, judgement>>,
         interrupts' \in 0 .. MaxInterrupts, landed' \in Points \union {"none"}
  PROVE  Core'
<1> USE StudyVerificationAssumption DEF Core, directory, judgement
<1>i. /\ Idle \in [step : Steps, name : Names \union {"none"},
                   value : {Absent} \union RunFiles \union Manifests, error : Errors]
      /\ Idle.step = "idle" /\ Idle.error = "none"
  BY DEF Idle, Steps, Errors
<1>1. CASE Escapes(error)
  <2> USE <1>1 DEF Escapes, EscapeCode, study
  <2>1. TypeOK' BY <1>i DEF TypeOK, Running, Points
  <2>2. WriteInv' BY <1>i DEF WriteInv, Leaving
  <2>3. SavedInv' BY DEF SavedInv, Early
  <2>4. Judged' BY Steady DEF Judged, Early, Leaving
  <2>5. Ordered' BY DEF Ordered, Early
  <2> QED BY <2>1, <2>2, <2>3, <2>4, <2>5
<1>2. CASE Handles
  <2> USE <1>2 DEF Handles, StudyBody
  <2>h. handling' = TRUE /\ handling' \in BOOLEAN BY Zenon
  <2>l. Len(saved) + 1 \in 0 .. 3 BY DEF TypeOK
  <2>1. TypeOK' BY <1>i, <2>h, <2>l DEF TypeOK, Points
  <2>2. WriteInv' BY <1>i DEF WriteInv, Leaving
  <2>3. SavedInv' BY DEF SavedInv, Early
  <2>4. Judged'
    <3>1. manifest = Absent /\ ~comparable /\ analysis = "none"
      BY DEF Judged, Early
    <3> QED BY <3>1 DEF Judged, Early, Leaving, Results
  <2>5. Ordered' BY DEF Ordered, Early
  <2> QED BY <2>1, <2>2, <2>3, <2>4, <2>5
<1> QED BY <1>1, <1>2 DEF Raise

LEMMA WriteRaisesKeeps ==
  ASSUME Core, WriteRaises
  PROVE  Core' /\ (Calm => Calm')
<1> PICK error \in {"os", "interrupt"} : Written(error) /\ Raise(error)
  BY DEF WriteRaises
<1>0. /\ pc # "done" /\ UNCHANGED <<directory, judgement, signals>>
      /\ interrupts' \in 0 .. MaxInterrupts /\ landed' \in Points \union {"none"}
  BY DEF WriteRaises, Core, TypeOK, signals
<1>1. Calm => ~Quiet
  BY DEF Calm, Written
<1>2. Calm => Calm'
  <2>1. CASE Escapes(error)
    BY <1>0, <1>1, <2>1 DEF Escapes, study, signals, directory, Calm, Quiet, Core
  <2>2. CASE Handles
    BY <1>0, <1>1, <2>2 DEF Handles, signals, directory, Calm, Quiet, Core
  <2> QED BY <2>1, <2>2 DEF Raise
<1> QED BY <1>0, <1>2, RaiseKeeps

LEMMA InterruptKeeps ==
  ASSUME Core, Interrupt
  PROVE  Core' /\ (Calm => Calm')
<1> USE StudyVerificationAssumption
<1>0. /\ pc # "done" /\ pc \in Points /\ UNCHANGED judgement
      /\ interrupts' \in 0 .. MaxInterrupts /\ interrupts' = interrupts + 1 /\ landed' = pc
  BY DEF Interrupt, Core, TypeOK
<1>1. CASE writing.step \in {"create", "publish", "discard"}
  BY <1>0, <1>1, InterruptWriteKeeps DEF Interrupt
<1>2. CASE writing.step \notin {"create", "publish", "discard"}
  <2>1. Raise("interrupt") /\ UNCHANGED directory
    BY <1>2 DEF Interrupt
  <2>2. Calm => Calm'
    <3> SUFFICES ASSUME Calm PROVE Calm'
      OBVIOUS
    <3>1. CASE pc \in {"run", "compare"}
      <4>1. ~handling /\ Handles
        BY <2>1, <3>1 DEF Raise, Core, SavedInv, StudyBody
      <4>2. Quiet' => Quiet
        BY <1>0, <2>1, <4>1 DEF Quiet, directory, Core, TypeOK
      <4>3. OnlySaved => OnlySaved'
        BY <2>1, <3>1, <4>1 DEF OnlySaved, Handles, directory
      <4> QED
        BY <1>2, <2>1, <3>1, <4>1, <4>2, <4>3 DEF Calm, Handles, Idle, directory, Core, Early
    <3>2. CASE pc \notin {"run", "compare"}
      BY <1>0, <3>2 DEF Calm, Quiet, Core, TypeOK
    <3> QED BY <3>1, <3>2
  <2> QED BY <1>0, <2>1, <2>2, RaiseKeeps
<1> QED BY <1>1, <1>2

-----------------------------------------------------------------------------
LEMMA SinkReturnsKeeps ==
  ASSUME Core, SinkReturns
  PROVE  Core' /\ (Calm => Calm')
<1> USE StudyVerificationAssumption
    DEF Core, SinkReturns, Stored, Goes, study, judgement, signals, directory
<1>1. TypeOK' BY DEF TypeOK, Points, StudyBody
<1>2. WriteInv' BY DEF WriteInv, Leaving, Written
<1>3. SavedInv' BY DEF SavedInv, OnlySaved, Early
<1>4. Judged' BY Steady DEF Judged, Early, Leaving
<1>5. Ordered' BY DEF Ordered, Early
<1>6. Calm => Calm' BY DEF Calm, Quiet, OnlySaved, Early
<1> QED BY <1>1, <1>2, <1>3, <1>4, <1>5, <1>6

LEMMA AppendSavedKeeps ==
  ASSUME Core, AppendSaved
  PROVE  Core' /\ (Calm => Calm')
<1> USE StudyVerificationAssumption
    DEF Core, AppendSaved, Goes, study, judgement, signals, directory
<1>0. /\ Len(saved) \in {0, 1} /\ writing.value \in RunFiles /\ saved \in Seq(RunFiles)
      /\ files[Roles[Len(saved) + 1]] = writing.value
  <2>1. \A n \in Nat : n < 2 => n \in {0, 1} OBVIOUS
  <2>2. Len(saved) \in Nat /\ Len(saved) < 2 /\ saved \in Seq(RunFiles)
    BY DEF TypeOK, WriteInv
  <2> QED BY <2>1, <2>2 DEF WriteInv, Written
<1>s. /\ saved' \in Seq(RunFiles) /\ Len(saved') = Len(saved) + 1
      /\ saved'[Len(saved) + 1] = writing.value
      /\ \A i \in 1 .. Len(saved) : saved'[i] = saved[i]
  BY <1>0
<1>i. /\ Idle \in [step : Steps, name : Names \union {"none"},
                   value : {Absent} \union RunFiles \union Manifests, error : Errors]
      /\ Idle.step = "idle" /\ Idle.error = "none"
  BY DEF Idle, Steps, Errors
<1>p. /\ pc' \in {"fill", "compare", "run"}
      /\ pc' = "fill" <=> handling
      /\ pc' = "compare" => Len(saved) = 1
      /\ pc' = "run" => Len(saved) = 0
  BY <1>0
<1>1. TypeOK' BY <1>0, <1>s, <1>i, <1>p DEF TypeOK, Points, StudyBody
<1>2. WriteInv' BY <1>i, <1>p DEF WriteInv, Leaving
<1>o. OnlySaved => OnlySaved'
  BY <1>0, <1>s, <1>p DEF OnlySaved
<1>3. SavedInv'
  <2>1. \A i \in 1 .. Len(saved') : files[Roles[i]] = saved'[i]
    BY <1>0, <1>s DEF SavedInv
  <2> QED BY <2>1, <1>0, <1>s, <1>o, <1>p DEF SavedInv, Early
<1>4. Judged' BY <1>p DEF Judged, Early, Leaving, Results
<1>5. Ordered' BY <1>p DEF Ordered, Early
<1>6. Calm => Calm' BY <1>0, <1>o, <1>i, <1>p DEF Calm, Quiet, Early, Written, WriteInv
<1> QED BY <1>1, <1>2, <1>3, <1>4, <1>5, <1>6

LEMMA CompareKeeps ==
  ASSUME Core, Compare
  PROVE  Core' /\ (Calm => Calm')
<1> USE StudyVerificationAssumption
    DEF Core, Compare, Goes, study, signals, directory
<1>0. /\ comparable' \in BOOLEAN /\ (comparable' => BothCompleted)
      /\ analysis' \in {"skipped", "failed", "completed", "bad_metrics"}
      /\ analysis' = "completed" => comparable' /\ ~SomeGaps
      /\ BothCompleted' = BothCompleted /\ SomeGaps' = SomeGaps
  BY DEF BothCompleted, SomeGaps
<1>1. TypeOK' BY <1>0 DEF TypeOK, Points, StudyBody
<1>2. WriteInv' BY DEF WriteInv, Leaving, TypeOK
<1>3. SavedInv' BY DEF SavedInv, OnlySaved, Early
<1>4. Judged' BY <1>0 DEF Judged, Early, Leaving, SavedInv, Results
<1>5. Ordered' BY DEF Ordered, Early
<1>6. Calm => Calm' BY DEF Calm, Quiet, Early
<1> QED BY <1>1, <1>2, <1>3, <1>4, <1>5, <1>6

LEMMA FillKeeps ==
  ASSUME Core, Fill
  PROVE  Core' /\ (Calm => Calm')
<1> USE StudyVerificationAssumption
    DEF Core, Fill, Begins, study, judgement, signals, directory
<1>0. /\ Lost(Missing) \in RunFiles /\ Len(saved) \in {0, 1}
      /\ Roles[Len(saved) + 1] \in Names
  <2>1. \A n \in Nat : n < 2 => n \in {0, 1} OBVIOUS
  <2>2. Len(saved) \in Nat /\ Len(saved) < 2 BY DEF TypeOK
  <2>3. Missing \in {"interrupted", "cancelled"} BY DEF Missing
  <2>4. Lost(Missing) \in RunFiles BY <2>3, Kinds
  <2>5. Len(saved) \in {0, 1} BY <2>1, <2>2
  <2>6. Roles[Len(saved) + 1] \in Names BY <2>5, NamesKnown DEF RoleFiles
  <2> QED BY <2>4, <2>5, <2>6
<1>1. TypeOK' BY <1>0 DEF TypeOK, Points, StudyBody, Steps, Errors
<1>2. WriteInv' BY <1>0 DEF WriteInv, Leaving
<1>3. SavedInv' BY DEF SavedInv, OnlySaved, Early
<1>4. Judged' BY Steady DEF Judged, Early, Leaving
<1>5. Ordered' BY DEF Ordered, Early
<1>6. Calm => Calm'
  <2> SUFFICES ASSUME Calm PROVE Calm'
    OBVIOUS
  <2>1. OnlySaved => OnlySaved' /\ files[Roles[Len(saved) + 1]] = Absent
    BY <1>0 DEF OnlySaved
  <2> QED BY <2>1, <1>0 DEF Calm, Quiet, Early, TypeOK
<1> QED BY <1>1, <1>2, <1>3, <1>4, <1>5, <1>6

LEMMA FilledKeeps ==
  ASSUME Core, Filled
  PROVE  Core' /\ (Calm => Calm')
<1> USE StudyVerificationAssumption
    DEF Core, Filled, Goes, study, signals, directory
<1>0. /\ comparable' \in BOOLEAN /\ (comparable' => BothCompleted)
      /\ BothCompleted' = BothCompleted
  BY DEF BothCompleted
<1>1. TypeOK' BY <1>0 DEF TypeOK, Points, StudyBody
<1>2. WriteInv' BY DEF WriteInv, Leaving, TypeOK
<1>3. SavedInv' BY DEF SavedInv, OnlySaved, Early
<1>4. Judged' BY <1>0 DEF Judged, Early, Leaving, SavedInv, Results
<1>5. Ordered' BY DEF Ordered, Early
<1>6. Calm => Calm' BY DEF Calm, Quiet, Early
<1> QED BY <1>1, <1>2, <1>3, <1>4, <1>5, <1>6

-----------------------------------------------------------------------------
(* Before the conclusion nothing is published of it.                        *)
LEMMA NothingYet ==
  ASSUME Core, pc = "conclude"
  PROVE  \A n \in Leaving : files[n] = Absent
  BY DEF Core, Judged, Ordered, Leaving, Results

LEMMA ConcludeKeeps ==
  ASSUME Core, Conclude
  PROVE  Core' /\ (Calm => Calm')
<1> USE StudyVerificationAssumption
    DEF Core, Conclude, Begins, Goes, study, signals, directory
<1>m. /\ Manifest \in Manifests /\ Manifest # Absent /\ manifest' = Manifest
      /\ Manifest' = Manifest
  BY ManifestTyped, Kinds, Steady
<1>p. /\ pc' \in {"worker-result", "report"} /\ pc' \in Names
      /\ writing' = [step |-> "create", name |-> pc', value |-> Manifest, error |-> "none"]
  BY NamesKnown DEF Leaving
<1> HIDE DEF Conclude
<1>u. UNCHANGED <<files, temps, faults, saved, handling, firstMissing, comparable, analysis,
                  policy, exit, interrupts, landed>> /\ pc = "conclude"
  BY <1>p DEF Conclude
<1>1. TypeOK' BY <1>m, <1>p, <1>u DEF TypeOK, Points, StudyBody, Steps, Errors
<1>2. WriteInv' BY <1>m, <1>p DEF WriteInv, Leaving
<1>3. SavedInv' BY <1>p, <1>u DEF SavedInv, Early
<1>4. Judged'
  <2>1. BothCompleted' = BothCompleted /\ SomeGaps' = SomeGaps
    BY <1>u, Steady
  <2>2. \A n \in Results : files[n] = Absent
    BY <1>u, NothingYet DEF Results, Leaving
  <2> QED BY <1>m, <1>p, <1>u, <2>1, <2>2 DEF Judged, Early, Leaving, SavedInv
<1>5. Ordered' BY <1>p, <1>u, NothingYet DEF Ordered, Early, Leaving
<1>6. Calm => Calm' BY <1>p, <1>u, NothingYet DEF Calm, Quiet, Early, Leaving, TypeOK
<1> QED BY <1>1, <1>2, <1>3, <1>4, <1>5, <1>6

LEMMA PersistKeeps ==
  ASSUME Core, Persist
  PROVE  Core' /\ (Calm => Calm')
<1> USE StudyVerificationAssumption
    DEF Core, Begins, Goes, study, judgement, signals, directory
<1>0. /\ files[pc] = manifest /\ manifest # Absent
      /\ UNCHANGED <<files, temps, faults, saved, handling, firstMissing, judgement, exit,
                     interrupts, landed>>
      /\ pc \in {"report", "manifest", "verification"} /\ writing.step = "over"
  BY DEF Persist, WriteInv, Written, Judged, Leaving
<1>p. \/ pc = "report" /\ pc' = "manifest"
      \/ pc = "manifest" /\ pc' = "verification"
      \/ pc = "verification" /\ pc' = "print"
  BY DEF Persist, Following
<1>w. IF pc' = "print" THEN writing' = Idle
      ELSE writing' = [step |-> "create", name |-> pc', value |-> manifest, error |-> "none"]
  BY DEF Persist, Following
<1>t. /\ writing' \in [step : Steps, name : Names \union {"none"},
                       value : {Absent} \union RunFiles \union Manifests, error : Errors]
      /\ writing'.error = "none"
      /\ writing'.step = IF pc' = "print" THEN "idle" ELSE "create"
      /\ pc' # "print" => writing'.name = pc' /\ writing'.value = manifest
  BY <1>p, <1>w, NamesKnown DEF Idle, Steps, Errors, TypeOK, Leaving
<1>1. TypeOK' BY <1>0, <1>p, <1>t DEF TypeOK, Points
<1>2. WriteInv' BY <1>0, <1>p, <1>t DEF WriteInv, Leaving
<1>3. SavedInv' BY <1>0, <1>p DEF SavedInv, Early
<1>4. Judged' BY <1>0, <1>p, Steady DEF Judged, Early, Leaving, Results
<1>5. Ordered' BY <1>0, <1>p DEF Ordered, Early
<1>6. Calm => Calm' BY <1>0, <1>p, <1>t DEF Calm, Quiet, Early, Ordered
<1> QED BY <1>1, <1>2, <1>3, <1>4, <1>5, <1>6

LEMMA ReportKeeps ==
  ASSUME Core, Report
  PROVE  Core' /\ (Calm => Calm')
<1> USE StudyVerificationAssumption, AtomicFilesAssumption
    DEF Core, Report, Works, Faults, study, judgement, signals
<1>m. manifest \in Manifests /\ manifest # Absent /\ manifest = Manifest
      /\ (handling => manifest.exit = 130)
  BY ManifestTyped, Kinds DEF Judged, Leaving
<1>e. exit' \in {0, 1, 2, 3, 4, 5, 130} /\ faults' \in 0 .. MaxFaults
  BY <1>m DEF Manifests, TypeOK
<1>1. TypeOK' BY <1>e DEF TypeOK, Points, Running
<1>2. WriteInv' BY DEF WriteInv, Leaving, TypeOK
<1>3. SavedInv' BY DEF SavedInv, Early
<1>4. Judged' BY Steady DEF Judged, Early, Leaving
<1>5. Ordered' BY DEF Ordered, Early
<1>6. Calm => Calm' BY <1>m DEF Calm, Quiet, Early, Ordered, TypeOK
<1> QED BY <1>1, <1>2, <1>3, <1>4, <1>5, <1>6

LEMMA StutterKeeps ==
  ASSUME Core, UNCHANGED vars
  PROVE  Core' /\ (Calm => Calm')
  BY Steady DEF vars, study, judgement, signals, directory, Core, TypeOK, WriteInv, Written,
            SavedInv, OnlySaved, Judged, Ordered, Calm, Quiet

LEMMA NextKeeps ==
  ASSUME Core, [Next]_vars
  PROVE  Core' /\ (Calm => Calm')
  BY StartKeeps, RunKeeps, RunRaisesKeeps, UnserializableKeeps, WriteOnKeeps,
     WriteRaisesKeeps, SinkReturnsKeeps, AppendSavedKeeps, CompareKeeps, FillKeeps,
     FilledKeeps, ConcludeKeeps, PersistKeeps, ReportKeeps, InterruptKeeps, StutterKeeps
  DEF Next, Finished

LEMMA NextInv == Inv /\ [Next]_vars => Inv'
  BY NextKeeps DEF Inv

LEMMA Invariant == Spec => []Inv
  BY InitInv, NextInv, PTL DEF Spec

-----------------------------------------------------------------------------
(* Every variable of the verifier keeps its type.                           *)
THEOREM TypeCorrect == Spec => []TypeOK
  BY Invariant, PTL DEF Inv, Core

(* A verdict of VERIFIED, PASS or FAIL rests on complete evidence that is   *)
(* on disk, and complete evidence gets the verdict its policy decides.      *)
THEOREM VerdictIsEarned == Spec => []VerdictEarned
<1>1. Inv => VerdictEarned
  <2> SUFFICES ASSUME Inv, files["verification"] # Absent
               PROVE  LET verdict == files["verification"].verdict
                      IN  IF Earned
                            THEN verdict = IF policy = "none" THEN "VERIFIED" ELSE policy
                          ELSE verdict \notin {"VERIFIED", "PASS", "FAIL"}
    BY DEF VerdictEarned
  <2>1. /\ files["verification"] = manifest /\ manifest = Manifest /\ Len(saved) = 2
        /\ Manifest.verdict = Verdict
    BY ManifestTyped DEF Inv, Core, Judged, Results
  <2>2. files["reference"] = saved[1] /\ files["candidate"] = saved[2]
    BY <2>1, NamesKnown DEF Inv, Core, SavedInv
  <2>3. policy \in {"none", "PASS", "FAIL", "INSUFFICIENT_EVIDENCE"}
    BY StudyVerificationAssumption DEF Inv, Core, TypeOK
  <2>4. Earned <=> Judgement = "VERIFIED"
    <3>1. Earned => BothCompleted /\ ~SomeGaps
      BY <2>2 DEF Earned, RoleFiles, BothCompleted, SomeGaps
    <3>2. BothCompleted => ~AnyFailed
      BY DEF BothCompleted, AnyFailed, Failures
    <3>3. Earned => Judgement = "VERIFIED"
      BY <3>1, <3>2 DEF Earned, Judgement, Sufficient
    <3>4. ASSUME Judgement = "VERIFIED" PROVE Earned
      <4>1. ~handling /\ comparable /\ analysis = "completed" /\ BothCompleted /\ ~SomeGaps
        BY <3>4 DEF Judgement, Sufficient, Inv, Core, TypeOK
      <4> QED BY <4>1, <2>2 DEF Earned, RoleFiles, BothCompleted, SomeGaps
    <3> QED BY <3>3, <3>4
  <2>5. Judgement \in {"EXECUTION_FAILED", "INSUFFICIENT_EVIDENCE", "NOT_COMPARABLE",
                       "VERIFIED"}
    BY DEF Judgement
  <2> QED BY <2>1, <2>3, <2>4, <2>5 DEF Verdict
<1> QED BY <1>1, Invariant, PTL

(* What was measured stays: the records judged are those on disk, and when  *)
(* nothing fails, one interrupt of a run or of the comparison ends with a   *)
(* published result and 130.                                                *)
THEOREM RecordsAreRetained == Spec => []RecordsRetained
<1>1. Inv => SavedDurable
  <2> SUFFICES ASSUME Inv PROVE SavedDurable
    OBVIOUS
  <2>1. \A i \in 1 .. Len(saved) : files[Roles[i]] = saved[i] /\ saved[i] # Absent
    BY Kinds DEF Inv, Core, SavedInv, TypeOK
  <2>2. ASSUME pc \in {"run", "fill", "compare", "conclude"}, ~handling
        PROVE  Published = {Roles[i] : i \in 1 .. Len(saved)}
    <3>1. OnlySaved
      BY <2>2 DEF Inv, Core, SavedInv, Early
    <3>2. Len(saved) \in Nat /\ Len(saved) <= 2
      BY DEF Inv, Core, TypeOK
    <3>3. \A i \in 1 .. 2 : files[Roles[i]] # Absent <=> i <= Len(saved)
      BY <2>1, <2>2, <3>1, <3>2 DEF OnlySaved
    <3>4. RoleFiles = {Roles[i] : i \in 1 .. 2}
      BY NamesKnown DEF RoleFiles
    <3>5. Published = {Roles[i] : i \in {j \in 1 .. 2 : j <= Len(saved)}}
      BY <3>3, <3>4 DEF Published
    <3>6. {j \in 1 .. 2 : j <= Len(saved)} = 1 .. Len(saved)
      BY <3>2
    <3> QED BY <3>5, <3>6
  <2> QED BY <2>1, <2>2 DEF SavedDurable
<1>2. Inv => InterruptRetained
  <2> SUFFICES ASSUME Inv, landed \in {"run", "compare"}, handling, interrupts = 1,
                      faults = 0, pc = "done"
               PROVE  /\ exit = 130 /\ files["verification"] # Absent
                      /\ files["verification"].exit = 130
    BY DEF InterruptRetained, InterruptionRetained
  <2>1. exit = 130 /\ files["verification"] # Absent
    BY DEF Inv, Core, Calm, Quiet
  <2>2. files["verification"] = Manifest
    BY <2>1 DEF Inv, Core, Judged, Results
  <2> QED BY <2>1, <2>2, ManifestTyped DEF Inv, Core
<1> QED BY <1>1, <1>2, Invariant, PTL DEF RecordsRetained

(* What a step does to the directory: one file appears, by a write that is  *)
(* under way, or no file changes.                                          *)
LEMMA FilesAppear ==
  ASSUME Core, [Next]_vars
  PROVE  \/ files' = files
         \/ /\ writing.step = "publish" /\ files[writing.name] = Absent
            /\ files' = [files EXCEPT ![writing.name] = writing.value]
            /\ exit' = exit /\ pc # "done"
<1>1. CASE WriteOn
  BY <1>1 DEF WriteOn, WriteStep, Create, FillFails, Publish, Discard, Vacant
<1>2. CASE Interrupt
  BY <1>2 DEF Interrupt, InterruptWrite, directory
<1>3. CASE [Next]_vars /\ ~WriteOn /\ ~Interrupt
  BY <1>3 DEF Next, vars, Start, Run, RunRaises, Unserializable, WriteRaises, SinkReturns,
              AppendSaved, Compare, Fill, Filled, Conclude, Persist, Report, Finished,
              directory
<1> QED BY <1>1, <1>2, <1>3

(* When a status is set, it is the one of the result, or of no evidence.    *)
LEMMA StatusEarned ==
  ASSUME Inv, [Next]_vars, ~Deferred, exit' # exit
  PROVE  /\ exit = Running /\ exit' \in {0, 1, 2, 3, 4, 5, 130} /\ files' = files
         /\ exit' \in {0, 1, 3, 4} =>
              files["verification"] # Absent /\ files["verification"].exit = exit'
<1>0. pc # "done" /\ exit = Running
  BY StutterKeeps DEF Inv, Core, TypeOK, Next, vars, Start, Run, RunRaises, Unserializable, WriteOn,
     WriteRaises, SinkReturns, AppendSaved, Compare, Fill, Filled, Conclude, Persist, Report,
     Interrupt, Finished
<1>1. ASSUME NEW error \in {"os", "interrupt", "value"}, Escapes(error)
      PROVE  exit' \in {2, 5, 130}
  BY <1>1 DEF Escapes, EscapeCode
<1>2. ASSUME NEW error \in {"os", "interrupt", "value"}, Raise(error)
      PROVE  exit' \in {2, 5, 130}
  BY <1>1, <1>2 DEF Raise, Handles
<1>3. CASE Report
  <2>1. manifest = Manifest /\ files["verification"] = manifest /\ manifest # Absent
    BY <1>3, Kinds DEF Report, Inv, Core, Judged, Ordered, Results, Leaving
  <2>2. manifest.exit \in {0, 1, 3, 4, 5, 130}
    BY <2>1, ManifestTyped DEF Inv, Core, Manifests
  <2> QED BY <1>0, <1>3, <2>1, <2>2 DEF Report
<1>4. CASE ~Report
  <2>1. exit' \in {2, 5, 130}
    BY <1>1, <1>2, <1>4 DEF Next, vars, Start, Run, RunRaises, Unserializable, WriteOn,
       WriteRaises, SinkReturns, AppendSaved, Compare, Fill, Filled, Conclude, Persist,
       Interrupt, Finished, Goes
  <2>2. files' = files
    BY FilesAppear DEF Inv
  <2> QED BY <1>0, <2>1, <2>2
<1> QED BY <1>3, <1>4

(* The verifier implements EvidenceBundle, when it publishes its result     *)
(* itself: every step of it publishes one file, ends with a status the      *)
(* published files bear out, or does not touch the bundle.                  *)
THEOREM BundleIsKept ==
  ASSUME ~Deferred
  PROVE  Spec => KeepsBundle
<1> DEFINE Files == {"reference", "candidate", "report", "manifest", "verification"}
           View  == [n \in Files |-> files[n]]
<1>n. /\ Files \subseteq Names /\ Absent = Bundle!Absent /\ Running = Bundle!Running
      /\ Files = Bundle!BundleFiles
  BY StudyVerificationAssumption
     DEF Bundle!BundleFiles, Bundle!Absent, Bundle!Running, Absent, Running, RoleFiles
<1>1. Init => Bundle!Init
  BY <1>n DEF Init, Bundle!Init
<1>2. Inv /\ [Next]_vars => [Bundle!Next]_(Bundle!bundle)
  <2> SUFFICES ASSUME Inv, [Next]_vars PROVE [Bundle!Next]_(Bundle!bundle)
    OBVIOUS
  <2>1. CASE files' = files /\ exit' = exit
    BY <2>1 DEF Bundle!bundle
  <2>2. CASE exit' # exit
    <3>1. Bundle!End
      BY <1>n, <2>2, StatusEarned DEF Bundle!End
    <3> QED BY <3>1 DEF Bundle!Next
  <2>3. CASE files' # files /\ exit' = exit
    <3>1. /\ writing.step = "publish" /\ files[writing.name] = Absent
          /\ files' = [files EXCEPT ![writing.name] = writing.value] /\ exit = Running
      BY <2>3, FilesAppear DEF Inv, Core, TypeOK
    <3>2. /\ writing.name \in Names
          /\ writing.name = "verification" => pc = "verification" /\ writing.value = manifest
      <4>1. pc = "sink" => writing.name \in {"reference", "candidate"}
        BY <3>1, WriteNames DEF Inv, RoleFiles
      <4> QED BY <3>1, <4>1, WriteNames DEF Inv
    <3>3. /\ files'[writing.name] = writing.value
          /\ \A n \in Names : n # writing.name => files'[n] = files[n]
      BY <3>1, <3>2 DEF Inv, Core, TypeOK
    <3>4. CASE writing.name \notin Files
      <4>1. View' = View BY <1>n, <3>3, <3>4
      <4> QED BY <2>3, <4>1, <1>n DEF Bundle!bundle
    <3>5. CASE writing.name \in Files
      <4>1. View' = [View EXCEPT ![writing.name] = View'[writing.name]]
        BY <1>n, <3>3, <3>5
      <4>2. writing.name = "verification" => Bundle!Whole(View')
        <5> SUFFICES ASSUME writing.name = "verification" PROVE Bundle!Whole(View')
          OBVIOUS
        <5>1. /\ files["report"] = manifest /\ files["manifest"] = manifest
              /\ manifest = Manifest /\ Len(saved) = 2
          BY <3>2, Kinds DEF Inv, Core, Ordered, Judged, Results, Leaving
        <5>2. manifest.records = saved
          BY <5>1, ManifestTyped DEF Inv, Core
        <5>3. saved = <<files["reference"], files["candidate"]>>
          BY <5>1, NamesKnown DEF Inv, Core, SavedInv, TypeOK
        <5> QED BY <1>n, <3>2, <3>3, <5>1, <5>2, <5>3 DEF Bundle!Whole
      <4>3. View[writing.name] = Bundle!Absent
        BY <3>1, <3>5, <1>n
      <4> QED BY <1>n, <2>3, <3>1, <3>5, <4>1, <4>2, <4>3 DEF Bundle!Next, Bundle!Publish
    <3> QED BY <3>4, <3>5
  <2> QED BY <2>1, <2>2, <2>3
<1> QED BY <1>1, <1>2, Invariant, PTL DEF Spec, KeepsBundle, Bundle!Spec

-----------------------------------------------------------------------------
Contents == {Absent} \union RunFiles \union Manifests
Writes   == [step : Steps, name : Names \union {"none"}, value : Contents, error : Errors]

(* The child publishes no file of the result: it leaves a receipt.          *)
Deferring ==
  /\ Deferred
  /\ pc \notin Results \union {"print"} /\ exit # 2
  /\ \A n \in Results : files[n] = Absent /\ n \notin temps
  /\ files["worker-result"] \in {Absent, manifest}

(* The candidate follows the reference.  A record of a run that never began *)
(* (cancelled) follows one that was interrupted.                            *)
Told ==
  /\ \A r \in RoleFiles : files[r] \in {Absent} \union RunFiles
  /\ handling => firstMissing \in 1 .. Len(saved) + 1
  /\ handling /\ firstMissing = 1 =>
       /\ Len(saved) > 0 => saved[1].status = "interrupted"
       /\ Len(saved) = 0 /\ pc \in {"sink", "append"} =>
            writing.value.status = "interrupted"
  /\ pc \in {"sink", "append"} /\ writing.value.status = "cancelled" =>
       Len(saved) > 0 /\ saved[1].status = "interrupted"
  /\ files["candidate"] # Absent =>
       /\ Len(saved) > 0
       /\ files["candidate"].status = "cancelled" => saved[1].status = "interrupted"

ChildInv == Core /\ Deferring /\ Told

-----------------------------------------------------------------------------
Before == Waits \union {"mkdir"}

(* While the supervisor waits, only the child touches the directory.        *)
Awaiting ==
  /\ ChildInv
  /\ data = Absent /\ own = Idle /\ ~interrupted /\ ~timedOut
  /\ at \in {"mkdir", "invoke"} => worker = "none"
  /\ at = "receipt" =>
       worker = "gone" /\ returncode = IF pc = "done" THEN exit ELSE Stopped

(* What the child saved stays, and the records tell how the worker ended.   *)
Explained == {"failed", "timed_out", "interrupted"}
Kept ==
  /\ \A i \in 1 .. Len(saved) : files[Roles[i]] = saved[i]
  /\ \A r \in RoleFiles : files[r] \in {Absent} \union RunFiles
  /\ files["candidate"] # Absent =>
       /\ files["reference"] # Absent
       /\ files["candidate"].status = "cancelled" =>
            files["reference"].status \in Explained

(* What the supervisor is writing.                                         *)
OwnWrite ==
  /\ at = "fill" =>
       /\ own.name \in RoleFiles /\ own.value \in RunFiles
       /\ own.name = "reference" => own.value.status \in Explained
       /\ own.name = "candidate" =>
            /\ files["reference"] # Absent
            /\ own.value.status = "cancelled" => files["reference"].status \in Explained
  /\ at \in Publishing => own.name = at /\ own.value = data
  /\ own.step \in {"create", "publish"} => own.error = "none" /\ files[own.name] = Absent
  /\ own.step \in {"discard", "over"} /\ own.error = "none" => files[own.name] = own.value

(* The result goes out in order, and is made of the records on disk: it is  *)
(* the receipt of a child that ended with it, or failure evidence.          *)
Sent ==
  /\ at \in {"partial", "fill"} => data = Absent
  /\ at \in {"unlink", "print"} \union Publishing => data # Absent
  /\ \A n \in Results : files[n] \in {Absent, data}
  /\ at \in {"partial", "fill", "unlink"} => \A n \in Results : files[n] = Absent
  /\ at = "report" => files["manifest"] = Absent /\ files["verification"] = Absent
  /\ at = "manifest" => files["report"] = data /\ files["verification"] = Absent
  /\ at = "verification" => files["report"] = data /\ files["manifest"] = data
  /\ at = "print" => files["verification"] = data

Failed ==
  /\ data.verdict = "EXECUTION_FAILED" /\ data.exit = IF interrupted THEN 130 ELSE 5
Taken ==
  /\ pc = "done" /\ manifest = data /\ exit = data.exit
  /\ ~timedOut /\ ~interrupted
  /\ data.exit \in {0, 1} => \A r \in RoleFiles : files[r].status = "completed"
Sound ==
  data # Absent =>
    /\ data.records = Records /\ files["reference"] # Absent /\ files["candidate"] # Absent
    /\ Failed \/ Taken

(* When nothing disturbs the supervisor, only a temporary file of the child *)
(* can stop a write.                                                       *)
Smooth ==
  /\ interrupted => stops > 0
  /\ Undisturbed =>
       /\ own.error # "none" => Torn /\ own.step = "over"
       /\ temps \intersect Results =
            IF own.step \in {"publish", "discard"} THEN {own.name} \intersect Results ELSE {}
       /\ at = "done" /\ worker = "gone" /\ ~Torn =>
            files["verification"] # Absent /\ status = files["verification"].exit

Succeeding == TypeOK /\ worker # "running" /\ Kept /\ OwnWrite /\ Sent /\ Sound /\ Smooth

SInv ==
  /\ TypesKept
  /\ at \in Before => Awaiting
  /\ at \notin Before => Succeeding

-----------------------------------------------------------------------------
(* The child.                                                              *)

LEMMA Places ==
  /\ Results \subseteq Names /\ "worker-result" \in Names /\ "none" \notin Names
  /\ "reference" \in Names /\ "candidate" \in Names
  /\ Roles[1] = "reference" /\ Roles[2] = "candidate" /\ RoleFiles \subseteq Names
  BY IsolatedWorkerAssumption, StudyVerificationAssumption, NamesKnown
  DEF Results, RoleFiles, Leaving

LEMMA Lengths ==
  ASSUME TypeOK
  PROVE  saved \in Seq(RunFiles) /\ Len(saved) \in {0, 1, 2}
<1>1. \A n \in Nat : n <= 2 => n \in {0, 1, 2}
  OBVIOUS
<1>2. saved \in Seq(RunFiles) /\ Len(saved) \in Nat /\ Len(saved) <= 2
  BY DEF TypeOK
<1> QED BY <1>1, <1>2

(* What the child writes: a role file while it saves, or its receipt.       *)
LEMMA ChildWrites ==
  ASSUME Core, Deferring, writing.step \in {"create", "publish", "discard"}
  PROVE  /\ writing.name \in Names \ Results
         /\ \/ /\ pc = "sink" /\ writing.name = Roles[Len(saved) + 1]
               /\ Len(saved) \in {0, 1} /\ writing.value \in RunFiles
            \/ /\ pc = "worker-result" /\ writing.name = "worker-result"
               /\ writing.value = manifest
<1>1. writing.name \in Names
  BY WriteNames
<1>2. CASE pc = "sink"
  BY <1>1, <1>2, WriteNames DEF RoleFiles, Results, Leaving
<1>3. CASE pc \in Leaving
  BY <1>1, <1>3, WriteNames DEF Leaving, Results, Deferring
<1> QED BY <1>2, <1>3, WriteNames

LEMMA TempsGrow ==
  ASSUME Core, Deferring, [Next]_vars
  PROVE  \A n \in Results : n \in temps' => n \in temps
<1>1. CASE WriteOn
  <2>1. \/ temps' = temps
        \/ writing.step = "create" /\ temps' = temps \union {writing.name}
        \/ temps' = temps \ {writing.name}
    BY <1>1 DEF WriteOn, WriteStep, Create, FillFails, Publish, Discard
  <2> QED BY <2>1, ChildWrites
<1>2. CASE Interrupt
  <2>1. \/ temps' = temps
        \/ writing.step = "create" /\ temps' = temps \union {writing.name}
    BY <1>2 DEF Interrupt, InterruptWrite, directory
  <2> QED BY <2>1, ChildWrites
<1>3. CASE ~WriteOn /\ ~Interrupt
  BY <1>3 DEF Next, vars, Start, Run, RunRaises, Unserializable, WriteRaises, SinkReturns,
              AppendSaved, Compare, Fill, Filled, Conclude, Persist, Report, Finished,
              directory
<1> QED BY <1>1, <1>2, <1>3

(* The child never publishes its result, so none of its files appears and   *)
(* the receipt is the manifest.                                            *)
LEMMA DeferringKept ==
  ASSUME Core, Deferring, Next
  PROVE  Deferring'
<1>d. Deferred
  BY DEF Deferring
<1>e. ASSUME NEW error \in {"os", "interrupt", "value"}, Raise(error)
      PROVE  pc' \in {"done", "fill"} /\ (exit' = exit \/ exit' \in {-2, 1})
  BY <1>d, <1>e, Places DEF Raise, Handles, Escapes, EscapeCode
<1>s. ASSUME Start
      PROVE  pc' \in {"done", "run"} /\ (exit' = exit \/ exit' \in {-2, 1})
  BY <1>d, <1>s, Places DEF Start, Goes, Escapes, EscapeCode
<1>r. ASSUME RunRaises
      PROVE  pc' \in {"done"} /\ exit' \in {-2, 1}
  BY <1>d, <1>r, Places DEF RunRaises, Escapes, EscapeCode
<1>i. ASSUME Interrupt
      PROVE  pc' \in {pc, "done", "fill"} /\ (exit' = exit \/ exit' \in {-2, 1})
  BY <1>i, <1>e DEF Interrupt
<1>m. ASSUME Unserializable \/ WriteRaises
      PROVE  pc' \in {"done", "fill"} /\ (exit' = exit \/ exit' \in {-2, 1})
  BY <1>m, <1>e DEF Unserializable, WriteRaises
<1>c. ASSUME Conclude
      PROVE  pc' = "worker-result" /\ exit' = exit
  BY <1>d, <1>c, Places DEF Conclude, Goes
<1>o. ASSUME Run \/ WriteOn \/ SinkReturns \/ AppendSaved \/ Compare \/ Fill \/ Filled
             \/ Finished
      PROVE  pc' \in {pc, "sink", "append", "fill", "compare", "run", "conclude"} /\ exit' = exit
  BY <1>o DEF Run, WriteOn, SinkReturns, AppendSaved, Compare, Fill, Filled, Finished, vars,
     Goes
<1>1. pc' \notin Results \union {"print"} /\ exit' # 2
  BY <1>s, <1>r, <1>i, <1>m, <1>c, <1>o DEF Deferring, Results, Next, Persist, Report
<1>2. \A n \in Results : files'[n] = Absent /\ n \notin temps'
  <2>1. \A n \in Results : files'[n] = files[n]
    BY FilesAppear, ChildWrites, Places DEF Core, TypeOK
  <2> QED BY <2>1, TempsGrow DEF Deferring
<1>3. files'["worker-result"] \in {Absent, manifest'}
  <2>1. files["worker-result"] # Absent => manifest' = manifest
    BY DEF Core, Ordered, Early, Next, vars, Start, Run, RunRaises, Unserializable, WriteOn,
       WriteRaises, SinkReturns, AppendSaved, Compare, Fill, Filled, Conclude, Persist,
       Report, Interrupt, Finished, judgement
  <2>2. CASE files' = files
    BY <2>1, <2>2 DEF Deferring
  <2>3. CASE writing.step = "publish" /\ files' = [files EXCEPT ![writing.name] = writing.value]
    <3>1. pc # "conclude"
      BY <2>3, ChildWrites
    <3>2. manifest' = manifest
      BY <3>1 DEF Next, vars, Start, Run, RunRaises, Unserializable, WriteOn,
         WriteRaises, SinkReturns, AppendSaved, Compare, Fill, Filled, Conclude, Persist,
         Report, Interrupt, Finished, judgement
    <3>3. CASE pc = "sink"
      <4>1. writing.name \in RoleFiles
        BY <2>3, <3>3, WriteNames
      <4> QED BY <2>3, <3>2, <4>1, Places DEF Deferring, RoleFiles, Core, TypeOK
    <3>4. CASE pc = "worker-result"
      BY <2>3, <3>2, <3>4, ChildWrites, Places DEF Deferring, Core, TypeOK
    <3> QED BY <2>3, <3>3, <3>4, ChildWrites
  <2> QED BY <2>2, <2>3, FilesAppear
<1> QED BY <1>1, <1>2, <1>3 DEF Deferring

(* A step of a write keeps what is written; Publish adds a role file that   *)
(* tells no more than the write did.                                       *)
LEMMA WriteTold ==
  ASSUME ChildInv, [Next]_vars, WriteOn \/ (Interrupt /\ InterruptWrite /\ pc' = pc),
         UNCHANGED study
  PROVE  Told'
<1> USE Places DEF study
<1>0. TypeOK /\ Len(saved) \in {0, 1, 2} /\ pc' = pc
  BY Lengths DEF ChildInv, Core, WriteOn
<1>1. writing'.value = writing.value
  <2>1. writing \in Writes /\ writing.error \in Errors
    BY <1>0 DEF TypeOK, Writes, Contents
  <2> QED BY <2>1, TurnsFacts, <1>0 DEF WriteOn, WriteStep, Create, FillFails, Publish, Discard,
             InterruptWrite, Keeps, Turns, TypeOK
<1>2. CASE files' = files
  BY <1>0, <1>1, <1>2 DEF ChildInv, Told
<1>3. CASE writing.step = "publish" /\ files' = [files EXCEPT ![writing.name] = writing.value]
  <2>1. CASE pc = "sink"
    <3>1. /\ writing.name = Roles[Len(saved) + 1] /\ Len(saved) \in {0, 1}
          /\ writing.value \in RunFiles
      BY <1>3, <2>1, ChildWrites DEF ChildInv
    <3>2. \A r \in RoleFiles : files'[r] = IF r = writing.name THEN writing.value ELSE files[r]
      BY <1>3, <1>0 DEF TypeOK
    <3>3. CASE Len(saved) = 0
      BY <1>0, <1>1, <2>1, <3>1, <3>2, <3>3 DEF ChildInv, Told, RoleFiles
    <3>4. CASE Len(saved) = 1
      BY <1>0, <1>1, <2>1, <3>1, <3>2, <3>4 DEF ChildInv, Told, RoleFiles
    <3> QED BY <3>1, <3>3, <3>4
  <2>2. CASE pc = "worker-result"
    <3>1. \A r \in RoleFiles : files'[r] = files[r]
      BY <1>0, <1>3, <2>2, ChildWrites DEF RoleFiles, TypeOK, ChildInv
    <3> QED BY <1>0, <1>1, <2>2, <3>1 DEF ChildInv, Told, RoleFiles
  <2> QED BY <1>3, <2>1, <2>2, ChildWrites DEF ChildInv
<1> QED BY <1>2, <1>3, FilesAppear DEF ChildInv

(* Where nothing is saved and no save is under way there is nothing to tell. *)
LEMMA QuietTold ==
  ASSUME Told, UNCHANGED <<files, saved, handling, firstMissing>>,
         pc' \notin {"sink", "append"}
  PROVE  Told'
  BY DEF Told

LEMMA RaiseTold ==
  ASSUME ChildInv, NEW error, Raise(error), UNCHANGED files
  PROVE  Told'
<1>1. CASE Escapes(error)
  BY <1>1, QuietTold DEF ChildInv, Escapes, study
<1>2. CASE Handles
  <2>1. Len(saved) \in {0, 1, 2}
    BY Lengths DEF ChildInv, Core
  <2> QED BY <1>2, <2>1 DEF ChildInv, Handles, Told
<1> QED BY <1>1, <1>2 DEF Raise

LEMMA ToldKept ==
  ASSUME ChildInv, Next
  PROVE  Told'
<1>0. Len(saved) \in {0, 1, 2} /\ saved \in Seq(RunFiles)
  BY Lengths DEF ChildInv, Core
<1>1. CASE Start
  BY <1>1, QuietTold DEF ChildInv, Start, Goes, Escapes, study, directory
<1>2. CASE Run
  <2>1. PICK r \in Outcomes, gaps \in BOOLEAN : Begins(Roles[Len(saved) + 1], Saved(r, gaps))
    BY <1>2 DEF Run
  <2>2. r \in RunRecord
    BY StudyVerificationAssumption DEF Unlaunched, Launched
  <2>3. writing'.value.status # "cancelled" /\ ~handling
    BY <1>2, <2>1, <2>2 DEF Begins, Saved, RunRecord, Run, ChildInv, Core, SavedInv
  <2> QED BY <1>2, <2>3 DEF ChildInv, Run, study, directory, Told
<1>3. CASE RunRaises
  BY <1>3, QuietTold DEF ChildInv, RunRaises, Escapes, study, directory
<1>4. CASE Unserializable \/ WriteRaises
  BY <1>4, RaiseTold DEF Unserializable, WriteRaises, directory
<1>5. CASE WriteOn
  BY <1>5, WriteTold DEF WriteOn
<1>6. CASE SinkReturns
  BY <1>6 DEF SinkReturns, ChildInv, Told, study, directory
<1>7. CASE AppendSaved
  <2>1. /\ Len(saved') = Len(saved) + 1 /\ saved'[Len(saved) + 1] = writing.value
        /\ \A i \in 1 .. Len(saved) : saved'[i] = saved[i]
    BY <1>0, <1>7 DEF AppendSaved, ChildInv, Core, WriteInv
  <2>2. Len(saved) \in {0, 1} /\ writing.name = Roles[Len(saved) + 1] /\ pc = "append"
        /\ files[Roles[Len(saved) + 1]] = writing.value /\ writing.value \in RunFiles
    BY <1>0, <1>7 DEF AppendSaved, ChildInv, Core, WriteInv, Written
  <2>3. pc' \in {"fill", "compare", "run"} /\ UNCHANGED <<files, handling, firstMissing>>
    BY <1>7 DEF AppendSaved, Goes, directory
  <2>4. CASE Len(saved) = 0
    BY <2>1, <2>2, <2>3, <2>4 DEF ChildInv, Told
  <2>5. CASE Len(saved) = 1
    BY <2>1, <2>2, <2>3, <2>5 DEF ChildInv, Told
  <2> QED BY <2>2, <2>4, <2>5
<1>8. CASE Compare \/ Filled \/ Conclude
  BY <1>8, QuietTold DEF ChildInv, Compare, Filled, Conclude, Goes, study, directory
<1>9. CASE Fill
  <2>1. /\ writing'.value = Lost(Missing) /\ handling /\ Len(saved) \in {0, 1}
        /\ UNCHANGED <<files, saved, handling, firstMissing>>
    BY <1>0, <1>9 DEF Fill, Begins, ChildInv, Core, SavedInv, study, directory
  <2>2. Lost(Missing).status = Missing
    BY DEF Lost
  <2>3. firstMissing \in 1 .. Len(saved) + 1
    BY <2>1 DEF ChildInv, Told
  <2>4. CASE Len(saved) = 0
    <3>1. Missing = "interrupted"
      BY <2>3, <2>4 DEF Missing
    <3> QED BY <2>1, <2>2, <2>4, <3>1 DEF ChildInv, Told
  <2>5. CASE Len(saved) = 1
    <3>1. Missing = "cancelled" => firstMissing = 1
      BY <2>3, <2>5 DEF Missing
    <3> QED BY <2>1, <2>2, <2>5, <3>1 DEF ChildInv, Told
  <2> QED BY <2>1, <2>4, <2>5
<1>10. CASE Interrupt
  <2>1. CASE InterruptWrite /\ UNCHANGED <<pc, study, exit>>
    BY <1>10, <2>1, WriteTold
  <2>2. CASE Raise("interrupt") /\ UNCHANGED directory
    BY <2>2, RaiseTold DEF directory
  <2> QED BY <1>10, <2>1, <2>2 DEF Interrupt
<1>11. CASE Finished
  BY <1>11 DEF Finished, vars, study, directory, ChildInv, Told
<1>12. ~Persist /\ ~Report
  BY DEF Persist, Report, ChildInv, Deferring, Results
<1> QED BY <1>1, <1>2, <1>3, <1>4, <1>5, <1>6, <1>7, <1>8, <1>9, <1>10, <1>11, <1>12 DEF Next

(* No step of the child breaks its invariant.                               *)
LEMMA ChildKeeps ==
  ASSUME ChildInv, Next
  PROVE  ChildInv'
  BY NextKeeps, DeferringKept, ToldKept DEF ChildInv

(* Nor does the end of its main program.                                   *)
LEMMA DeferKeeps ==
  ASSUME ChildInv, DeferResult
  PROVE  ChildInv'
<1> USE StudyVerificationAssumption DEF DeferResult, directory, study, judgement, signals
<1>1. manifest \in Manifests /\ manifest.exit \in {0, 1, 3, 4, 5, 130}
  BY DEF ChildInv, Core, Judged, TypeOK, Leaving, Manifests
<1>2. TypeOK'
  BY <1>1 DEF ChildInv, Core, TypeOK, Points, Idle, Steps, Errors, Running
<1>3. WriteInv' BY DEF WriteInv, Leaving, Idle
<1>4. SavedInv' BY DEF ChildInv, Core, SavedInv, Early
<1>5. Judged' BY Steady DEF ChildInv, Core, Judged, Early, Leaving
<1>6. Ordered' BY DEF ChildInv, Core, Ordered, Early
<1>7. Deferring' BY <1>1 DEF ChildInv, Deferring, Results
<1>8. Told' BY QuietTold DEF ChildInv
<1> QED BY <1>2, <1>3, <1>4, <1>5, <1>6, <1>7, <1>8 DEF ChildInv, Core

-----------------------------------------------------------------------------
(* The supervisor takes over.                                              *)

LEMMA IdleTyped == Idle \in Writes /\ Idle.step = "idle" /\ Idle.error = "none"
  BY DEF Idle, Writes, Contents, Steps, Errors

LEMMA InitSInv ==
  ASSUME Deferred, InitIsolated
  PROVE  SInv
<1> USE IsolatedWorkerAssumption, Places DEF InitIsolated
<1>1. Core /\ TypeOK /\ pc = "start"
  BY InitInv DEF Inv, Core, Init
<1>2. Deferring
  BY DEF Init, Deferring, Results, Running
<1>3. Told
  BY <1>1 DEF Told, Init, RoleFiles
<1>4. timedOut \in BOOLEAN /\ interrupted \in BOOLEAN
  BY Zenon
<1>5. own \in Writes /\ own.step = "idle"
  BY IdleTyped
<1>6. TypesKept
  BY <1>1, <1>4, <1>5 DEF TypesKept, Ways, Waits, Publishing, Running, Writes, Contents
<1>7. Awaiting
  BY <1>1, <1>2, <1>3 DEF Awaiting, ChildInv
<1> QED BY <1>6, <1>7 DEF SInv, Before

(* What the child leaves behind.                                           *)
LEMMA Legacy ==
  ASSUME ChildInv
  PROVE  /\ Kept
         /\ \A n \in Results : files[n] = Absent /\ n \notin temps
         /\ files["worker-result"] # Absent => files["worker-result"] = manifest
<1> USE Places
<1>1. TypeOK /\ Len(saved) \in {0, 1, 2} /\ saved \in Seq(RunFiles)
  BY Lengths DEF ChildInv, Core
<1>2. \A i \in 1 .. Len(saved) : files[Roles[i]] = saved[i] /\ saved[i] # Absent
  BY <1>1, Kinds DEF ChildInv, Core, SavedInv
<1>3. files["candidate"] # Absent =>
        /\ files["reference"] = saved[1] /\ saved[1] # Absent
        /\ files["candidate"].status = "cancelled" => saved[1].status = "interrupted"
  BY <1>1, <1>2 DEF ChildInv, Told
<1>4. Kept
  BY <1>2, <1>3 DEF Kept, ChildInv, Told, Explained
<1> QED BY <1>4 DEF ChildInv, Deferring

(* The supervisor moves on from waiting, or leaves the command.             *)
LEMMA TakesOver ==
  ASSUME Awaiting, TypesKept, TypeOK', at' \in {"partial", "unlink", "done"},
         UNCHANGED <<files, temps, child>>, own' = Idle, worker' # "running",
         at' = "unlink" <=> data' # Absent, data' # Absent => Sound',
         at' = "done" => worker' # "gone" \/ ~Undisturbed',
         interrupted' => stops' > 0
  PROVE  Succeeding'
<1> USE Places DEF child, study, judgement, signals
<1>1. Kept'
  BY Legacy DEF Awaiting, Kept
<1>2. OwnWrite'
  BY IdleTyped DEF OwnWrite, Publishing
<1>3. Sent'
  BY Legacy DEF Awaiting, Sent, Publishing
<1>4. Sound'
  BY DEF Sound
<1>5. Smooth'
  BY Legacy, IdleTyped DEF Awaiting, Smooth
<1> QED BY <1>1, <1>2, <1>3, <1>4, <1>5 DEF Succeeding

(* The child works while the supervisor waits, or is killed.                *)
LEMMA WorkKeeps ==
  ASSUME SInv, Work \/ DeferResult \/ Crash
  PROVE  SInv'
<1>0. at = "wait" /\ Awaiting /\ TypesKept
  BY DEF SInv, Before, Waits, TypesKept, Work, DeferResult, Crash
<1>1. CASE Work \/ DeferResult
  <2>1. ChildInv' /\ UNCHANGED <<at, outcome, interrupted, data, own, status, stops>>
    BY <1>0, <1>1, ChildKeeps, DeferKeeps DEF Work, DeferResult, parent, Awaiting
  <2>2. TypeOK'
    BY <2>1 DEF ChildInv, Core
  <2> QED BY <1>0, <2>1, <2>2 DEF SInv, TypesKept, Awaiting, outcome, Before, Waits
<1>2. CASE Crash
  <2>1. ChildInv' <=> ChildInv
    BY <1>2 DEF Crash, child, directory, study, judgement, signals, ChildInv, Core, TypeOK,
       WriteInv, Written, SavedInv, OnlySaved, Judged, Manifest, ExitCode, Verdict, Judgement,
       AnyFailed, Sufficient, BothCompleted, SomeGaps, Ordered, Deferring, Told
  <2>2. TypeOK'
    BY <1>0, <2>1 DEF Awaiting, ChildInv, Core
  <2> QED BY <1>0, <1>2, <2>1, <2>2 DEF SInv, TypesKept, Awaiting, Crash, Before, Waits
<1> QED BY <1>1, <1>2

(* A step of the supervisor that leaves the directory and the child alone   *)
(* leaves what is known of the child.                                      *)
LEMMA ChildSteady ==
  ASSUME UNCHANGED <<directory, child>>
  PROVE  (ChildInv' <=> ChildInv) /\ (TypeOK' <=> TypeOK)
  BY DEF child, directory, study, judgement, signals, ChildInv, Core, TypeOK,
     WriteInv, Written, SavedInv, OnlySaved, Judged, Manifest, ExitCode, Verdict, Judgement,
     AnyFailed, Sufficient, BothCompleted, SomeGaps, Ordered, Deferring, Told

LEMMA MakeOutputKeeps ==
  ASSUME SInv, MakeOutput
  PROVE  SInv'
<1>0. at = "mkdir" /\ Awaiting /\ TypesKept /\ worker = "none"
  BY DEF SInv, Before, MakeOutput, Awaiting
<1>1. ChildInv' /\ TypeOK'
  BY <1>0, ChildSteady DEF MakeOutput, TypesKept, Awaiting
<1>2. TypesKept'
  BY <1>0, <1>1, IdleTyped DEF MakeOutput, Moves, Quits, TypesKept, outcome, Ways, Waits, Publishing,
     Running, Awaiting, Writes, Contents
<1>3. CASE at' = "invoke"
  BY <1>0, <1>1, <1>2, <1>3 DEF MakeOutput, Moves, Quits, Awaiting, SInv, Before, Waits, outcome
<1>4. CASE at' = "done"
  <2>1. UNCHANGED <<files, temps, child, worker, data, interrupted>> /\ own' = Idle
    BY <1>4 DEF MakeOutput, Moves, Quits, directory, outcome
  <2>2. Succeeding'
    BY <1>0, <1>1, <1>4, <2>1, TakesOver DEF Awaiting
  <2> QED BY <1>2, <1>4, <2>2 DEF SInv, Before, Waits
<1> QED BY <1>3, <1>4 DEF MakeOutput, Moves, Quits

LEMMA InvokeKeeps ==
  ASSUME SInv, Invoke
  PROVE  SInv'
<1>0. at = "invoke" /\ Awaiting /\ TypesKept /\ worker = "none"
  BY DEF SInv, Before, Waits, Invoke, Awaiting
<1>1. ChildInv' /\ TypeOK'
  BY <1>0, ChildSteady DEF Invoke, TypesKept, Awaiting
<1>2. TypesKept'
  BY <1>0, <1>1 DEF Invoke, Moves, TypesKept, Ways, Waits, Publishing
<1>3. CASE at' = "wait"
  BY <1>0, <1>1, <1>2, <1>3 DEF Invoke, Moves, Awaiting, SInv, Before, Waits
<1>4. CASE at' = "partial" /\ worker' = worker
  <2>1. UNCHANGED <<files, temps, child, data, interrupted>> /\ own' = own
    BY <1>4 DEF Invoke, Moves, directory
  <2>2. Succeeding'
    BY <1>0, <1>1, <1>4, <2>1, TakesOver DEF Awaiting
  <2> QED BY <1>2, <1>4, <2>2 DEF SInv, Before, Waits
<1> QED BY <1>3, <1>4 DEF Invoke, Moves

LEMMA ReturnedKeeps ==
  ASSUME SInv, Returned \/ ProcessFails
  PROVE  SInv'
<1>0. at = "wait" /\ Awaiting /\ TypesKept
  BY DEF SInv, Before, Waits, Returned, ProcessFails
<1>1. /\ ChildInv' /\ TypeOK' /\ worker' = "gone"
      /\ UNCHANGED <<files, temps, child, data, interrupted, own, status, stops>>
  BY <1>0, ChildSteady DEF Returned, ProcessFails, Moves, TypesKept, Awaiting, directory
<1>2. TypesKept'
  <2>1. exit # 2 /\ (pc = "done" => exit # Running) /\ exit \in {Running, -2, 0, 1, 2, 3, 4, 5, 130}
    BY <1>0 DEF Awaiting, ChildInv, Deferring, TypesKept, TypeOK
  <2>2. returncode' \in {Running, Stopped, -2, 0, 1, 3, 4, 5, 130} /\ timedOut' \in BOOLEAN
    BY <1>0, <2>1 DEF Returned, ProcessFails, TypesKept, Late
  <2> QED BY <1>0, <1>1, <2>2 DEF Returned, ProcessFails, Moves, TypesKept, Ways, Waits,
             Publishing
<1>3. CASE at' = "receipt"
  <2>1. ~timedOut' /\ returncode' = IF pc' = "done" THEN exit' ELSE Stopped
    BY <1>3, <1>1 DEF Returned, ProcessFails, Moves, child, Late
  <2> QED BY <1>0, <1>1, <1>2, <1>3, <2>1 DEF Awaiting, SInv, Before, Waits
<1>4. CASE at' = "partial"
  <2>2. Succeeding'
    BY <1>0, <1>1, <1>4, TakesOver DEF Awaiting
  <2> QED BY <1>2, <1>4, <2>2 DEF SInv, Before, Waits
<1> QED BY <1>3, <1>4 DEF Returned, ProcessFails, Moves

LEMMA Pair ==
  ASSUME NEW S, NEW q \in Seq(S), Len(q) = 2
  PROVE  q[1] \in S /\ q[2] \in S
<1>1. \A i \in 1 .. Len(q) : q[i] \in S
  OBVIOUS
<1> QED BY <1>1

(* A receipt that is believed is the manifest of a child that ended with    *)
(* its status: no status of a process is that of a stopped one.             *)
LEMMA BelievedTaken ==
  ASSUME Awaiting, TypesKept, at = "receipt", Believed(files["worker-result"])
  PROVE  /\ files["worker-result"] = manifest /\ manifest \in Manifests /\ manifest # Absent
         /\ pc = "done" /\ exit = manifest.exit /\ ~timedOut /\ ~interrupted
         /\ manifest.records = Records
         /\ files["reference"] # Absent /\ files["candidate"] # Absent
         /\ manifest.exit \in {0, 1} => \A r \in RoleFiles : files[r].status = "completed"
<1>1. files["worker-result"] = manifest /\ manifest # Absent
  BY Legacy DEF Awaiting, Believed
<1>2. manifest \in Manifests
  BY <1>1 DEF TypesKept, TypeOK
<1>3. manifest.exit \in {0, 1, 3, 4, 5, 130} /\ manifest.exit = returncode
  BY <1>1, <1>2 DEF Manifests, Believed
<1>4. pc = "done" /\ exit = manifest.exit
  BY <1>3 DEF Awaiting, Stopped
<1>5. manifest.records = Records
  BY <1>1 DEF Believed, Records
<1>6. /\ manifest.records \in Seq(RunFiles)
      /\ Records[1] = files["reference"] /\ Records[2] = files["candidate"]
      /\ Len(Records) = 2
  BY <1>2 DEF Manifests, Records
<1>7. Records[1] \in RunFiles /\ Records[2] \in RunFiles
  BY <1>5, <1>6, Pair
<1>8. files["reference"] # Absent /\ files["candidate"] # Absent
  BY <1>6, <1>7, Kinds
<1>9. manifest.exit \in {0, 1} => \A r \in RoleFiles : files[r].status = "completed"
  BY <1>1, <1>5, <1>6 DEF Believed, RoleFiles
<1> QED BY <1>1, <1>2, <1>4, <1>5, <1>8, <1>9 DEF Awaiting

LEMMA ReadReceiptKeeps ==
  ASSUME SInv, ReadReceipt
  PROVE  SInv'
<1>0. at = "receipt" /\ Awaiting /\ TypesKept /\ worker = "gone"
  BY DEF SInv, Before, Waits, ReadReceipt, Awaiting
<1>1. /\ TypeOK' /\ UNCHANGED <<files, temps, child, outcome, interrupted, stops, own, status>>
      /\ own' = Idle
  <2>1. faults' \in 0 .. MaxFaults
    BY <1>0, AtomicFilesAssumption DEF ReadReceipt, Works, Faults, TypesKept, TypeOK
  <2>2. UNCHANGED <<files, temps, child, outcome, interrupted, stops, own, status>>
    BY DEF ReadReceipt, Moves
  <2> QED BY <1>0, <2>1, <2>2
          DEF TypesKept, TypeOK, child, study, judgement, signals, Awaiting
<1>2. CASE /\ Believed(files["worker-result"]) /\ data' = files["worker-result"]
           /\ at' = "unlink"
  <2>1. Sound' /\ data' # Absent /\ data' \in Manifests
    BY <1>0, <1>1, <1>2, BelievedTaken
    DEF Sound, Taken, child, judgement, outcome, Records
  <2>2. TypesKept'
    BY <1>0, <1>1, <1>2, <2>1 DEF TypesKept, outcome, Ways, Waits, Publishing
  <2>3. Succeeding'
    BY <1>0, <1>1, <1>2, <2>1, TakesOver DEF Awaiting, outcome
  <2> QED BY <1>2, <2>2, <2>3 DEF SInv, Before, Waits
<1>3. CASE data' = data /\ at' = "partial"
  <2>1. TypesKept'
    BY <1>0, <1>1, <1>3 DEF TypesKept, outcome, Ways, Waits, Publishing
  <2>2. Succeeding'
    BY <1>0, <1>1, <1>3, TakesOver DEF Awaiting, outcome
  <2> QED BY <1>3, <2>1, <2>2 DEF SInv, Before, Waits
<1> QED BY <1>2, <1>3 DEF ReadReceipt, Moves

(* A stop while the supervisor waits, or before.                            *)
LEMMA StopBeforeKeeps ==
  ASSUME SInv, Stop, at \in Before
  PROVE  SInv'
<1> USE IsolatedWorkerAssumption
<1>0. Awaiting /\ TypesKept /\ own = Idle /\ stops' = stops + 1 /\ stops \in Nat
      /\ stops' \in 0 .. MaxStops
  BY DEF SInv, Stop, Awaiting, TypesKept
<1>1. /\ UNCHANGED <<files, temps, faults, child, data, returncode, timedOut>> /\ own' = Idle
      /\ worker' \in {"none", "gone", "running"} /\ worker' # "running"
      /\ IF at \in Waits THEN at' = "partial" /\ interrupted' = TRUE /\ status' = status
         ELSE at' = "done" /\ interrupted' = interrupted /\ status' = 130 /\ worker' = worker
  <2>1. own.step \notin {"create", "publish", "discard"}
    BY <1>0, IdleTyped
  <2> QED BY <1>0, <2>1 DEF Stop, Moves, Quits, directory, TypesKept, Waits
<1>2. TypeOK'
  BY <1>0, <1>1, ChildSteady DEF directory, TypesKept
<1>b. interrupted' \in BOOLEAN /\ timedOut' \in BOOLEAN
  BY <1>0, <1>1, Zenon DEF TypesKept
<1>3. TypesKept'
  <2>1. own' \in Writes /\ own'.step = "idle"
    BY <1>1, IdleTyped
  <2>2. /\ at' \in {"partial", "done"}
        /\ at' = "done" <=> status' # Running
        /\ status' \in {Running, 0, 1, 2, 3, 4, 5, 130}
    BY <1>0, <1>1 DEF TypesKept, Running, Before, Waits
  <2> QED BY <1>0, <1>1, <1>2, <1>b, <2>1, <2>2
          DEF TypesKept, Ways, Waits, Publishing, Writes, Contents
<1>4. Succeeding'
  BY <1>0, <1>1, <1>2, TakesOver DEF Before, Awaiting, Undisturbed
<1> QED BY <1>1, <1>3, <1>4 DEF SInv, Before, Waits

-----------------------------------------------------------------------------
(* The supervisor's own writes.                                            *)

LEMMA OwnFacts ==
  ASSUME SInv, at \notin Before
  PROVE  /\ Succeeding /\ TypesKept /\ own \in Writes
         /\ own.step # "idle" =>
              /\ own.name \in Names /\ own.name \in RoleFiles \union Results
              /\ at = "fill" => own.name \in RoleFiles
              /\ at \in Publishing => own.name = at
<1>1. Succeeding /\ TypesKept /\ own \in Writes
  BY DEF SInv, TypesKept, Writes, Contents
<1>2. ASSUME own.step # "idle"
      PROVE  /\ own.name \in Names /\ own.name \in RoleFiles \union Results
             /\ at = "fill" => own.name \in RoleFiles
             /\ at \in Publishing => own.name = at
  <2>1. at \in {"fill"} \union Publishing
    BY <1>1, <1>2 DEF TypesKept
  <2> QED BY <1>1, <2>1, Places DEF Succeeding, OwnWrite, Publishing, Results
<1> QED BY <1>1, <1>2

LEMMA OwnTurns ==
  ASSUME own \in Writes, NEW step \in Steps, NEW error \in Errors, Own!Turns(step, error)
  PROVE  /\ own' \in Writes /\ own'.step = step /\ own'.error = error
         /\ own'.name = own.name /\ own'.value = own.value
  BY DEF Writes, Own!Turns

(* The child's variables are typed whatever the supervisor does.            *)
LEMMA DirectoryTyped ==
  ASSUME TypeOK, UNCHANGED child, files' \in [Names -> Contents], temps' \subseteq Names,
         faults' \in 0 .. MaxFaults
  PROVE  TypeOK'
  BY DEF TypeOK, child, study, judgement, signals, Contents

(* A step of a write that publishes nothing.                                *)
LEMMA OwnStepKeeps ==
  ASSUME SInv, at \notin Before, own.step # "idle",
         UNCHANGED <<files, child, at, outcome, interrupted, data, status>>,
         own' \in Writes, own'.step \in {"publish", "discard", "over"},
         own'.name = own.name, own'.value = own.value,
         temps' \subseteq Names, faults' \in 0 .. MaxFaults, stops' \in 0 .. MaxStops,
         stops' >= stops,
         own'.step = "publish" => own.step = "create" /\ own'.error = "none",
         own'.step # "publish" /\ own'.error = "none" =>
           own.step = "discard" /\ own.error = "none",
         Undisturbed' =>
           /\ own'.error # "none" => Torn' /\ own'.step = "over"
           /\ temps' \intersect Results =
                IF own'.step \in {"publish", "discard"} THEN {own.name} \intersect Results
                ELSE {}
  PROVE  SInv'
<1>0. Succeeding /\ TypesKept /\ at \in {"fill"} \union Publishing
  BY OwnFacts DEF TypesKept
<1>1. TypeOK'
  BY <1>0, DirectoryTyped DEF TypesKept, TypeOK, Contents
<1>2. TypesKept'
  BY <1>0, <1>1 DEF TypesKept, outcome, Writes, Contents
<1>3. Kept'
  BY <1>0 DEF Succeeding, Kept, child, study
<1>4. OwnWrite'
  BY <1>0 DEF Succeeding, OwnWrite
<1>5. Sent'
  BY <1>0 DEF Succeeding, Sent
<1>6. Sound'
  BY <1>0 DEF Succeeding, Sound, Failed, Taken, Records, child, judgement, outcome
<1>7. Smooth'
  <2>1. interrupted' => stops' > 0
    BY <1>0 DEF Succeeding, Smooth, TypesKept
  <2>2. at' # "done"
    BY <1>0 DEF Publishing
  <2> QED BY <2>1, <2>2 DEF Smooth
<1>8. worker' # "running" /\ at' \notin Before
  BY <1>0 DEF outcome, Succeeding
<1> QED BY <1>1, <1>2, <1>3, <1>4, <1>5, <1>6, <1>7, <1>8 DEF SInv, Succeeding

(* Publishing: a record that was missing, or the next file of the result.   *)
LEMMA OwnPublishKeeps ==
  ASSUME SInv, at \notin Before, own.step = "publish", own.error = "none",
         files[own.name] = Absent,
         files' = [files EXCEPT ![own.name] = own.value],
         UNCHANGED <<temps, faults, child, at, outcome, interrupted, data, status, stops>>,
         own' \in Writes, own'.step = "discard", own'.error = "none",
         own'.name = own.name, own'.value = own.value
  PROVE  SInv'
<1> USE Places DEF Publishing
<1>0. /\ Succeeding /\ TypesKept /\ at \in {"fill"} \union Publishing
      /\ own.name \in Names /\ own.value \in Contents
      /\ at = "fill" => own.name \in RoleFiles
      /\ at \in Publishing => own.name = at /\ own.value = data
  BY OwnFacts DEF TypesKept, Writes, Succeeding, OwnWrite
<1>f. /\ files \in [Names -> Contents] /\ files' \in [Names -> Contents]
      /\ \A n \in Names : files'[n] = IF n = own.name THEN own.value ELSE files[n]
  BY <1>0 DEF TypesKept, TypeOK, Contents
<1>1. TypeOK'
  BY <1>0, <1>f, DirectoryTyped DEF TypesKept, TypeOK
<1>2. TypesKept'
  BY <1>0, <1>1 DEF TypesKept, outcome, Writes, Contents
<1>s. /\ Len(saved) \in {0, 1, 2} /\ saved \in Seq(RunFiles)
      /\ \A i \in 1 .. Len(saved) : saved[i] # Absent
  BY <1>0, Lengths, Kinds DEF TypesKept
<1>3. Kept'
  <2>1. \A i \in 1 .. Len(saved) : files[Roles[i]] = saved[i] /\ saved[i] # Absent
    BY <1>0, <1>s DEF Succeeding, Kept
  <2>2. \A i \in 1 .. Len(saved) : Roles[i] # own.name /\ Roles[i] \in Names
    BY <1>s, <2>1
  <2>3. \A i \in 1 .. Len(saved) : files'[Roles[i]] = saved'[i] /\ saved' = saved
    BY <1>f, <2>1, <2>2 DEF child, study
  <2>4. \A r \in RoleFiles : files'[r] \in {Absent} \union RunFiles
    BY <1>0, <1>f DEF Succeeding, Kept, OwnWrite, RoleFiles
  <2>5. files'["candidate"] # Absent =>
          /\ files'["reference"] # Absent
          /\ files'["candidate"].status = "cancelled" =>
               files'["reference"].status \in Explained
    BY <1>0, <1>f, Kinds DEF Succeeding, Kept, OwnWrite, RoleFiles
  <2> QED BY <2>3, <2>4, <2>5 DEF Kept, child, study
<1>4. OwnWrite'
  BY <1>0, <1>f, Kinds DEF Succeeding, OwnWrite, RoleFiles
<1>d. data' = data /\ at' = at
  OBVIOUS
<1>5. Sent'
  <2>1. CASE at = "fill"
    BY <1>0, <1>f, <2>1 DEF Succeeding, Sent, RoleFiles, Results
  <2>2. CASE at \in Publishing
    BY <1>0, <1>f, <2>2 DEF Succeeding, Sent, Results
  <2> QED BY <1>0, <2>1, <2>2
<1>6. Sound'
  <2>1. CASE data = Absent
    BY <2>1 DEF Sound
  <2>2. CASE data # Absent
    <3>1. files'["reference"] = files["reference"] /\ files'["candidate"] = files["candidate"]
      BY <1>0, <1>f, <2>2 DEF Succeeding, Sound
    <3> QED BY <1>0, <2>2, <3>1
            DEF Succeeding, Sound, Failed, Taken, Records, child, judgement, outcome, RoleFiles
  <2> QED BY <2>1, <2>2
<1>7. Smooth'
  BY <1>0 DEF Succeeding, Smooth, Undisturbed
<1>8. worker' # "running" /\ at' \notin Before
  BY <1>0 DEF outcome, Succeeding
<1> QED BY <1>1, <1>2, <1>3, <1>4, <1>5, <1>6, <1>7, <1>8 DEF SInv, Succeeding

(* One step of a write: it goes wrong where a system call fails, or where   *)
(* the child left its temporary file.                                      *)
LEMMA WriteOwnKeeps ==
  ASSUME SInv, at \notin Before, WriteOwn
  PROVE  SInv'
<1> USE Places, AtomicFilesAssumption
<1>0. /\ UNCHANGED <<child, at, outcome, interrupted, data, status, stops>>
      /\ Own!Create \/ Own!FillFails \/ Own!Publish \/ Own!Discard
  BY DEF WriteOwn, Own!WriteStep
<1>1. /\ own.step # "idle" /\ own \in Writes /\ Succeeding /\ TypesKept
      /\ own.name \in Names /\ own.name \in RoleFiles \union Results
      /\ own.error \in Errors
  BY <1>0, OwnFacts DEF Own!Create, Own!FillFails, Own!Publish, Own!Discard, Writes
<1>2. /\ faults \in 0 .. MaxFaults /\ temps \subseteq Names
      /\ stops \in 0 .. MaxStops /\ stops' = stops /\ stops' >= stops
  BY <1>0, <1>1 DEF TypesKept, TypeOK, Succeeding
<1>3. /\ Own!Works => faults' = faults
      /\ Own!Faults => faults' \in 0 .. MaxFaults /\ ~Undisturbed'
      /\ faults' = faults /\ Undisturbed' => Undisturbed
  BY <1>0, <1>2 DEF Own!Works, Own!Faults, Undisturbed
<1>c. CASE Own!Create
  <2>0. own.step = "create" /\ own.error = "none" /\ files[own.name] = Absent /\ files' = files
    BY <1>c, <1>1 DEF Own!Create, Succeeding, OwnWrite
  <2>1. CASE /\ own.name \notin temps /\ temps' = temps \union {own.name}
             /\ Own!Keeps("publish") /\ Own!Works
    <3>1. /\ own' \in Writes /\ own'.step = "publish" /\ own'.error = "none"
          /\ own'.name = own.name /\ own'.value = own.value
      BY <1>1, <2>0, <2>1, OwnTurns DEF Own!Keeps, Steps
    <3>2. Undisturbed' => temps' \intersect Results = {own.name} \intersect Results
      BY <1>1, <1>3, <2>0, <2>1 DEF Succeeding, Smooth
    <3> QED BY <1>0, <1>1, <1>2, <1>3, <2>0, <2>1, <3>1, <3>2, OwnStepKeeps
  <2>2. CASE /\ (own.name \in temps /\ Own!Works) \/ Own!Faults
             /\ temps' = temps /\ Own!Turns("over", "os")
    <3>1. /\ own' \in Writes /\ own'.step = "over" /\ own'.error = "os"
          /\ own'.name = own.name /\ own'.value = own.value
      BY <1>1, <2>2, OwnTurns DEF Steps, Errors
    <3>2. Undisturbed' => temps' \intersect Results = {} /\ Torn'
      <4> SUFFICES ASSUME Undisturbed' PROVE temps' \intersect Results = {} /\ Torn'
        OBVIOUS
      <4>1. Undisturbed /\ own.name \in temps
        BY <1>3, <2>2
      <4>2. temps \intersect Results = {} /\ own.name \in RoleFiles
        BY <1>1, <2>0, <4>1 DEF Succeeding, Smooth
      <4> QED BY <2>0, <2>2, <4>1, <4>2 DEF Torn
    <3> QED BY <1>0, <1>1, <1>2, <1>3, <2>0, <2>2, <3>1, <3>2, OwnStepKeeps
  <2> QED BY <1>c, <2>1, <2>2 DEF Own!Create
<1>f. CASE Own!FillFails
  <2>1. /\ own' \in Writes /\ own'.step = "discard" /\ own'.error = "os"
        /\ own'.name = own.name /\ own'.value = own.value
    BY <1>1, <1>f, OwnTurns DEF Own!FillFails, Steps, Errors
  <2> QED BY <1>0, <1>1, <1>2, <1>3, <1>f, <2>1, OwnStepKeeps DEF Own!FillFails
<1>p. CASE Own!Publish
  <2>0. own.step = "publish" /\ own.error = "none" /\ files[own.name] = Absent /\ temps' = temps
    BY <1>p, <1>1 DEF Own!Publish, Succeeding, OwnWrite
  <2>1. CASE /\ files' = [files EXCEPT ![own.name] = own.value]
             /\ Own!Keeps("discard") /\ Own!Works
    <3>1. /\ own' \in Writes /\ own'.step = "discard" /\ own'.error = "none"
          /\ own'.name = own.name /\ own'.value = own.value
      BY <1>1, <2>0, <2>1, OwnTurns DEF Own!Keeps, Steps
    <3> QED BY <1>0, <1>3, <2>0, <2>1, <3>1, OwnPublishKeeps
  <2>2. CASE /\ (files[own.name] # Own!Absent /\ Own!Works) \/ Own!Faults
             /\ files' = files /\ Own!Turns("discard", "os")
    <3>1. /\ own' \in Writes /\ own'.step = "discard" /\ own'.error = "os"
          /\ own'.name = own.name /\ own'.value = own.value
      BY <1>1, <2>2, OwnTurns DEF Steps, Errors
    <3>2. Own!Faults
      BY <2>0, <2>2 DEF Own!Absent, Absent
    <3> QED BY <1>0, <1>1, <1>2, <1>3, <2>0, <2>2, <3>1, <3>2, OwnStepKeeps
  <2> QED BY <1>p, <2>1, <2>2 DEF Own!Publish
<1>d. CASE Own!Discard
  <2>0. own.step = "discard" /\ files' = files
    BY <1>d DEF Own!Discard
  <2>1. /\ own' \in Writes /\ own'.step = "over" /\ own'.error = own.error
        /\ own'.name = own.name /\ own'.value = own.value
    BY <1>1, <1>d, OwnTurns DEF Own!Discard, Own!Keeps, Steps
  <2>2. faults' \in 0 .. MaxFaults /\ temps' \subseteq Names
    BY <1>2, <1>3, <1>d DEF Own!Discard
  <2>3. Undisturbed' => /\ own.error = "none" /\ temps' = temps \ {own.name}
                        /\ temps' \intersect Results = {}
    BY <1>1, <1>3, <1>d, <2>0 DEF Own!Discard, Succeeding, Smooth
  <2> QED BY <1>0, <1>1, <1>2, <2>0, <2>1, <2>2, <2>3, OwnStepKeeps
<1> QED BY <1>0, <1>c, <1>f, <1>p, <1>d

(* A stop after the try block: it unwinds through a write, or leaves.       *)
LEMMA StopAfterKeeps ==
  ASSUME SInv, at \notin Before, Stop
  PROVE  SInv'
<1> USE Places, AtomicFilesAssumption, IsolatedWorkerAssumption
<1>0. /\ Succeeding /\ TypesKept /\ own \in Writes
      /\ own.step # "idle" => own.name \in Names
  BY OwnFacts
<1>1. /\ stops' = stops + 1 /\ stops' \in 0 .. MaxStops /\ stops' >= stops /\ ~Undisturbed'
      /\ UNCHANGED <<child, returncode, timedOut, data, worker, interrupted>>
      /\ faults \in 0 .. MaxFaults /\ temps \subseteq Names /\ files \in [Names -> Contents]
  <2>1. stops' = stops + 1 /\ UNCHANGED <<child, returncode, timedOut, data, worker, interrupted>>
    BY DEF Stop, Before, Moves
  <2>2. stops \in Nat /\ stops' \in 0 .. MaxStops
    BY <1>0, <2>1 DEF Stop, TypesKept
  <2>3. interrupted => stops > 0
    BY <1>0 DEF Succeeding, Smooth
  <2> QED BY <1>0, <2>1, <2>2, <2>3 DEF Undisturbed, Succeeding, TypeOK, Contents
<1>2. CASE own.step \in {"create", "publish", "discard"}
  <2>1. Own!InterruptWrite /\ UNCHANGED <<at, status>>
    BY <1>2 DEF Stop, Before
  <2>2. /\ own' \in Writes /\ own'.step \in {"discard", "over"} /\ own'.error = "interrupt"
        /\ own'.name = own.name /\ own'.value = own.value
    BY <1>0, <2>1, OwnTurns DEF Own!InterruptWrite, Steps, Errors
  <2>3. UNCHANGED <<files, faults>> /\ temps' \subseteq Names
    BY <1>0, <1>1, <1>2, <2>1 DEF Own!InterruptWrite
  <2> QED BY <1>1, <1>2, <2>1, <2>2, <2>3, OwnStepKeeps DEF outcome
<1>3. CASE own.step \notin {"create", "publish", "discard"}
  <2>1. at' = "done" /\ status' = 130 /\ own' = Idle /\ UNCHANGED directory
    BY <1>3 DEF Stop, Before, Quits
  <2>2. TypeOK'
    BY <1>0, <1>1, <2>1, ChildSteady DEF TypesKept
  <2>3. TypesKept'
    <3>1. own' \in Writes /\ own'.step = "idle"
      BY <2>1, IdleTyped
    <3>2. interrupted' \in BOOLEAN /\ timedOut' \in BOOLEAN
      BY <1>0, <1>1, Zenon DEF TypesKept
    <3>3. /\ worker' \in {"none", "running", "gone"} /\ worker' # "running"
          /\ returncode' \in {Running, Stopped, -2, 0, 1, 3, 4, 5, 130}
          /\ data' \in {Absent} \union Manifests
      BY <1>0, <1>1 DEF TypesKept, Succeeding
    <3> QED BY <1>1, <2>1, <2>2, <3>1, <3>2, <3>3
            DEF TypesKept, Ways, Waits, Publishing, Running, Writes, Contents
  <2>4. Kept' /\ Sound'
    BY <1>0, <1>1, <2>1
    DEF Succeeding, Kept, Sound, Failed, Taken, Records, child, study, judgement, directory
  <2>5. OwnWrite' /\ Sent' /\ Smooth'
    BY <1>0, <1>1, <2>1, IdleTyped
    DEF Succeeding, OwnWrite, Sent, Smooth, Publishing, directory, TypesKept
  <2> QED BY <1>0, <1>1, <2>1, <2>2, <2>3, <2>4, <2>5 DEF SInv, Succeeding, Before, Waits
<1> QED BY <1>2, <1>3

-----------------------------------------------------------------------------
(* Failure evidence.                                                       *)

LEMMA LostTold ==
  /\ Lost(Ending) \in RunFiles /\ Lost(Ending).status \in Explained
  /\ Lost("cancelled") \in RunFiles
  BY DEF Lost, Ending, RunFiles, Explained

(* Beginning a write.                                                      *)
LEMMA OwnBegins ==
  ASSUME NEW name \in Names, NEW value \in Contents, Own!Begins(name, value)
  PROVE  /\ own' \in Writes /\ own'.step = "create" /\ own'.error = "none"
         /\ own'.name = name /\ own'.value = value
  BY DEF Own!Begins, Writes, Steps, Errors

(* A step of the supervisor after the try block that leaves the directory   *)
(* alone, from where no write is under way or from the end of one.          *)
LEMMA PaperKeeps ==
  ASSUME SInv, at \notin Before, own.step \in {"idle", "over"},
         UNCHANGED <<files, temps, child, outcome, interrupted, stops>>,
         faults' \in 0 .. MaxFaults, at' \in Ways \ Before,
         own' \in Writes,
         own'.step = IF at' \in {"fill"} \union Publishing THEN "create" ELSE "idle",
         Undisturbed' => own'.error = "none",
         data' \in {Absent} \union Manifests,
         status' \in {Running, 0, 1, 2, 3, 4, 5, 130}, status' = Running <=> at' # "done",
         OwnWrite', Sent', Sound',
         Undisturbed' /\ at' # "done" => own.error = "none",
         at' = "done" /\ Undisturbed' =>
           \/ own.error # "none"
           \/ files["verification"] # Absent /\ status' = files["verification"].exit,
         Undisturbed' => Undisturbed
  PROVE  SInv'
<1>0. Succeeding /\ TypesKept
  BY OwnFacts
<1>1. TypeOK'
  BY <1>0, DirectoryTyped DEF TypesKept, TypeOK, Contents
<1>2. TypesKept'
  <2>1. own'.step # "idle" <=> at' \in {"fill"} \union Publishing
    OBVIOUS
  <2>2. worker' = worker /\ worker # "running" /\ returncode' = returncode
    BY <1>0 DEF outcome, Succeeding
  <2>3. interrupted' \in BOOLEAN /\ timedOut' \in BOOLEAN
    BY <1>0, Zenon DEF TypesKept, outcome
  <2> QED BY <1>0, <1>1, <2>1, <2>2, <2>3 DEF TypesKept, Writes, Contents
<1>3. Kept'
  BY <1>0 DEF Succeeding, Kept, child, study
<1>4. Smooth'
  <2>1. interrupted' => stops' > 0
    BY <1>0 DEF Succeeding, Smooth
  <2>2. (Undisturbed' => own'.error = "none") /\ own'.step \in {"idle", "create"}
    OBVIOUS
  <2>3. Undisturbed' => temps' \intersect Results = {}
    BY <1>0 DEF Succeeding, Smooth
  <2>4. Undisturbed' /\ own.error # "none" => Torn'
    BY <1>0 DEF Succeeding, Smooth, Torn
  <2> QED BY <2>1, <2>2, <2>3, <2>4 DEF Smooth
<1>5. worker' # "running" /\ at' \notin Before
  BY <1>0 DEF outcome, Succeeding
<1> QED BY <1>1, <1>2, <1>3, <1>4, <1>5 DEF SInv, Succeeding

LEMMA WhenIdle ==
  ASSUME SInv, at \in {"partial", "unlink", "print", "done"}
  PROVE  /\ at \notin Before /\ Succeeding /\ TypesKept /\ own.step = "idle"
         /\ faults \in 0 .. MaxFaults
  BY OwnFacts DEF TypesKept, Before, Waits, Publishing, TypeOK

(* The role files there are, as FirstMissing and Published tell them.       *)
LEMMA RolesThere ==
  ASSUME Succeeding
  PROVE  /\ Published = RoleFiles <=>
              files["reference"] # Absent /\ files["candidate"] # Absent
         /\ Published # RoleFiles =>
              /\ FirstMissing \in RoleFiles /\ files[FirstMissing] = Absent
              /\ FirstMissing = "candidate" => files["reference"] # Absent
              /\ files["candidate"] = Absent
  BY DEF Published, RoleFiles, FirstMissing, Succeeding, Kept

LEMMA FillMissingKeeps ==
  ASSUME SInv, FillMissing
  PROVE  SInv'
<1> USE Places DEF Publishing
<1>0. /\ at = "partial" /\ at' = "fill" /\ at \notin Before /\ Succeeding /\ TypesKept
      /\ own.step = "idle" /\ faults \in 0 .. MaxFaults
      /\ UNCHANGED <<directory, child, outcome, interrupted, data, status, stops>>
      /\ Published # RoleFiles /\ Own!Begins(FirstMissing, Lost(Ending))
  BY WhenIdle DEF FillMissing
<1>1. /\ FirstMissing \in RoleFiles /\ files[FirstMissing] = Absent
      /\ FirstMissing = "candidate" => files["reference"] # Absent
  BY <1>0, RolesThere
<1>2. /\ own' \in Writes /\ own'.step = "create" /\ own'.error = "none"
      /\ own'.name = FirstMissing /\ own'.value = Lost(Ending)
  BY <1>0, <1>1, LostTold, OwnBegins DEF Contents
<1>3. OwnWrite'
  <2>1. Lost(Ending).status # "cancelled"
    BY LostTold DEF Explained
  <2> QED BY <1>0, <1>1, <1>2, <2>1, LostTold DEF OwnWrite, directory
<1>4. Sent' /\ Sound'
  BY <1>0 DEF Succeeding, Sent, Sound, directory
<1>5. /\ at' \in Ways \ Before /\ status' = Running /\ data' \in {Absent} \union Manifests
      /\ Undisturbed' <=> Undisturbed
  BY <1>0 DEF Ways, Before, Waits, TypesKept, Undisturbed, directory
<1>6. Undisturbed => own.error = "none"
  BY <1>0 DEF Succeeding, Smooth
<1> QED BY <1>0, <1>2, <1>3, <1>4, <1>5, <1>6, PaperKeeps DEF directory, Running

LEMMA FillRestKeeps ==
  ASSUME SInv, FillRest
  PROVE  SInv'
<1> USE Places DEF Publishing
<1>0. /\ at = "fill" /\ own.step = "over" /\ own.error = "none"
      /\ UNCHANGED directory /\ UNCHANGED child /\ UNCHANGED outcome
      /\ UNCHANGED <<interrupted, data, stops, status>>
  BY DEF FillRest, Own!Written
<1>1. /\ at \notin Before /\ Succeeding /\ TypesKept /\ faults \in 0 .. MaxFaults
      /\ Undisturbed' <=> Undisturbed
      /\ status = Running /\ data \in {Absent} \union Manifests
  BY <1>0, OwnFacts DEF Before, Waits, Undisturbed, directory, TypesKept, TypeOK
<1>2. /\ own.name \in RoleFiles /\ files[own.name] = own.value /\ own.value \in RunFiles
      /\ own.value # Absent /\ data = Absent
  BY <1>0, <1>1, Kinds DEF Succeeding, OwnWrite, Sent
<1>3. CASE Published # RoleFiles /\ Own!Begins("candidate", Lost("cancelled")) /\ at' = at
  <2>1. own.name = "reference" /\ files["candidate"] = Absent
    BY <1>1, <1>2, <1>3, RolesThere DEF RoleFiles
  <2>2. files["reference"] # Absent /\ files["reference"].status \in Explained
    BY <1>0, <1>1, <1>2, <2>1 DEF Succeeding, OwnWrite
  <2>3. /\ own' \in Writes /\ own'.step = "create" /\ own'.error = "none"
        /\ own'.name = "candidate" /\ own'.value = Lost("cancelled")
    BY <1>3, LostTold, OwnBegins DEF Contents
  <2>4. OwnWrite'
    BY <1>0, <1>3, <2>1, <2>2, <2>3, LostTold DEF OwnWrite, directory, RoleFiles
  <2>5. Sent' /\ Sound' /\ at' \in Ways \ Before
    BY <1>0, <1>1, <1>2, <1>3 DEF Succeeding, Sent, Sound, directory, Ways
  <2>6. own'.step = IF at' \in {"fill"} \union Publishing THEN "create" ELSE "idle"
    BY <1>0, <1>3, <2>3
  <2>7. UNCHANGED <<files, temps, child, outcome, interrupted, stops>> /\ faults' = faults
    BY <1>0 DEF directory
  <2>8. status' = Running /\ data' = data /\ at' = "fill"
    BY <1>0, <1>1, <1>3
  <2> QED BY <1>0, <1>1, <2>3, <2>4, <2>5, <2>6, <2>7, <2>8, PaperKeeps
<1>4. CASE at' = "partial" /\ own' = Idle
  <2>1. OwnWrite' /\ Sent' /\ Sound' /\ at' \in Ways \ Before
    BY <1>0, <1>1, <1>2, <1>4, IdleTyped
    DEF Succeeding, OwnWrite, Sent, Sound, directory, Ways, Before, Waits
  <2>6. own'.step = IF at' \in {"fill"} \union Publishing THEN "create" ELSE "idle"
    BY <1>4, IdleTyped
  <2>7. UNCHANGED <<files, temps, child, outcome, interrupted, stops>> /\ faults' = faults
    BY <1>0 DEF directory
  <2>8. /\ status' = Running /\ data' = data /\ at' = "partial"
        /\ own' \in Writes /\ own'.error = "none"
    BY <1>0, <1>1, <1>4, IdleTyped
  <2> QED BY <1>0, <1>1, <2>1, <2>6, <2>7, <2>8, PaperKeeps
<1> QED BY <1>0, <1>3, <1>4 DEF FillRest

LEMMA FailureResultKeeps ==
  ASSUME SInv, FailureResult
  PROVE  SInv'
<1> USE Places DEF Publishing
<1>0. /\ at = "partial" /\ at' = "unlink" /\ Published = RoleFiles /\ own' = own
      /\ at \notin Before /\ Succeeding /\ TypesKept /\ own.step = "idle"
      /\ faults \in 0 .. MaxFaults /\ status' = Running
      /\ UNCHANGED <<directory, child, outcome, interrupted, stops>>
      /\ data' = [kind |-> "manifest", verdict |-> "EXECUTION_FAILED",
                  exit |-> IF interrupted THEN 130 ELSE 5, records |-> Records]
  BY WhenIdle DEF FailureResult, Moves, TypesKept
<1>1. /\ files["reference"] \in RunFiles /\ files["candidate"] \in RunFiles
      /\ files["reference"] # Absent /\ files["candidate"] # Absent
  BY <1>0, RolesThere DEF Succeeding, Kept, RoleFiles
<1>2. Records \in Seq(RunFiles)
  BY <1>1 DEF Records
<1>3. data' \in Manifests /\ data' # Absent
  <2>1. "EXECUTION_FAILED" \in DOMAIN VerificationExitCodes
    BY DEF VerificationExitCodes
  <2>2. data' \in Manifests
    BY <1>0, <1>2, <2>1 DEF Manifests
  <2> QED BY <2>2, Kinds
<1>4. Sound'
  BY <1>0, <1>1 DEF Sound, Failed, Records, directory
<1>5. own' = Idle \/ own'.step = "idle"
  BY <1>0
<1>6. Sent' /\ at' \in Ways \ Before
  BY <1>0, <1>3 DEF Succeeding, Sent, directory, Ways, Before, Waits
<1>7. OwnWrite'
  BY <1>0 DEF OwnWrite
<1>8. (Undisturbed => own.error = "none") /\ (Undisturbed' <=> Undisturbed) /\ own \in Writes
  BY <1>0, OwnFacts DEF Succeeding, Smooth, Undisturbed, directory
<1>9. UNCHANGED <<files, temps, child, outcome, interrupted, stops>> /\ faults' = faults
  BY <1>0 DEF directory
<1> QED BY <1>0, <1>3, <1>4, <1>6, <1>7, <1>8, <1>9, PaperKeeps

(* Leaving the command without a result, or with the one that is published.  *)
LEMMA QuitKeeps ==
  ASSUME SInv, at \notin Before, own.step \in {"idle", "over"}, at # "done",
         NEW code \in {0, 1, 2, 3, 4, 5, 130}, Quits(code),
         UNCHANGED <<files, temps>>, UNCHANGED child, UNCHANGED outcome,
         UNCHANGED <<interrupted, data, stops>>, Works \/ Faults,
         \/ Faults
         \/ own.error # "none"
         \/ files["verification"] # Absent /\ code = files["verification"].exit
  PROVE  SInv'
<1>0. /\ Succeeding /\ TypesKept /\ data \in {Absent} \union Manifests
      /\ faults \in Nat /\ faults' \in 0 .. MaxFaults
  BY OwnFacts, AtomicFilesAssumption DEF TypesKept, TypeOK, Works, Faults
<1>1. at' = "done" /\ status' = code /\ own' = Idle /\ own' \in Writes /\ own'.error = "none"
  BY IdleTyped DEF Quits
<1>2. own'.step = IF at' \in {"fill"} \union Publishing THEN "create" ELSE "idle"
  BY <1>1, IdleTyped DEF Publishing
<1>3. OwnWrite' /\ Sent' /\ Sound'
  BY <1>0, <1>1, IdleTyped
  DEF Succeeding, OwnWrite, Sent, Sound, Failed, Taken, Records, Publishing, child, judgement,
      outcome
<1>4. /\ at' \in Ways \ Before
      /\ status' \in {Running, 0, 1, 2, 3, 4, 5, 130}
      /\ status' = Running <=> at' # "done"
  BY <1>1 DEF Ways, Before, Waits, Running
<1>5. (Undisturbed' => Undisturbed) /\ (Faults => ~Undisturbed')
  BY <1>0 DEF Undisturbed, Works, Faults
<1> QED BY <1>0, <1>1, <1>2, <1>3, <1>4, <1>5, PaperKeeps

LEMMA FailsKeeps ==
  ASSUME SInv, Fails
  PROVE  SInv'
<1>0. /\ UNCHANGED <<files, temps>> /\ UNCHANGED child /\ UNCHANGED outcome
      /\ UNCHANGED <<interrupted, data, stops>>
      /\ \/ at = "partial" /\ Faults /\ Quits(5)
         \/ /\ at \in {"fill"} \union Publishing /\ Works
            /\ own.step = "over" /\ own.error # "none"
            /\ Quits(5) \/ Quits(130)
  BY DEF Fails, Own!Written
<1>1. at \notin Before /\ at # "done"
  BY <1>0 DEF Before, Waits, Publishing
<1>2. CASE at = "partial" /\ Faults /\ Quits(5)
  BY <1>0, <1>1, <1>2, WhenIdle, QuitKeeps
<1>3. CASE Works /\ own.step = "over" /\ own.error # "none" /\ (Quits(5) \/ Quits(130))
  BY <1>0, <1>1, <1>3, QuitKeeps
<1> QED BY <1>0, <1>2, <1>3

(* The receipt gives way: no other file is touched.                         *)
LEMMA UnlinkKeeps ==
  ASSUME SInv, Unlink
  PROVE  SInv'
<1> USE Places DEF Publishing
<1>0. /\ UNCHANGED temps /\ UNCHANGED child /\ UNCHANGED outcome
      /\ UNCHANGED <<interrupted, data, stops>>
      /\ at = "unlink" /\ at \notin Before /\ Succeeding /\ TypesKept
      /\ own.step = "idle" /\ faults \in 0 .. MaxFaults /\ status = Running
  BY WhenIdle DEF Unlink, TypesKept
<1>1. CASE Faults /\ Quits(5) /\ UNCHANGED files
  BY <1>0, <1>1, QuitKeeps
<1>2. CASE /\ files' = [files EXCEPT !["worker-result"] = Absent]
           /\ Own!Begins("report", data) /\ at' = "report" /\ status' = status /\ Works
  <2>f. /\ files \in [Names -> Contents] /\ files' \in [Names -> Contents]
        /\ \A n \in RoleFiles \union Results : files'[n] = files[n]
    BY <1>0, <1>2 DEF TypesKept, TypeOK, Contents, RoleFiles, Results
  <2>d. data # Absent /\ data \in Manifests /\ data' = data /\ faults' = faults
    BY <1>0, <1>2 DEF Succeeding, Sent, TypesKept, Works
  <2>o. /\ own' \in Writes /\ own'.step = "create" /\ own'.error = "none"
        /\ own'.name = "report" /\ own'.value = data
    BY <1>2, <2>d, OwnBegins DEF Contents, Results
  <2>1. TypeOK'
    BY <1>0, <2>f, <2>d, DirectoryTyped DEF TypesKept, TypeOK
  <2>2. TypesKept'
    <3>1. interrupted' \in BOOLEAN /\ timedOut' \in BOOLEAN
      BY <1>0, Zenon DEF TypesKept, outcome
    <3>2. worker' = worker /\ returncode' = returncode /\ worker # "running"
      BY <1>0 DEF outcome, Succeeding
    <3> QED BY <1>0, <1>2, <2>1, <2>d, <2>o, <3>1, <3>2
            DEF TypesKept, Writes, Contents, Ways, Running
  <2>3. Kept'
    <3>1. Len(saved) \in {0, 1, 2}
      BY <1>0, Lengths DEF TypesKept
    <3>2. \A i \in 1 .. Len(saved) : files'[Roles[i]] = saved[i] /\ saved' = saved
      BY <1>0, <2>f, <3>1 DEF Succeeding, Kept, RoleFiles, child, study
    <3> QED BY <1>0, <2>f, <3>2 DEF Succeeding, Kept, RoleFiles, child, study
  <2>4. OwnWrite'
    BY <1>0, <1>2, <2>f, <2>o, <2>d DEF Succeeding, OwnWrite, Sent, Results
  <2>5. Sent'
    BY <1>0, <1>2, <2>f, <2>d DEF Succeeding, Sent, Results
  <2>6. Sound'
    BY <1>0, <2>f, <2>d
    DEF Succeeding, Sound, Failed, Taken, Records, RoleFiles, child, judgement, outcome
  <2>7. Smooth'
    <3>1. Undisturbed' <=> Undisturbed
      BY <1>0, <2>d DEF Undisturbed
    <3> QED BY <1>0, <1>2, <2>o, <3>1 DEF Succeeding, Smooth
  <2> QED BY <1>0, <1>2, <2>1, <2>2, <2>3, <2>4, <2>5, <2>6, <2>7
          DEF SInv, Succeeding, Before, Waits, outcome
<1> QED BY <1>1, <1>2 DEF Unlink

LEMMA PersistOwnKeeps ==
  ASSUME SInv, PersistOwn
  PROVE  SInv'
<1> USE Places DEF Publishing
<1>0. /\ UNCHANGED directory /\ UNCHANGED child /\ UNCHANGED outcome
      /\ UNCHANGED <<interrupted, data, stops, status>>
      /\ at \in Publishing /\ own.step = "over" /\ own.error = "none"
  BY DEF PersistOwn, Own!Written
<1>1. /\ at \notin Before /\ Succeeding /\ TypesKept /\ faults \in 0 .. MaxFaults
      /\ files[at] = data /\ data # Absent /\ data \in Manifests
      /\ Undisturbed' <=> Undisturbed
  BY <1>0, OwnFacts
  DEF Before, Waits, Undisturbed, directory, TypesKept, TypeOK, Succeeding, OwnWrite, Sent
<1>2. \/ at = "report" /\ at' = "manifest"
      \/ at = "manifest" /\ at' = "verification"
      \/ at = "verification" /\ at' = "print"
  BY <1>0 DEF PersistOwn, Following
<1>3. IF at' = "print" THEN own' = Idle ELSE Own!Begins(at', data)
  BY <1>0 DEF PersistOwn, Following
<1>4. /\ own' \in Writes /\ own'.error = "none"
      /\ own'.step = IF at' \in {"fill"} \union Publishing THEN "create" ELSE "idle"
      /\ at' \in Publishing => own'.name = at' /\ own'.value = data
  <2>1. CASE at' = "print"
    BY <1>3, <2>1, IdleTyped
  <2>2. CASE at' \in Publishing
    BY <1>1, <1>3, <2>2, OwnBegins DEF Contents, Results
  <2> QED BY <1>2, <2>1, <2>2
<1>5. OwnWrite'
  BY <1>0, <1>1, <1>2, <1>4 DEF Succeeding, OwnWrite, Sent, Results, directory
<1>6. Sent' /\ Sound'
  BY <1>0, <1>1, <1>2
  DEF Succeeding, Sent, Results, directory, Sound, Failed, Taken, Records, child, judgement,
      outcome
<1>7. /\ at' \in Ways \ Before /\ status' = Running /\ data' = data
      /\ at' # "done"
  BY <1>0, <1>1, <1>2 DEF Ways, Before, Waits, TypesKept
<1>8. UNCHANGED <<files, temps, child, outcome, interrupted, stops>> /\ faults' = faults
  BY <1>0 DEF directory
<1> QED BY <1>0, <1>1, <1>4, <1>5, <1>6, <1>7, <1>8, PaperKeeps

LEMMA ReportOwnKeeps ==
  ASSUME SInv, ReportOwn
  PROVE  SInv'
<1>0. /\ UNCHANGED <<files, temps>> /\ UNCHANGED child /\ UNCHANGED outcome
      /\ UNCHANGED <<interrupted, data, stops>>
      /\ at = "print" /\ at \notin Before /\ Succeeding /\ TypesKept /\ own.step = "idle"
  BY WhenIdle DEF ReportOwn
<1>1. /\ files["verification"] = data /\ data # Absent
      /\ data.exit \in {0, 1, 2, 3, 4, 5, 130}
  BY <1>0 DEF Succeeding, Sent, TypesKept, Manifests
<1>2. CASE Quits(data.exit) /\ Works
  BY <1>0, <1>1, <1>2, QuitKeeps
<1>3. CASE Quits(2) /\ Faults
  BY <1>0, <1>3, QuitKeeps
<1> QED BY <1>2, <1>3 DEF ReportOwn

-----------------------------------------------------------------------------
LEMMA StutterKeepsSInv ==
  ASSUME SInv, UNCHANGED isolated
  PROVE  SInv'
<1>0. /\ UNCHANGED directory /\ UNCHANGED child /\ UNCHANGED outcome
      /\ UNCHANGED <<files, temps, faults>> /\ UNCHANGED <<worker, returncode, timedOut>>
      /\ UNCHANGED <<pc, saved, manifest, exit>>
      /\ UNCHANGED <<at, interrupted, data, own, status, stops>>
  BY DEF isolated, parent, outcome, directory, child, study, judgement
<1>1. (ChildInv' <=> ChildInv) /\ (TypeOK' <=> TypeOK)
  BY <1>0, ChildSteady
<1>2. TypesKept' <=> TypesKept
  BY <1>0, <1>1 DEF TypesKept
<1>3. Awaiting' <=> Awaiting
  BY <1>0, <1>1 DEF Awaiting
<1>4. (Kept' <=> Kept) /\ (Sound' <=> Sound)
  BY <1>0 DEF Kept, Sound, Failed, Taken, Records
<1>5. (OwnWrite' <=> OwnWrite) /\ (Sent' <=> Sent)
  BY <1>0 DEF OwnWrite, Sent
<1>6. Smooth' <=> Smooth
  BY <1>0 DEF Smooth, Undisturbed, Torn
<1> QED BY <1>0, <1>1, <1>2, <1>3, <1>4, <1>5, <1>6 DEF SInv, Succeeding

LEMMA SInvNext == SInv /\ [NextIsolated]_isolated => SInv'
<1> SUFFICES ASSUME SInv, [NextIsolated]_isolated PROVE SInv'
  OBVIOUS
<1>1. CASE Work \/ DeferResult \/ Crash
  BY <1>1, WorkKeeps
<1>2. CASE MakeOutput \/ Invoke \/ Returned \/ ProcessFails \/ ReadReceipt
  BY <1>2, MakeOutputKeeps, InvokeKeeps, ReturnedKeeps, ReadReceiptKeeps
<1>3. CASE FillMissing \/ FillRest \/ FailureResult \/ Fails
  BY <1>3, FillMissingKeeps, FillRestKeeps, FailureResultKeeps, FailsKeeps
<1>4. CASE WriteOwn
  <2>1. own.step # "idle"
    BY <1>4 DEF WriteOwn, Own!WriteStep, Own!Create, Own!FillFails, Own!Publish, Own!Discard
  <2>2. at \notin Before
    BY <2>1, IdleTyped DEF SInv, Awaiting
  <2> QED BY <1>4, <2>2, WriteOwnKeeps
<1>5. CASE Unlink \/ PersistOwn \/ ReportOwn
  BY <1>5, UnlinkKeeps, PersistOwnKeeps, ReportOwnKeeps
<1>6. CASE Stop
  BY <1>6, StopBeforeKeeps, StopAfterKeeps
<1>7. CASE UNCHANGED isolated
  BY <1>7, StutterKeepsSInv
<1> QED BY <1>1, <1>2, <1>3, <1>4, <1>5, <1>6, <1>7 DEF NextIsolated, Supervise, Concluded

LEMMA SInvAlways ==
  ASSUME Deferred
  PROVE  SpecIsolated => []SInv
  BY InitSInv, SInvNext, PTL DEF SpecIsolated

(* The child and its supervisor keep their types, and the child is never    *)
(* left running once the supervisor has gone on.                            *)
THEOREM TypesAreKept ==
  ASSUME Deferred
  PROVE  SpecIsolated => []TypesKept
  BY SInvAlways, PTL DEF SInv

(* While the supervisor waits no result is published; after, it is data.    *)
LEMMA ResultIsData ==
  ASSUME SInv, files["verification"] # Absent
  PROVE  /\ files["verification"] = data /\ data # Absent /\ at \notin Before /\ Succeeding
         /\ Failed \/ Taken
<1>1. at \notin Before
  BY Legacy DEF SInv, Awaiting, Results
<1>2. Succeeding /\ files["verification"] = data
  BY <1>1, OwnFacts DEF Succeeding, Sent, Results
<1> QED BY <1>1, <1>2 DEF Succeeding, Sound

(* A published result other than a failure is the one a child reached that  *)
(* ended by itself, in time and with its status.                            *)
THEOREM ResultIsTheWorkers ==
  ASSUME Deferred
  PROVE  SpecIsolated => []Accepted
<1>1. SInv => Accepted
  <2> SUFFICES ASSUME SInv, files["verification"] # Absent,
                      files["verification"].verdict # "EXECUTION_FAILED"
               PROVE  /\ pc = "done" /\ manifest = files["verification"]
                      /\ exit = manifest.exit /\ ~timedOut /\ ~interrupted
    BY DEF Accepted
  <2> QED BY ResultIsData DEF Failed, Taken
<1> QED BY <1>1, SInvAlways, PTL

(* However the child ends, its records stay and tell how; and without a     *)
(* fault, a second stop or a half-written record of the child, there is a   *)
(* result and the command ends with its status.                             *)
THEOREM EvidenceIsRetained ==
  ASSUME Deferred
  PROVE  SpecIsolated => []EvidenceRetained
<1>1. SInv => StopTold
  <2> SUFFICES ASSUME SInv, files["verification"] # Absent
               PROVE  /\ \A i \in 1 .. Len(saved) : files[Roles[i]] = saved[i]
                      /\ interrupted => files["verification"].exit = 130
                      /\ timedOut /\ ~interrupted => files["verification"].exit = 5
                      /\ files["verification"].exit \in {0, 1} =>
                           \A r \in RoleFiles : files[r].status = "completed"
                      /\ files["candidate"].status = "cancelled" =>
                           files["reference"].status \in {"failed", "timed_out", "interrupted"}
    BY DEF StopTold
  <2>1. /\ files["verification"] = data /\ data # Absent /\ Succeeding
        /\ Failed \/ Taken
    BY ResultIsData
  <2> QED BY <2>1 DEF Succeeding, Kept, Sound, Failed, Taken, Explained
<1>2. SInv => RetainedUnlessTorn
  <2> SUFFICES ASSUME SInv, ~Torn, at = "done", worker = "gone", Undisturbed
               PROVE  files["verification"] # Absent /\ status = files["verification"].exit
    BY DEF RetainedUnlessTorn, WorkerFailureRetained
  <2> QED BY WhenIdle DEF Succeeding, Smooth
<1> QED BY <1>1, <1>2, SInvAlways, PTL DEF EvidenceRetained

-----------------------------------------------------------------------------
(* What a step does to the bundle: a file of it appears, by a write of the  *)
(* child or of the supervisor, or none changes.                             *)
BundleFile == {"reference", "candidate", "report", "manifest", "verification"}

LEMMA BundleGrows ==
  ASSUME SInv, [NextIsolated]_isolated
  PROVE  \/ \A n \in BundleFile : files'[n] = files[n]
         \/ /\ status' = status /\ at # "done"
            /\ \E name \in BundleFile :
                 /\ files[name] = Absent
                 /\ files' = [files EXCEPT ![name] = files'[name]]
                 /\ name = "verification" => at = "verification" /\ files'[name] = data
<1> USE Places
<1>0. files \in [Names -> Contents] /\ BundleFile = RoleFiles \union Results
  BY DEF SInv, TypesKept, TypeOK, Contents, BundleFile, RoleFiles, Results
<1>1. CASE Work
  <2>1. at = "wait" /\ ChildInv /\ Next /\ status' = status
    BY <1>1 DEF Work, parent, SInv, TypesKept, Before, Waits, Awaiting
  <2>2. CASE files' = files
    BY <2>2
  <2>3. CASE /\ writing.step = "publish" /\ files[writing.name] = Absent
             /\ files' = [files EXCEPT ![writing.name] = writing.value]
    <3>1. writing.name \in Names \ Results
      BY <2>1, <2>3, ChildWrites DEF ChildInv
    <3>2. files' = [files EXCEPT ![writing.name] = files'[writing.name]]
      BY <1>0, <2>3, <3>1
    <3>3. CASE writing.name \in BundleFile
      BY <2>1, <2>3, <3>1, <3>2, <3>3 DEF Results
    <3>4. CASE writing.name \notin BundleFile
      BY <1>0, <2>3, <3>1, <3>4
    <3> QED BY <3>3, <3>4
  <2> QED BY <2>1, <2>2, <2>3, FilesAppear DEF ChildInv
<1>2. CASE WriteOwn
  <2>1. own.step # "idle" /\ UNCHANGED <<at, status>>
    BY <1>2 DEF WriteOwn, Own!WriteStep, Own!Create, Own!FillFails, Own!Publish, Own!Discard
  <2>2. at \notin Before
    BY <2>1, IdleTyped DEF SInv, Awaiting
  <2>3. /\ Succeeding /\ own.name \in BundleFile /\ own.name \in Names /\ at # "done"
        /\ at = "fill" => own.name \in RoleFiles
        /\ at \in {"fill"} \union Publishing
        /\ at \in Publishing => own.name = at /\ own.value = data
    BY <1>0, <2>1, <2>2, OwnFacts DEF TypesKept, Publishing, Succeeding, OwnWrite
  <2>4. CASE files' = files
    BY <2>4
  <2>5. CASE own.step = "publish" /\ files' = [files EXCEPT ![own.name] = own.value]
    <3>1. files[own.name] = Absent
      BY <2>3, <2>5 DEF Succeeding, OwnWrite
    <3>2. files' = [files EXCEPT ![own.name] = files'[own.name]] /\ files'[own.name] = own.value
      BY <1>0, <2>3, <2>5
    <3>3. own.name = "verification" => at = "verification" /\ own.value = data
      BY <2>3 DEF RoleFiles, Publishing
    <3> QED BY <2>1, <2>3, <3>1, <3>2, <3>3
  <2> QED BY <1>2, <2>4, <2>5 DEF WriteOwn, Own!WriteStep, Own!Create, Own!FillFails,
             Own!Publish, Own!Discard
<1>3. CASE Unlink
  <2>1. files' = files \/ files' = [files EXCEPT !["worker-result"] = Absent]
    BY <1>3 DEF Unlink
  <2> QED BY <1>0, <2>1 DEF BundleFile
<1>4. CASE Stop
  <2>1. files' = files
    BY <1>4 DEF Stop, directory, Own!InterruptWrite
  <2> QED BY <2>1
<1>5. CASE ~Work /\ ~WriteOwn /\ ~Unlink /\ ~Stop
  <2>1. files' = files
    BY <1>5 DEF NextIsolated, Supervise, Concluded, isolated, directory, DeferResult, Crash,
       MakeOutput, Invoke, Returned, ProcessFails, ReadReceipt, FillMissing, FillRest,
       FailureResult, Fails, PersistOwn, ReportOwn
  <2> QED BY <2>1
<1> QED BY <1>1, <1>2, <1>3, <1>4, <1>5

(* A status that is set speaks of no evidence, or is the published one's.   *)
LEMMA StatusBorneOut ==
  ASSUME SInv, [NextIsolated]_isolated, status' # status
  PROVE  /\ status = Running /\ status' \in {0, 1, 2, 3, 4, 5, 130}
         /\ \A n \in BundleFile : files'[n] = files[n]
         /\ status' \in {0, 1, 3, 4} =>
              files["verification"] # Absent /\ files["verification"].exit = status'
<1>0. TypesKept /\ TypesKept'
  BY SInvNext DEF SInv
<1>1. at # "done" /\ at' = "done"
  BY DEF NextIsolated, Supervise, Concluded, isolated, parent, Work, DeferResult, Crash,
     MakeOutput, Invoke, Returned, ProcessFails, ReadReceipt, FillMissing, FillRest,
     FailureResult, Fails, Unlink, WriteOwn, PersistOwn, ReportOwn, Stop, Quits, Moves,
     Publishing
<1>2. status = Running /\ status' \in {0, 1, 2, 3, 4, 5, 130}
  BY <1>0, <1>1 DEF TypesKept
<1>3. CASE ReportOwn
  <2>1. files["verification"] = data /\ data # Absent
    BY <1>3, WhenIdle DEF ReportOwn, Succeeding, Sent
  <2>2. status' \in {2, data.exit}
    BY <1>3 DEF ReportOwn, Quits
  <2> QED BY <1>2, <2>1, <2>2, BundleGrows
<1>4. CASE ~ReportOwn
  <2>1. status' \in {5, 130}
    BY <1>4 DEF NextIsolated, Supervise, Concluded, isolated, parent, Work, DeferResult, Crash,
       MakeOutput, Invoke, Returned, ProcessFails, ReadReceipt, FillMissing, FillRest,
       FailureResult, Fails, Unlink, WriteOwn, PersistOwn, Stop, Quits, Moves
  <2> QED BY <1>2, <2>1, BundleGrows
<1> QED BY <1>3, <1>4

(* The supervised verification implements EvidenceBundle.                   *)
THEOREM SupervisedBundleIsKept ==
  ASSUME Deferred
  PROVE  SpecIsolated => SupervisorKeepsBundle
<1> DEFINE View == [n \in BundleFile |-> files[n]]
<1>n. /\ BundleFile \subseteq Names /\ Absent = SupervisedBundle!Absent
      /\ Running = SupervisedBundle!Running /\ BundleFile = SupervisedBundle!BundleFiles
  BY Places DEF SupervisedBundle!BundleFiles, SupervisedBundle!Absent, SupervisedBundle!Running,
     Absent, Running, BundleFile, Results
<1>1. InitIsolated => SupervisedBundle!Init
  BY <1>n DEF InitIsolated, Init, SupervisedBundle!Init, BundleFile
<1>2. SInv /\ [NextIsolated]_isolated => [SupervisedBundle!Next]_(SupervisedBundle!bundle)
  <2> SUFFICES ASSUME SInv, [NextIsolated]_isolated
               PROVE  [SupervisedBundle!Next]_(SupervisedBundle!bundle)
    OBVIOUS
  <2>1. CASE status' # status
    <3>1. View' = View
      BY <2>1, StatusBorneOut
    <3>2. SupervisedBundle!End
      BY <1>n, <2>1, <3>1, StatusBorneOut DEF SupervisedBundle!End, BundleFile
    <3> QED BY <3>2 DEF SupervisedBundle!Next
  <2>2. CASE status' = status /\ \A n \in BundleFile : files'[n] = files[n]
    <3>1. View' = View
      BY <2>2
    <3> QED BY <2>2, <3>1 DEF SupervisedBundle!bundle, BundleFile
  <2>3. CASE status' = status /\ ~ \A n \in BundleFile : files'[n] = files[n]
    <3>1. PICK name \in BundleFile :
            /\ files[name] = Absent /\ at # "done"
            /\ files' = [files EXCEPT ![name] = files'[name]]
            /\ name = "verification" => at = "verification" /\ files'[name] = data
      BY <2>3, BundleGrows
    <3>2. status = Running /\ files \in [Names -> Contents]
      BY <3>1 DEF SInv, TypesKept, TypeOK, Contents
    <3>3. View' = [View EXCEPT ![name] = View'[name]] /\ View[name] = SupervisedBundle!Absent
      BY <1>n, <3>1, <3>2
    <3>4. name = "verification" => SupervisedBundle!Whole(View')
      <4> SUFFICES ASSUME name = "verification" PROVE SupervisedBundle!Whole(View')
        OBVIOUS
      <4>1. /\ files["report"] = data /\ files["manifest"] = data /\ data.records = Records
        BY <3>1, OwnFacts DEF Before, Waits, Succeeding, Sent, Sound, Publishing
      <4>2. \A n \in BundleFile : View'[n] = IF n = "verification" THEN data ELSE files[n]
        BY <1>n, <3>1, <3>2
      <4> QED BY <4>1, <4>2 DEF SupervisedBundle!Whole, Records, BundleFile
    <3>5. SupervisedBundle!Publish(name)
      BY <1>n, <2>3, <3>2, <3>3, <3>4 DEF SupervisedBundle!Publish, BundleFile
    <3> QED BY <1>n, <3>5 DEF SupervisedBundle!Next
  <2> QED BY <2>1, <2>2, <2>3
<1> QED BY <1>1, <1>2, SInvAlways, PTL DEF SpecIsolated, SupervisorKeepsBundle, SupervisedBundle!Spec

=============================================================================
