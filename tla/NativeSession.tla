---------------------------- MODULE NativeSession ----------------------------
(***************************************************************************)
(* One native session, from resolve to close, with the adapters of          *)
(* metria.runtimes: llamacpp, which starts a process for every request;     *)
(* qualified, which binds it to a pinned capture provider; vllm, which      *)
(* loads an engine; and placed, the vLLM adapter of CPU upgrades.           *)
(*                                                                         *)
(* The runtime reads two artifacts that somebody may edit meanwhile: the    *)
(* model and the provider (the llama.cpp binary, the installed vLLM).  The  *)
(* version of an artifact stands for its bytes, version 0 is the pinned     *)
(* one, and no edit brings old bytes back.  An edit also changes the size   *)
(* or mtime, which stamp counts, unless it takes pains not to.              *)
(***************************************************************************)
EXTENDS Naturals, Sequences, FiniteSets

CONSTANTS
  Adapters,
  MaxRequests,    \* requests of a batch
  MaxCalls,       \* bound: batches
  MaxEdits,       \* bound: edits of the artifacts
  MaxFaults       \* bound: calls that fail or are interrupted

ASSUME SessionAssumption ==
  /\ Adapters \subseteq {"llamacpp", "qualified", "vllm", "placed"}
  /\ {MaxRequests, MaxCalls, MaxEdits, MaxFaults} \subseteq Nat

VARIABLES
  adapter,
  pinned,       \* the recipe pins the model, and for vLLM the installation
  model, provider,      \* [version, stamp]
  pc,
  resolvedStamp,        \* size and mtime of the model that resolve recorded
  engine,               \* none | live | released
  loaded,               \* the newest bytes the engine has read: [model, provider]
  session,              \* none | open | closed
  todo, tokens,         \* requests left in the batch; it captures tokens
  answered,             \* what the runtime did for them: a queue of rows
  invocations,          \* the rows the session recorded
  observed,             \* the observation, <<>> before
  calls, edits, faults,
  quiet, late, disowned \* history: an edit kept size and mtime; vLLM's files were
                        \* edited after the check of its pin; an interrupt or a
                        \* failing shutdown hit the release of the engine

files  == <<model, provider, edits, quiet, late>>
choice == <<adapter, pinned>>
native == <<engine, loaded, disowned>>
batch  == <<todo, tokens, answered>>
vars   == <<files, choice, pc, resolvedStamp, native, session, batch, invocations,
            observed, calls, faults>>

LlamaCpp == adapter \in {"llamacpp", "qualified"}
Vllm     == adapter \in {"vllm", "placed"}

Init ==
  /\ adapter \in Adapters /\ pinned \in BOOLEAN
  /\ model = [version |-> 0, stamp |-> 0] /\ provider = [version |-> 0, stamp |-> 0]
  /\ pc = "resolve" /\ resolvedStamp = 0
  /\ engine = "none" /\ loaded = [model |-> 0, provider |-> 0] /\ session = "none"
  /\ todo = 0 /\ tokens = FALSE /\ answered = <<>>
  /\ invocations = <<>> /\ observed = <<>>
  /\ calls = 0 /\ edits = 0 /\ faults = 0 /\ quiet = FALSE /\ late = FALSE
  /\ disowned = FALSE

Edited(file, keeps) ==
  [version |-> file.version + 1, stamp |-> IF keeps THEN file.stamp ELSE file.stamp + 1]

Edit(keeps) ==
  /\ edits < MaxEdits /\ pc # "over" /\ edits' = edits + 1 /\ quiet' = (quiet \/ keeps)
  /\ \/ model' = Edited(model, keeps) /\ UNCHANGED <<provider, late>>
     \/ /\ provider' = Edited(provider, keeps) /\ UNCHANGED model
        /\ late' = (late \/ (Vllm /\ pc \notin {"resolve", "launch", "pin"}))
  /\ UNCHANGED <<choice, pc, resolvedStamp, native, session, batch, invocations,
                 observed, calls, faults>>

Faulty == faults < MaxFaults /\ faults' = faults + 1
Sound  == UNCHANGED <<files, choice, calls, faults>>
Raises == pc' = "over"

-----------------------------------------------------------------------------
(* The checks of content, which hash the artifacts, and of metadata.       *)

ModelBytes    == pinned => model.version = 0
ModelStat     == pinned => model.stamp = resolvedStamp
ProviderBytes ==
  (adapter = "qualified" \/ (Vllm /\ pinned)) => provider.version = 0

(* resolve.                                                                *)
Resolve ==
  /\ pc = "resolve"
  /\ IF ModelBytes /\ ProviderBytes THEN pc' = "launch" ELSE Raises
  /\ resolvedStamp' = model.stamp
  /\ Sound /\ UNCHANGED <<native, session, batch, invocations, observed>>

(* LlamaCppAdapter.launch opens a logical session.                         *)
LaunchLlamaCpp ==
  /\ pc = "launch" /\ LlamaCpp
  /\ IF ModelBytes /\ ModelStat /\ ProviderBytes
     THEN pc' = "idle" /\ session' = "open" ELSE Raises /\ UNCHANGED session
  /\ Sound /\ UNCHANGED <<resolvedStamp, native, batch, invocations, observed>>

(* VLLMAdapter.launch: vLLM is imported, then the installation hashed.     *)
ImportVllm ==
  /\ pc = "launch" /\ Vllm /\ pc' = "pin"
  /\ loaded' = [loaded EXCEPT !.provider = provider.version]
  /\ Sound /\ UNCHANGED <<resolvedStamp, engine, disowned, session, batch, invocations,
                          observed>>

PinVllm ==
  /\ pc = "pin" /\ IF ProviderBytes THEN pc' = "create" ELSE Raises
  /\ Sound /\ UNCHANGED <<resolvedStamp, native, session, batch, invocations, observed>>

(* The engine is made of more of the installation than its pin's check saw   *)
(* loaded: LLM and the serving engine are imported, and their processes     *)
(* started, after it, and nothing hashes these files again.                 *)
CreateLlm ==
  /\ pc = "create" /\ pc' = "identify"
  /\ engine' = "live"
  /\ loaded' = [model |-> model.version, provider |-> provider.version]
  /\ Sound /\ UNCHANGED <<resolvedStamp, disowned, session, batch, invocations, observed>>

(* VLLMSession.__init__ compares the identity the engine reports and hashes *)
(* the files it was loaded from.                                            *)
LoadedBytes == ModelBytes

Identify(matches) ==
  /\ pc = "identify"
  /\ IF matches /\ LoadedBytes
     THEN /\ pc' = IF adapter = "placed" THEN "place" ELSE "idle"
          /\ session' = "open"
     ELSE pc' = "cleanup" /\ UNCHANGED session
  /\ Sound /\ UNCHANGED <<resolvedStamp, native, batch, invocations, observed>>

(* _cleanup_failed_llm.                                                    *)
Cleanup ==
  /\ pc = "cleanup" /\ Raises /\ engine' = "released"
  /\ Sound /\ UNCHANGED <<resolvedStamp, loaded, disowned, session, batch, invocations,
                          observed>>

(* CPUUpgradeAdapter.launch closes the session it cannot place.  Mistake:   *)
(* it only raises.                                                         *)
Unplaced_Raises == pc' = "over" /\ UNCHANGED <<engine, session>>
Unplaced == pc' = "over" /\ engine' = "released" /\ session' = "closed"

Place(reported) ==
  /\ pc = "place"
  /\ IF reported THEN pc' = "idle" /\ UNCHANGED <<engine, session>> ELSE Unplaced
  /\ Sound /\ UNCHANGED <<resolvedStamp, loaded, disowned, batch, invocations, observed>>

-----------------------------------------------------------------------------
(* infer: requests one after the other, or all at once by the engine.      *)

StartInfer(n, capture) ==
  /\ pc = "idle" /\ session = "open" /\ calls < MaxCalls
  /\ calls' = calls + 1 /\ todo' = n /\ tokens' = capture /\ answered' = <<>>
  /\ pc' = IF LlamaCpp THEN "check" ELSE "generate"
  /\ UNCHANGED <<files, choice, resolvedStamp, native, session, invocations, observed,
                 faults>>

BatchRaises == pc' = "idle" /\ todo' = 0 /\ answered' = <<>>

CheckModel ==
  /\ pc = "check"
  /\ IF ModelStat THEN pc' = "spawn" /\ UNCHANGED <<todo, answered>> ELSE BatchRaises
  /\ Sound /\ UNCHANGED <<resolvedStamp, native, session, tokens, invocations, observed>>

(* The process reads the artifacts.  Only a token capture says whether the  *)
(* chat template was applied, and only with a recent provider.              *)
Spawn(templated, reports) ==
  /\ pc = "spawn" /\ pc' = "read" /\ (reports => tokens)
  /\ answered' = <<[model |-> model.version, provider |-> provider.version,
                    templated |-> templated, reports |-> reports]>>
  /\ Sound /\ UNCHANGED <<resolvedStamp, native, session, todo, tokens, invocations,
                          observed>>

(* An engine has its model in memory; what else a request needs of vLLM is   *)
(* imported by then.                                                        *)
Generate ==
  /\ pc = "generate" /\ pc' = "read"
  /\ loaded' = [loaded EXCEPT !.provider = provider.version]
  /\ answered' = [i \in 1..todo |-> [model |-> loaded.model, provider |-> provider.version,
                                     templated |-> TRUE, reports |-> FALSE]]
  /\ Sound /\ UNCHANGED <<resolvedStamp, engine, disowned, session, todo, tokens,
                          invocations, observed>>

(* The answer is read and its row recorded; a malformed one ends the batch, *)
(* which keeps the rows before it.                                         *)
ReadAnswer(valid) ==
  /\ pc = "read"
  /\ IF ~valid THEN BatchRaises /\ UNCHANGED invocations
     ELSE /\ invocations' = Append(invocations, Head(answered))
          /\ answered' = Tail(answered) /\ todo' = todo - 1
          /\ pc' = IF todo = 1 THEN "idle" ELSE IF LlamaCpp THEN "check" ELSE "read"
  /\ Sound /\ UNCHANGED <<resolvedStamp, native, session, tokens, observed>>

-----------------------------------------------------------------------------
(* observe.  inspect_llamacpp_identity: the template is known when every    *)
(* request reported it, and the same.  Mistake: reports that lack are left  *)
(* out.                                                                    *)
Reports == {i \in DOMAIN invocations : invocations[i].reports}

TemplateOff_Reported ==
  Reports # {} /\ \A i \in Reports : ~invocations[i].templated
TemplateOff ==
  Reports # {} /\ Reports = DOMAIN invocations /\ \A i \in Reports : ~invocations[i].templated

AppliedStatus ==
  IF invocations = <<>> THEN "unknown"
  ELSE IF Reports = DOMAIN invocations
          /\ Cardinality({invocations[i].templated : i \in Reports}) > 1 THEN "mismatch"
  ELSE "partial"

(* QualifiedLlamaCppAdapter.observe hashes both artifacts once more, the    *)
(* adapter of CPU upgrades asks for the placement.  Mistake: the model is   *)
(* not hashed.                                                             *)
StillPinned_Provider == adapter = "qualified" => ProviderBytes
StillPinned == adapter = "qualified" => ProviderBytes /\ ModelBytes

Observation ==
  [template |-> IF LlamaCpp THEN (IF TemplateOff THEN "disabled" ELSE "unknown")
                ELSE "native",
   applied |-> IF LlamaCpp THEN AppliedStatus ELSE "native",
   rows |-> invocations]

Observe(placed) ==
  /\ pc = "idle" /\ session = "open" /\ observed = <<>>
  /\ IF StillPinned /\ (adapter = "placed" => placed) THEN observed' = <<Observation>> /\ UNCHANGED pc
     ELSE pc' = "unobserved" /\ UNCHANGED observed
  /\ Sound /\ UNCHANGED <<resolvedStamp, native, session, batch, invocations>>

Close ==
  /\ pc \in {"idle", "unobserved"} /\ session = "open" /\ pc' = "over"
  /\ session' = "closed" /\ engine' = IF Vllm THEN "released" ELSE engine
  /\ Sound /\ UNCHANGED <<resolvedStamp, loaded, disowned, batch, invocations, observed>>

-----------------------------------------------------------------------------
(* A call raises: an engine that does not load, a process that fails or     *)
(* times out, a generation that fails.                                     *)
CallRaises ==
  /\ pc \in {"resolve", "launch", "pin", "create", "spawn", "generate"} /\ Faulty
  /\ IF pc \in {"spawn", "generate"} THEN BatchRaises
     ELSE Raises /\ UNCHANGED <<todo, answered>>
  /\ UNCHANGED <<files, choice, calls, resolvedStamp, native, session, tokens, invocations,
                 observed>>

(* Shutdown raises: after a failed launch that is swallowed; in close the   *)
(* session stays open.                                                     *)
ShutdownRaises ==
  /\ pc \in {"cleanup", "place", "idle", "unobserved"} /\ engine = "live" /\ Faulty
  /\ disowned' = TRUE /\ pc' = "over"
  /\ UNCHANGED <<files, choice, calls, resolvedStamp, engine, loaded, session, batch,
                 invocations, observed>>

(* Ctrl+C in launch: only Exception is handled there, but an unplaced       *)
(* session is closed.                                                      *)
InterruptLaunch ==
  /\ pc \in {"create", "identify", "place"} /\ Faulty
  /\ IF pc = "place" THEN Unplaced /\ UNCHANGED disowned
     ELSE /\ Raises /\ disowned' = (engine = "live") /\ UNCHANGED <<engine, session>>
  /\ UNCHANGED <<files, choice, calls, resolvedStamp, loaded, batch, invocations, observed>>

Finished == pc = "over" /\ UNCHANGED vars

Next ==
  \/ \E keeps \in BOOLEAN : Edit(keeps)
  \/ Resolve \/ LaunchLlamaCpp \/ ImportVllm \/ PinVllm \/ CreateLlm
  \/ \E matches \in BOOLEAN : Identify(matches) \/ Place(matches)
  \/ Cleanup
  \/ \E n \in 1..MaxRequests, capture \in BOOLEAN : StartInfer(n, capture)
  \/ CheckModel \/ Generate
  \/ \E templated, reports \in BOOLEAN : Spawn(templated, reports)
  \/ \E valid \in BOOLEAN : ReadAnswer(valid)
  \/ \E placed \in BOOLEAN : Observe(placed)
  \/ Close \/ CallRaises \/ ShutdownRaises \/ InterruptLaunch \/ Finished

Spec == Init /\ [][Next]_vars

-----------------------------------------------------------------------------
File    == [version : Nat, stamp : Nat]
Row     == [model : Nat, provider : Nat, templated : BOOLEAN, reports : BOOLEAN]
Working == {"place", "idle", "check", "spawn", "generate", "read", "unobserved"}

TypeOK ==
  /\ adapter \in Adapters /\ pinned \in BOOLEAN /\ model \in File /\ provider \in File
  /\ pc \in Working \union {"resolve", "launch", "pin", "create", "identify", "cleanup", "over"}
  /\ resolvedStamp \in Nat /\ engine \in {"none", "live", "released"}
  /\ loaded \in [model : Nat, provider : Nat] /\ session \in {"none", "open", "closed"}
  /\ todo \in Nat /\ tokens \in BOOLEAN /\ answered \in Seq(Row)
  /\ invocations \in Seq(Row) /\ calls \in Nat /\ edits \in Nat /\ faults \in Nat
  /\ quiet \in BOOLEAN /\ late \in BOOLEAN /\ disowned \in BOOLEAN

Observed == observed # <<>>
Rows     == observed[1].rows

(* The answers of a pinned run that could be observed came from the pinned  *)
(* bytes, whatever was edited between the hashes: all of them when the      *)
(* artifacts are hashed at the end, all but the last when only size and     *)
(* mtime are compared before each request.  Of vLLM, the model is hashed     *)
(* after it was loaded, but the installation for the last time before the   *)
(* engine is made of it: an edit after that check is not seen, so nothing   *)
(* is promised of a runtime edited from then on (late).                     *)
PinnedThroughout ==
  Observed =>
    /\ adapter = "qualified" => \A i \in DOMAIN Rows : Rows[i].provider = 0
    /\ (pinned /\ adapter # "llamacpp") => \A i \in DOMAIN Rows : Rows[i].model = 0
    /\ (pinned /\ Vllm /\ ~late) => \A i \in DOMAIN Rows : Rows[i].provider = 0
    /\ (pinned /\ ~quiet) => \A i \in DOMAIN Rows : i < Len(Rows) => Rows[i].model = 0

(* The chat template is reported as verified off only when every request of *)
(* the session ran without it, those that captured no tokens included.      *)
TemplateHonest ==
  Observed /\ observed[1].template = "disabled" =>
    \A i \in DOMAIN Rows : ~Rows[i].templated

(* An engine is live only while a launch goes on or a session is open that  *)
(* can be closed, unless its release was interrupted or raised.             *)
EngineOwned ==
  engine = "live" /\ ~disowned =>
    \/ pc \in {"identify", "cleanup"}
    \/ session = "open" /\ pc # "over"
=============================================================================
