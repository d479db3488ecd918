------------------------- MODULE NativeSessionProofs -------------------------
(***************************************************************************)
(* Proofs about NativeSession, for any number of requests, batches, edits   *)
(* and faults: whose bytes answered an observed run, and who owns the       *)
(* engine; and about ServingBatch, the workload of its vLLM sessions.        *)
(***************************************************************************)
EXTENDS NativeSession, ServingBatch, TLAPS

(* The engine belongs to a launch or to a session.                          *)
Owned ==
  /\ LlamaCpp \/ pc \in {"resolve", "launch", "pin", "create"} => engine = "none"
  /\ pc \in Working => session = "open"
  /\ EngineOwned

(* Rows exist since the first batch, answers while they are read.           *)
Fresh ==
  /\ LlamaCpp => pc \notin {"pin", "create", "identify", "cleanup", "place", "generate"}
  /\ Vllm => pc \notin {"check", "spawn"}
  /\ pc \notin Working \union {"over"} => invocations = <<>>
  /\ pc \notin {"read", "over"} => answered = <<>>
  /\ pc \in {"check", "spawn", "generate", "read"} => todo > 0
  /\ pc = "read" => Len(answered) = IF Vllm THEN todo ELSE 1

(* What was read is no younger than what is there.                          *)
Older(row) == row.model <= model.version /\ row.provider <= provider.version

RowsOlder ==
  /\ Older(loaded)
  /\ \A i \in DOMAIN invocations : Older(invocations[i])
  /\ \A i \in DOMAIN answered : Older(answered[i])

(* vLLM: the bytes that the engine's model was loaded from were hashed       *)
(* later, and its installation is the one that was checked unless edited    *)
(* since.                                                                   *)
LoadedPinned ==
  Vllm /\ pinned =>
    /\ pc \in Working => loaded.model = 0
    /\ \A i \in DOMAIN invocations : invocations[i].model = 0
    /\ \A i \in DOMAIN answered : answered[i].model = 0
    /\ ~late =>
         /\ pc \in Working \union {"create", "identify"} => provider.version = 0
         /\ \A i \in DOMAIN invocations : invocations[i].provider = 0
         /\ \A i \in DOMAIN answered : answered[i].provider = 0

(* llama.cpp: while size and mtime tell of every edit, a model that passes  *)
(* the check before a request has never been edited.                        *)
StampsTell ==
  pinned /\ ~quiet =>
    /\ model.stamp = model.version
    /\ pc \notin {"resolve", "over"} => resolvedStamp = 0
    /\ LlamaCpp /\ pc \in {"spawn", "read"} =>
         \A i \in DOMAIN invocations : invocations[i].model = 0
    /\ LlamaCpp =>
         \A i \in DOMAIN invocations : i < Len(invocations) => invocations[i].model = 0

Inv ==
  TypeOK /\ Owned /\ Fresh /\ RowsOlder /\ LoadedPinned /\ StampsTell /\ PinnedThroughout

-----------------------------------------------------------------------------
LEMMA RowTypes ==
  ASSUME NEW rows \in Seq(Row)
  PROVE  \A i \in DOMAIN rows : rows[i].model \in Nat /\ rows[i].provider \in Nat
<1>1. \A i \in DOMAIN rows : rows[i] \in Row
  OBVIOUS
<1> QED BY <1>1 DEF Row

LEMMA EqualRows ==
  ASSUME NEW n \in Nat, NEW S, NEW row \in S
  PROVE  [i \in 1..n |-> row] \in Seq(S)
OBVIOUS

LEMMA EditKeeps ==
  ASSUME Inv, NEW keeps \in BOOLEAN, Edit(keeps)
  PROVE  Inv'
<1> USE SessionAssumption DEF Inv, LlamaCpp, Vllm, Working, files, choice, native, batch
<1>a. /\ model' \in File /\ provider' \in File
      /\ model.version <= model'.version /\ provider.version <= provider'.version
  <2>1. CASE model' = Edited(model, keeps) /\ UNCHANGED provider
    BY <2>1 DEF TypeOK, File, Edited
  <2>2. CASE provider' = Edited(provider, keeps) /\ UNCHANGED model
    BY <2>2 DEF TypeOK, File, Edited
  <2> QED BY <2>1, <2>2 DEF Edit
<1>b. /\ late' \in BOOLEAN /\ (late => late')
      /\ \/ provider' = provider
         \/ Vllm /\ pc \notin {"resolve", "launch", "pin"} => late'
  <2>1. CASE UNCHANGED <<provider, late>>
    BY <2>1 DEF TypeOK
  <2>2. CASE late' = (late \/ (Vllm /\ pc \notin {"resolve", "launch", "pin"}))
    BY <2>2 DEF TypeOK
  <2> QED BY <2>1, <2>2 DEF Edit
<1>1. TypeOK'
  <2>1. edits' \in Nat /\ quiet' \in BOOLEAN
    BY DEF TypeOK, Edit
  <2> QED BY <1>a, <1>b, <2>1 DEF TypeOK, Edit
<1>2. Owned' BY DEF Owned, EngineOwned, Edit
<1>3. Fresh' BY DEF Fresh, Edit
<1>4. RowsOlder'
  <2>1. ASSUME NEW m \in Nat, NEW p \in Nat, m <= model.version, p <= provider.version
        PROVE  m <= model'.version /\ p <= provider'.version
    BY <1>a, <2>1 DEF TypeOK, File
  <2>2. UNCHANGED <<loaded, invocations, answered>>
    BY DEF Edit
  <2>3. Older(loaded)'
    BY <2>1, <2>2 DEF TypeOK, RowsOlder, Older
  <2>4. \A i \in DOMAIN invocations :
          invocations[i].model \in Nat /\ invocations[i].provider \in Nat
    BY RowTypes DEF TypeOK
  <2>5. \A i \in DOMAIN answered :
          answered[i].model \in Nat /\ answered[i].provider \in Nat
    BY RowTypes DEF TypeOK
  <2> QED BY <2>1, <2>2, <2>3, <2>4, <2>5 DEF RowsOlder, Older
<1>5. LoadedPinned'
  <2>1. UNCHANGED <<adapter, pinned, pc, loaded, invocations, answered>>
    BY DEF Edit
  <2> QED BY <1>b, <2>1 DEF LoadedPinned
<1>6. StampsTell' BY DEF TypeOK, File, StampsTell, Edit, Edited
<1>7. PinnedThroughout'
  <2>1. UNCHANGED <<adapter, pinned, observed>> /\ (quiet => quiet')
    BY DEF Edit
  <2> QED BY <1>b, <2>1 DEF PinnedThroughout, Observed, Rows
<1> QED BY <1>1, <1>2, <1>3, <1>4, <1>5, <1>6, <1>7

LEMMA ResolveKeeps ==
  ASSUME Inv, Resolve
  PROVE  Inv'
<1> USE SessionAssumption
    DEF Inv, LlamaCpp, Vllm, Working, Resolve, Sound, Raises, files, choice, native, batch
<1>1. TypeOK' BY DEF TypeOK, File
<1>2. Owned' BY DEF Owned, EngineOwned
<1>3. Fresh' BY DEF Fresh
<1>4. RowsOlder' BY DEF RowsOlder, Older
<1>5. LoadedPinned' BY DEF LoadedPinned
<1>6. StampsTell' BY DEF StampsTell, ModelBytes
<1>7. PinnedThroughout' BY DEF PinnedThroughout, Observed, Rows
<1> QED BY <1>1, <1>2, <1>3, <1>4, <1>5, <1>6, <1>7

LEMMA LaunchLlamaCppKeeps ==
  ASSUME Inv, LaunchLlamaCpp
  PROVE  Inv'
<1> USE SessionAssumption
    DEF Inv, LlamaCpp, Vllm, Working, LaunchLlamaCpp, Sound, Raises, files, choice, native, batch
<1>1. TypeOK' BY DEF TypeOK
<1>2. Owned' BY DEF Owned, EngineOwned
<1>3. Fresh' BY DEF Fresh
<1>4. RowsOlder' BY DEF RowsOlder, Older
<1>5. LoadedPinned' BY DEF LoadedPinned
<1>6. StampsTell' BY DEF StampsTell
<1>7. PinnedThroughout' BY DEF PinnedThroughout, Observed, Rows
<1> QED BY <1>1, <1>2, <1>3, <1>4, <1>5, <1>6, <1>7

LEMMA ImportVllmKeeps ==
  ASSUME Inv, ImportVllm
  PROVE  Inv'
<1> USE SessionAssumption
    DEF Inv, LlamaCpp, Vllm, Working, ImportVllm, Sound, files, choice, native, batch
<1>1. TypeOK' BY DEF TypeOK, File
<1>2. Owned' BY DEF Owned, EngineOwned
<1>3. Fresh' BY DEF Fresh
<1>4. RowsOlder' BY DEF TypeOK, File, RowsOlder, Older
<1>5. LoadedPinned' BY DEF LoadedPinned
<1>6. StampsTell' BY DEF StampsTell
<1>7. PinnedThroughout' BY DEF PinnedThroughout, Observed, Rows
<1> QED BY <1>1, <1>2, <1>3, <1>4, <1>5, <1>6, <1>7

LEMMA PinVllmKeeps ==
  ASSUME Inv, PinVllm
  PROVE  Inv'
<1> USE SessionAssumption
    DEF Inv, LlamaCpp, Vllm, Working, PinVllm, Sound, Raises, files, choice, native, batch
<1>1. TypeOK' BY DEF TypeOK
<1>2. Owned' BY DEF Owned, EngineOwned
<1>3. Fresh' BY DEF Fresh
<1>4. RowsOlder' BY DEF RowsOlder, Older
<1>5. LoadedPinned' BY DEF TypeOK, RowsOlder, Older, LoadedPinned, ProviderBytes
<1>6. StampsTell' BY DEF StampsTell
<1>7. PinnedThroughout' BY DEF PinnedThroughout, Observed, Rows
<1> QED BY <1>1, <1>2, <1>3, <1>4, <1>5, <1>6, <1>7

LEMMA CreateLlmKeeps ==
  ASSUME Inv, CreateLlm
  PROVE  Inv'
<1> USE SessionAssumption
    DEF Inv, LlamaCpp, Vllm, Working, CreateLlm, Sound, files, choice, native, batch
<1>1. TypeOK' BY DEF TypeOK, File
<1>2. Owned' BY DEF Owned, EngineOwned, Fresh
<1>3. Fresh' BY DEF Fresh
<1>4. RowsOlder' BY DEF TypeOK, File, RowsOlder, Older
<1>5. LoadedPinned' BY DEF LoadedPinned
<1>6. StampsTell' BY DEF StampsTell
<1>7. PinnedThroughout' BY DEF PinnedThroughout, Observed, Rows
<1> QED BY <1>1, <1>2, <1>3, <1>4, <1>5, <1>6, <1>7

LEMMA IdentifyKeeps ==
  ASSUME Inv, NEW matches \in BOOLEAN, Identify(matches)
  PROVE  Inv'
<1> USE SessionAssumption
    DEF Inv, LlamaCpp, Vllm, Working, Identify, Sound, LoadedBytes, files, choice, native, batch
<1>1. TypeOK' BY DEF TypeOK
<1>2. Owned' BY DEF Owned, EngineOwned
<1>3. Fresh' BY DEF Fresh
<1>4. RowsOlder' BY DEF RowsOlder, Older
<1>5. LoadedPinned' BY DEF TypeOK, RowsOlder, Older, LoadedPinned, ModelBytes
<1>6. StampsTell' BY DEF StampsTell
<1>7. PinnedThroughout' BY DEF PinnedThroughout, Observed, Rows
<1> QED BY <1>1, <1>2, <1>3, <1>4, <1>5, <1>6, <1>7

LEMMA CleanupKeeps ==
  ASSUME Inv, Cleanup
  PROVE  Inv'
<1> USE SessionAssumption
    DEF Inv, LlamaCpp, Vllm, Working, Cleanup, Sound, Raises, files, choice, native, batch
<1>1. TypeOK' BY DEF TypeOK
<1>2. Owned' BY DEF Owned, EngineOwned, Fresh
<1>3. Fresh' BY DEF Fresh
<1>4. RowsOlder' BY DEF RowsOlder, Older
<1>5. LoadedPinned' BY DEF LoadedPinned
<1>6. StampsTell' BY DEF StampsTell
<1>7. PinnedThroughout' BY DEF PinnedThroughout, Observed, Rows
<1> QED BY <1>1, <1>2, <1>3, <1>4, <1>5, <1>6, <1>7

LEMMA PlaceKeeps ==
  ASSUME Inv, NEW reported \in BOOLEAN, Place(reported)
  PROVE  Inv'
<1> USE SessionAssumption
    DEF Inv, LlamaCpp, Vllm, Working, Place, Unplaced, Sound, files, choice, native, batch
<1>1. TypeOK' BY DEF TypeOK
<1>2. Owned' BY DEF Owned, EngineOwned, Fresh
<1>3. Fresh' BY DEF Fresh
<1>4. RowsOlder' BY DEF RowsOlder, Older
<1>5. LoadedPinned' BY DEF LoadedPinned
<1>6. StampsTell' BY DEF StampsTell
<1>7. PinnedThroughout' BY DEF PinnedThroughout, Observed, Rows
<1> QED BY <1>1, <1>2, <1>3, <1>4, <1>5, <1>6, <1>7

LEMMA StartInferKeeps ==
  ASSUME Inv, NEW n \in 1..MaxRequests, NEW capture \in BOOLEAN, StartInfer(n, capture)
  PROVE  Inv'
<1> USE SessionAssumption
    DEF Inv, LlamaCpp, Vllm, Working, StartInfer, files, choice, native, batch
<1>1. TypeOK' BY DEF TypeOK
<1>2. Owned' BY DEF Owned, EngineOwned
<1>3. Fresh' BY DEF Fresh
<1>4. RowsOlder' BY DEF RowsOlder, Older
<1>5. LoadedPinned' BY DEF LoadedPinned
<1>6. StampsTell' BY DEF StampsTell
<1>7. PinnedThroughout' BY DEF PinnedThroughout, Observed, Rows
<1> QED BY <1>1, <1>2, <1>3, <1>4, <1>5, <1>6, <1>7

LEMMA CheckModelKeeps ==
  ASSUME Inv, CheckModel
  PROVE  Inv'
<1> USE SessionAssumption
    DEF Inv, LlamaCpp, Vllm, Working, CheckModel, BatchRaises, Sound, files, choice, native, batch
<1>1. TypeOK'
  <2>1. CASE ModelStat
    BY <2>1 DEF TypeOK, CheckModel, Sound, files, choice, native, batch
  <2>2. CASE ~ModelStat
    BY <2>2 DEF TypeOK
  <2> QED BY <2>1, <2>2
<1>2. Owned' BY DEF Owned, EngineOwned
<1>3. Fresh' BY DEF Fresh
<1>4. RowsOlder' BY DEF RowsOlder, Older
<1>5. LoadedPinned' BY DEF LoadedPinned
<1>6. StampsTell'
  <2>1. CASE ModelStat
    <3>1. ASSUME pinned, ~quiet
          PROVE  \A i \in DOMAIN invocations : invocations[i].model = 0
      <4>1. model.version = 0
        BY <2>1, <3>1 DEF CheckModel, ModelStat, StampsTell
      <4>2. \A i \in DOMAIN invocations : invocations[i].model \in Nat
        BY RowTypes DEF TypeOK
      <4> QED BY <4>1, <4>2 DEF RowsOlder, Older
    <3> QED BY <2>1, <3>1 DEF TypeOK, StampsTell, CheckModel, Sound, files, choice, native, batch
  <2>2. CASE ~ModelStat
    BY <2>2 DEF TypeOK, StampsTell
  <2> QED BY <2>1, <2>2
<1>7. PinnedThroughout' BY DEF PinnedThroughout, Observed, Rows
<1> QED BY <1>1, <1>2, <1>3, <1>4, <1>5, <1>6, <1>7

LEMMA SpawnKeeps ==
  ASSUME Inv, NEW templated \in BOOLEAN, NEW reports \in BOOLEAN, Spawn(templated, reports)
  PROVE  Inv'
<1> USE SessionAssumption
    DEF Inv, LlamaCpp, Vllm, Working, Spawn, Sound, files, choice, native, batch
<1>1. TypeOK' BY DEF TypeOK, File, Row
<1>2. Owned' BY DEF Owned, EngineOwned
<1>3. Fresh' BY DEF Fresh
<1>4. RowsOlder' BY DEF TypeOK, File, RowsOlder, Older
<1>5. LoadedPinned' BY DEF Fresh, LoadedPinned
<1>6. StampsTell' BY DEF StampsTell
<1>7. PinnedThroughout' BY DEF PinnedThroughout, Observed, Rows
<1> QED BY <1>1, <1>2, <1>3, <1>4, <1>5, <1>6, <1>7

LEMMA GenerateKeeps ==
  ASSUME Inv, Generate
  PROVE  Inv'
<1> USE SessionAssumption
    DEF Inv, LlamaCpp, Vllm, Working, Generate, Sound, files, choice, native, batch
<1>1. TypeOK'
  <2>1. loaded' \in [model : Nat, provider : Nat]
    BY DEF TypeOK, File
  <2>2. model.version \in Nat /\ provider.version \in Nat /\ loaded.model \in Nat /\ todo \in Nat
    BY DEF TypeOK, File
  <2> DEFINE row == [model |-> loaded.model, provider |-> provider.version,
                     templated |-> TRUE, reports |-> FALSE]
  <2>3. row \in Row /\ answered' = [i \in 1..todo |-> row]
    BY <2>2 DEF Row
  <2> HIDE DEF row
  <2>4. answered' \in Seq(Row)
    BY <2>2, <2>3, EqualRows, Zenon
  <2> HIDE DEF Row
  <2> QED BY <2>1, <2>4 DEF TypeOK
<1>2. Owned' BY DEF Owned, EngineOwned
<1>3. Fresh' BY DEF TypeOK, Fresh
<1>4. RowsOlder' BY DEF TypeOK, File, RowsOlder, Older
<1>5. LoadedPinned' BY DEF LoadedPinned
<1>6. StampsTell' BY DEF Fresh, StampsTell
<1>7. PinnedThroughout' BY DEF PinnedThroughout, Observed, Rows
<1> QED BY <1>1, <1>2, <1>3, <1>4, <1>5, <1>6, <1>7

LEMMA ReadAnswerKeeps ==
  ASSUME Inv, NEW valid \in BOOLEAN, ReadAnswer(valid)
  PROVE  Inv'
<1> USE SessionAssumption DEF Inv, LlamaCpp, Vllm, Working
<1>1. CASE ~valid
  <2> USE <1>1 DEF ReadAnswer, BatchRaises, Sound, files, choice, native, batch
  <2>1. TypeOK' BY DEF TypeOK
  <2>2. Owned' BY DEF TypeOK, Owned, EngineOwned, Fresh
  <2>3. Fresh' BY DEF TypeOK, Fresh
  <2>4. RowsOlder' BY DEF TypeOK, RowsOlder, Older
  <2>5. LoadedPinned' BY DEF TypeOK, LoadedPinned
  <2>6. StampsTell' BY DEF TypeOK, StampsTell
  <2>7. PinnedThroughout' BY DEF PinnedThroughout, Observed, Rows
  <2> QED BY <2>1, <2>2, <2>3, <2>4, <2>5, <2>6, <2>7
<1>2. CASE valid
  <2> DEFINE row == Head(answered)
             n   == Len(invocations)
  <2>1. /\ invocations' = Append(invocations, row) /\ answered' = Tail(answered)
        /\ todo' = todo - 1 /\ pc = "read"
        /\ pc' = IF todo = 1 THEN "idle" ELSE IF LlamaCpp THEN "check" ELSE "read"
    BY <1>2 DEF ReadAnswer
  <2>2. answered # <<>> /\ answered \in Seq(Row) /\ todo \in Nat /\ todo > 0
    BY <2>1 DEF TypeOK, Fresh
  <2>3. row \in Row /\ row = answered[1] /\ 1 \in DOMAIN answered
    BY <2>2
  <2>4. /\ invocations' \in Seq(Row) /\ Len(invocations') = n + 1
        /\ \A i \in 1..n : invocations'[i] = invocations[i]
        /\ invocations'[n + 1] = row
    BY <2>1, <2>3 DEF TypeOK
  <2>5. /\ answered' \in Seq(Row) /\ Len(answered') = Len(answered) - 1
        /\ \A i \in DOMAIN answered' :
             i + 1 \in DOMAIN answered /\ answered'[i] = answered[i + 1]
    BY <2>1, <2>2
  <2>6. \A i \in DOMAIN invocations' : i \in DOMAIN invocations \/ invocations'[i] = row
    BY <2>4 DEF TypeOK
  <2>7. DOMAIN invocations = 1..n /\ n \in Nat /\ DOMAIN invocations' = 1..(n + 1)
    BY <2>4 DEF TypeOK
  <2> USE <1>2 DEF ReadAnswer, Sound, files, choice, native, batch
  <2> HIDE DEF row, n
  <2>11. TypeOK'
    BY <2>1, <2>2, <2>4, <2>5 DEF TypeOK
  <2>12. Owned' BY <2>1 DEF TypeOK, Owned, EngineOwned, Fresh
  <2>13. Fresh'
    <3>1. UNCHANGED adapter
      OBVIOUS
    <3>2. Len(answered) = IF Vllm THEN todo ELSE 1
      BY <2>1 DEF Fresh
    <3>3. adapter \in {"llamacpp", "qualified", "vllm", "placed"}
      BY DEF TypeOK
    <3>4. Len(answered') = 0 => answered' = <<>>
      BY <2>5
    <3> QED BY <2>1, <2>2, <2>5, <3>1, <3>2, <3>3, <3>4 DEF Fresh
  <2>14. RowsOlder'
    BY <2>3, <2>4, <2>5, <2>6, <2>7 DEF RowsOlder, Older
  <2>15. LoadedPinned'
    BY <2>1, <2>3, <2>4, <2>5, <2>6, <2>7 DEF LoadedPinned
  <2>16. StampsTell'
    BY <2>1, <2>4, <2>7 DEF StampsTell
  <2>17. PinnedThroughout' BY DEF PinnedThroughout, Observed, Rows
  <2> QED BY <2>11, <2>12, <2>13, <2>14, <2>15, <2>16, <2>17
<1> QED BY <1>1, <1>2

LEMMA ObserveKeeps ==
  ASSUME Inv, NEW placed \in BOOLEAN, Observe(placed)
  PROVE  Inv'
<1> USE SessionAssumption
    DEF Inv, LlamaCpp, Vllm, Working, Observe, Observation, StillPinned, Sound,
        files, choice, native, batch
<1>1. TypeOK' BY DEF TypeOK
<1>2. Owned' BY DEF Owned, EngineOwned
<1>3. Fresh' BY DEF Fresh
<1>4. RowsOlder' BY DEF RowsOlder, Older
<1>5. LoadedPinned' BY DEF LoadedPinned
<1>6. StampsTell' BY DEF StampsTell
<1>7. PinnedThroughout'
  <2>1. CASE StillPinned /\ (adapter = "placed" => placed)
    <3>1. observed' = <<Observation>> /\ Rows' = invocations
      BY <2>1 DEF Observe, Observation, Rows
    <3>2. adapter = "qualified" =>
            /\ \A i \in DOMAIN invocations : invocations[i].provider = 0
            /\ pinned => \A i \in DOMAIN invocations : invocations[i].model = 0
      <4>1. \A i \in DOMAIN invocations :
              invocations[i].model \in Nat /\ invocations[i].provider \in Nat
        BY RowTypes DEF TypeOK
      <4>2. adapter = "qualified" => provider.version = 0 /\ (pinned => model.version = 0)
        BY <2>1 DEF StillPinned, ProviderBytes, ModelBytes
      <4> QED BY <4>1, <4>2 DEF RowsOlder, Older
    <3>3. pinned /\ adapter # "llamacpp" =>
            \A i \in DOMAIN invocations : invocations[i].model = 0
      BY <3>2 DEF LoadedPinned, TypeOK
    <3>6. pinned /\ Vllm /\ ~late =>
            \A i \in DOMAIN invocations : invocations[i].provider = 0
      BY DEF LoadedPinned
    <3>4. pinned /\ ~quiet =>
            \A i \in DOMAIN invocations : i < Len(invocations) => invocations[i].model = 0
      BY <3>3 DEF StampsTell
    <3>5. UNCHANGED <<adapter, pinned, quiet, late>>
      BY DEF Observe, Sound, files, choice
    <3> QED BY <3>1, <3>2, <3>3, <3>4, <3>5, <3>6 DEF PinnedThroughout
  <2>2. CASE ~(StillPinned /\ (adapter = "placed" => placed))
    BY <2>2 DEF PinnedThroughout, Observed, Rows, Observe, Sound, files, choice
  <2> QED BY <2>1, <2>2
<1> QED BY <1>1, <1>2, <1>3, <1>4, <1>5, <1>6, <1>7

LEMMA CloseKeeps ==
  ASSUME Inv, Close
  PROVE  Inv'
<1> USE SessionAssumption
    DEF Inv, LlamaCpp, Vllm, Working, Close, Sound, files, choice, native, batch
<1>1. TypeOK' BY DEF TypeOK
<1>2. Owned' BY DEF TypeOK, Owned, EngineOwned
<1>3. Fresh' BY DEF Fresh
<1>4. RowsOlder' BY DEF RowsOlder, Older
<1>5. LoadedPinned' BY DEF LoadedPinned
<1>6. StampsTell' BY DEF StampsTell
<1>7. PinnedThroughout' BY DEF PinnedThroughout, Observed, Rows
<1> QED BY <1>1, <1>2, <1>3, <1>4, <1>5, <1>6, <1>7

LEMMA CallRaisesKeeps ==
  ASSUME Inv, CallRaises
  PROVE  Inv'
<1> USE SessionAssumption
    DEF Inv, LlamaCpp, Vllm, Working, CallRaises, BatchRaises, Raises, Faulty,
        files, choice, native, batch
<1>1. TypeOK' BY DEF TypeOK, Fresh
<1>2. Owned' BY DEF Owned, EngineOwned
<1>3. Fresh' BY DEF Fresh
<1>4. RowsOlder' BY DEF RowsOlder, Older
<1>5. LoadedPinned' BY DEF LoadedPinned
<1>6. StampsTell' BY DEF StampsTell
<1>7. PinnedThroughout' BY DEF PinnedThroughout, Observed, Rows
<1> QED BY <1>1, <1>2, <1>3, <1>4, <1>5, <1>6, <1>7

LEMMA ShutdownRaisesKeeps ==
  ASSUME Inv, ShutdownRaises
  PROVE  Inv'
<1> USE SessionAssumption
    DEF Inv, LlamaCpp, Vllm, Working, ShutdownRaises, Faulty, files, choice, native, batch
<1>1. TypeOK' BY DEF TypeOK
<1>2. Owned' BY DEF Owned, EngineOwned
<1>3. Fresh' BY DEF Fresh
<1>4. RowsOlder' BY DEF RowsOlder, Older
<1>5. LoadedPinned' BY DEF LoadedPinned
<1>6. StampsTell' BY DEF StampsTell
<1>7. PinnedThroughout' BY DEF PinnedThroughout, Observed, Rows
<1> QED BY <1>1, <1>2, <1>3, <1>4, <1>5, <1>6, <1>7

LEMMA InterruptLaunchKeeps ==
  ASSUME Inv, InterruptLaunch
  PROVE  Inv'
<1> USE SessionAssumption
    DEF Inv, LlamaCpp, Vllm, Working, InterruptLaunch, Unplaced, Raises, Faulty,
        files, choice, native, batch
<1>1. TypeOK'
  <2>1. disowned' \in BOOLEAN
    <3>1. CASE pc = "place" BY <3>1 DEF InterruptLaunch, TypeOK
    <3>2. CASE pc # "place" BY <3>2 DEF InterruptLaunch
    <3> QED BY <3>1, <3>2
  <2> QED BY <2>1 DEF TypeOK
<1>2. Owned' BY DEF Owned, EngineOwned, Fresh
<1>3. Fresh' BY DEF Fresh
<1>4. RowsOlder' BY DEF RowsOlder, Older
<1>5. LoadedPinned' BY DEF LoadedPinned
<1>6. StampsTell' BY DEF StampsTell
<1>7. PinnedThroughout' BY DEF PinnedThroughout, Observed, Rows
<1> QED BY <1>1, <1>2, <1>3, <1>4, <1>5, <1>6, <1>7

LEMMA FinishedKeeps ==
  ASSUME Inv, UNCHANGED vars
  PROVE  Inv'
<1> USE SessionAssumption
    DEF Inv, LlamaCpp, Vllm, Working, vars, files, choice, native, batch
<1>1. TypeOK' BY DEF TypeOK
<1>2. Owned' BY DEF Owned, EngineOwned
<1>3. Fresh' BY DEF Fresh
<1>4. RowsOlder' BY DEF RowsOlder, Older
<1>5. LoadedPinned' BY DEF LoadedPinned
<1>6. StampsTell' BY DEF StampsTell
<1>7. PinnedThroughout' BY DEF PinnedThroughout, Observed, Rows
<1> QED BY <1>1, <1>2, <1>3, <1>4, <1>5, <1>6, <1>7

LEMMA InitInv == Init => Inv
<1> SUFFICES ASSUME Init PROVE Inv
  OBVIOUS
<1> USE SessionAssumption DEF Init, LlamaCpp, Vllm, Working
<1>1. TypeOK
  <2>1. <<>> \in Seq(Row)
    OBVIOUS
  <2> QED BY <2>1 DEF TypeOK, File
<1>2. Owned /\ Fresh BY DEF Owned, EngineOwned, Fresh
<1>3. RowsOlder /\ LoadedPinned /\ StampsTell BY DEF RowsOlder, Older, LoadedPinned, StampsTell
<1>4. PinnedThroughout BY DEF PinnedThroughout, Observed
<1> QED BY <1>1, <1>2, <1>3, <1>4 DEF Inv

LEMMA NextInv == Inv /\ [Next]_vars => Inv'
<1> SUFFICES ASSUME Inv, [Next]_vars PROVE Inv'
  OBVIOUS
<1>1. CASE \E keeps \in BOOLEAN : Edit(keeps) BY <1>1, EditKeeps
<1>2. CASE Resolve \/ LaunchLlamaCpp \/ ImportVllm \/ PinVllm \/ CreateLlm
  BY <1>2, ResolveKeeps, LaunchLlamaCppKeeps, ImportVllmKeeps, PinVllmKeeps, CreateLlmKeeps
<1>3. CASE \E matches \in BOOLEAN : Identify(matches) \/ Place(matches)
  BY <1>3, IdentifyKeeps, PlaceKeeps
<1>4. CASE Cleanup \/ CheckModel \/ Generate
  BY <1>4, CleanupKeeps, CheckModelKeeps, GenerateKeeps
<1>5. CASE \E n \in 1..MaxRequests, capture \in BOOLEAN : StartInfer(n, capture)
  BY <1>5, StartInferKeeps
<1>6. CASE \E templated, reports \in BOOLEAN : Spawn(templated, reports)
  BY <1>6, SpawnKeeps
<1>7. CASE \E valid \in BOOLEAN : ReadAnswer(valid)
  BY <1>7, ReadAnswerKeeps
<1>8. CASE \E placed \in BOOLEAN : Observe(placed)
  BY <1>8, ObserveKeeps
<1>9. CASE Close \/ CallRaises \/ ShutdownRaises \/ InterruptLaunch \/ Finished \/ UNCHANGED vars
  BY <1>9, CloseKeeps, CallRaisesKeeps, ShutdownRaisesKeeps, InterruptLaunchKeeps, FinishedKeeps
     DEF Finished
<1> QED BY <1>1, <1>2, <1>3, <1>4, <1>5, <1>6, <1>7, <1>8, <1>9 DEF Next

LEMMA Invariant == Spec => []Inv
<1>1. Init => Inv BY InitInv
<1>2. Inv /\ [Next]_vars => Inv' BY NextInv
<1> QED BY <1>1, <1>2, PTL DEF Spec

(* The state of a session keeps its type.                                   *)
THEOREM TypeCorrect == Spec => []TypeOK
<1>1. Inv => TypeOK BY DEF Inv
<1> QED BY <1>1, Invariant, PTL

(* The answers of a pinned run that could be observed came from the pinned  *)
(* bytes, however often the artifacts were edited and the runtime was       *)
(* called: see PinnedThroughout.                                           *)
THEOREM RunsArePinned == Spec => []PinnedThroughout
<1>1. Inv => PinnedThroughout BY DEF Inv
<1> QED BY <1>1, Invariant, PTL

(* A live engine has an owner that will release it.                        *)
THEOREM EngineIsOwned == Spec => []EngineOwned
<1>1. Inv => EngineOwned BY DEF Inv, Owned
<1> QED BY <1>1, Invariant, PTL

(* A template is reported off only when no request used it.                 *)
THEOREM TemplateIsHonest == Spec => []TemplateHonest
<1>1. Init => TemplateHonest
  BY DEF Init, TemplateHonest, Observed
<1>2. TemplateHonest /\ [Next]_vars => TemplateHonest'
  <2> SUFFICES ASSUME TemplateHonest, [Next]_vars PROVE TemplateHonest'
    OBVIOUS
  <2>1. CASE UNCHANGED observed
    BY <2>1 DEF TemplateHonest, Observed, Rows
  <2>2. CASE observed' = <<Observation>>
    <3>1. observed'[1].template = "disabled" => TemplateOff
      BY <2>2 DEF Observation
    <3>2. Rows' = invocations
      BY <2>2 DEF Observation, Rows
    <3>3. TemplateOff => \A i \in DOMAIN invocations : ~invocations[i].templated
      BY DEF TemplateOff
    <3> QED BY <3>1, <3>2, <3>3 DEF TemplateHonest
  <2>3. UNCHANGED observed \/ observed' = <<Observation>>
    BY DEF Next, vars, Edit, Resolve, LaunchLlamaCpp, ImportVllm, PinVllm, CreateLlm, Identify,
           Place, Cleanup, StartInfer, CheckModel, Generate, Spawn, ReadAnswer, Observe, Close,
           CallRaises, ShutdownRaises, InterruptLaunch, Finished
  <2> QED BY <2>1, <2>2, <2>3
<1> QED BY <1>1, <1>2, PTL DEF Spec

-----------------------------------------------------------------------------
(* The concurrent workload that runs in a session of the vLLM adapter       *)
(* (ServingBatch), for any number of requests, trials and tokens.           *)
Points == {"reset", "memory", "generate", "batch", "drain", "record", "snapshot",
           "measure", "close", "cleanup", "closed"}
Over   == {"close", "cleanup", "closed"}
BatchSet == [trial : Nat, peak : Nat, requests : [Inputs -> Seq(Nat)] \cup {<<>>}]

Typed ==
  /\ point \in Points /\ trial \in 1..Warmups + Trials
  /\ task \in [Inputs -> Settled \cup {"queued", "running", "cancelling"}]
  /\ chunks \in [Inputs -> Seq(Nat)] /\ traces \in [Inputs -> Seq(Nat)]
  /\ peak \in Nat /\ last \in BatchSet /\ batches \in Seq(BatchSet)
  /\ memories \in Seq(SUBSET Nat) /\ counted \subseteq Nat /\ cuda \in BOOLEAN
  /\ reset \in BOOLEAN /\ outcome \in {"none", "completed", "failed", "interrupted"}

(* Tasks are pending only while a batch runs, or after an interrupt.         *)
Tidy ==
  /\ (outcome # "none") <=> (point \in Over)
  /\ point \notin {"batch", "drain"} \cup Over => AllSettled
  /\ point \in {"cleanup", "closed"} =>
       \A i \in Inputs : task[i] \in Settled \cup {"cancelling"}
  /\ NothingPending

(* How many batches and snapshots there are at each point of a trial.        *)
Before == IF trial > Warmups THEN trial - Warmups - 1 ELSE 0

Counted ==
  /\ point \notin {"snapshot", "measure"} \cup Over => Len(batches) = Before
  /\ point \notin {"measure"} \cup Over => Len(memories) = Before
  /\ point = "snapshot" => Measured /\ Len(batches) = trial - Warmups
  /\ point = "measure" \/ outcome = "completed" =>
       Len(batches) = Trials /\ Len(memories) = Trials

(* A trace is what a finished stream delivered.                             *)
Traced ==
  /\ point = "batch" => \A i \in Inputs : task[i] = "done" => traces[i] # NoTrace
  /\ point = "record" => last.trial = trial /\ Complete(last)
  /\ \A k \in DOMAIN batches : batches[k].trial = Warmups + k /\ Complete(batches[k])

(* What the cache and the peak counters cover.                              *)
Contained ==
  /\ point \notin {"reset"} \cup Over => cached \subseteq {trial}
  /\ point \in {"memory", "generate"} => cached = {}
  /\ point \in {"memory"} => Measured
  /\ point \in {"generate", "batch", "drain", "record", "snapshot"} /\ Measured /\ cuda =>
       counted \subseteq {trial}
  /\ TrialsIsolated

ServingInv == Typed /\ Tidy /\ Counted /\ Traced /\ Contained

-----------------------------------------------------------------------------
LEMMA SessionFailsKeeps ==
  ASSUME ServingInv, SessionFails
  PROVE  ServingInv'
<1> USE ServingAssumption DEF ServingInv, Points, Over, Settled, SessionFails,
          Leave, requestState, device, results
<1>1. Typed' BY DEF Typed
<1>2. Tidy' BY DEF Tidy, NothingPending, AllSettled
<1>3. Counted' BY DEF Counted
<1>4. Traced' BY DEF Traced
<1>5. Contained' BY DEF Contained, TrialsIsolated, Running
<1> QED BY <1>1, <1>2, <1>3, <1>4, <1>5

LEMMA ResetPrefixKeeps ==
  ASSUME ServingInv, ResetPrefix
  PROVE  ServingInv'
<1> USE ServingAssumption DEF ServingInv, Points, Over, Settled, ResetPrefix,
          requestState, device, results
<1>1. Typed' BY DEF Typed
<1>2. Tidy' BY DEF Tidy, NothingPending, AllSettled
<1>3. Counted' BY DEF Counted, Before
<1>4. Traced' BY DEF Traced
<1>5. Contained'
    BY DEF Contained, Measured, TrialsIsolated, Running, Tidy,
         AllSettled
<1> QED BY <1>1, <1>2, <1>3, <1>4, <1>5

LEMMA ResetMemoryKeeps ==
  ASSUME ServingInv, ResetMemory
  PROVE  ServingInv'
<1> USE ServingAssumption DEF ServingInv, Points, Over, Settled, ResetMemory,
          requestState, device, results
<1>1. Typed' BY DEF Typed
<1>2. Tidy' BY DEF Tidy, NothingPending, AllSettled
<1>3. Counted' BY DEF Counted, Before
<1>4. Traced' BY DEF Traced
<1>5. Contained' BY DEF Contained, TrialsIsolated, Running
<1> QED BY <1>1, <1>2, <1>3, <1>4, <1>5

LEMMA BatchGenerateKeeps ==
  ASSUME ServingInv, GenerateBatch
  PROVE  ServingInv'
<1> USE ServingAssumption DEF ServingInv, Points, Over, Settled, GenerateBatch,
          requestState, device, results
<1>1. Typed' BY DEF Typed, BatchSet, NoTrace, NoBatch
<1>2. Tidy' BY DEF Tidy, NothingPending
<1>3. Counted' BY DEF Counted, Before
<1>4. Traced' BY DEF Traced
<1>5. Contained' BY DEF Contained, Measured, TrialsIsolated, Running
<1> QED BY <1>1, <1>2, <1>3, <1>4, <1>5

LEMMA AdmitKeeps ==
  ASSUME ServingInv, NEW i \in Inputs, Admit(i)
  PROVE  ServingInv'
<1> USE ServingAssumption DEF ServingInv, Points, Over, Settled, Admit,
          requestState, device, results
<1>1. Typed' BY DEF Typed
<1>2. Tidy' BY DEF Tidy, NothingPending, AllSettled
<1>3. Counted' BY DEF Counted, Before, Measured
<1>4. Traced' BY DEF Traced
<1>5. Contained'
    BY DEF Contained, Measured, TrialsIsolated, Tidy, LoopRuns
<1> QED BY <1>1, <1>2, <1>3, <1>4, <1>5

LEMMA ChunkKeeps ==
  ASSUME ServingInv, NEW i \in Inputs, Chunk(i)
  PROVE  ServingInv'
<1> USE ServingAssumption DEF ServingInv, Points, Over, Settled, Chunk,
          requestState, device, results
<1>1. Typed' BY DEF Typed
<1>2. Tidy' BY DEF Tidy, NothingPending, AllSettled
<1>3. Counted' BY DEF Counted, Before, Measured
<1>4. Traced' BY DEF Traced
<1>5. Contained' BY DEF Contained, Measured, TrialsIsolated, Running
<1> QED BY <1>1, <1>2, <1>3, <1>4, <1>5

LEMMA FinishKeeps ==
  ASSUME ServingInv, NEW i \in Inputs, Finish(i)
  PROVE  ServingInv'
<1> USE ServingAssumption DEF ServingInv, Points, Over, Settled, Finish,
          requestState, device, results
<1>1. Typed' BY DEF Typed
<1>2. Tidy' BY DEF Tidy, NothingPending, AllSettled
<1>3. Counted' BY DEF Counted, Before, Measured
<1>4. Traced' BY DEF Typed, Traced, NoTrace
<1>5. Contained' BY DEF Contained, Measured, TrialsIsolated, Running
<1> QED BY <1>1, <1>2, <1>3, <1>4, <1>5

LEMMA StreamFailsKeeps ==
  ASSUME ServingInv, NEW i \in Inputs, StreamFails(i)
  PROVE  ServingInv'
<1> USE ServingAssumption DEF ServingInv, Points, Over, Settled, StreamFails,
          requestState, device, results
<1>1. Typed' BY DEF Typed
<1>2. Tidy' BY DEF Tidy, NothingPending, AllSettled
<1>3. Counted' BY DEF Counted, Before, Measured
<1>4. Traced' BY DEF Traced
<1>5. Contained' BY DEF Contained, Measured, TrialsIsolated, Running
<1> QED BY <1>1, <1>2, <1>3, <1>4, <1>5

LEMMA CancelledKeeps ==
  ASSUME ServingInv, NEW i \in Inputs, Cancelled(i)
  PROVE  ServingInv'
<1> USE ServingAssumption DEF ServingInv, Points, Over, Settled, Cancelled,
          requestState, device, results
<1>1. Typed' BY DEF Typed
<1>2. Tidy' BY DEF Tidy, NothingPending, AllSettled
<1>3. Counted' BY DEF Counted, Before, Measured
<1>4. Traced' BY DEF Traced
<1>5. Contained' BY DEF Contained, Measured, TrialsIsolated, Running
<1> QED BY <1>1, <1>2, <1>3, <1>4, <1>5

LEMMA GatherAllKeeps ==
  ASSUME ServingInv, GatherAll
  PROVE  ServingInv'
<1> USE ServingAssumption DEF ServingInv, Points, Over, Settled, GatherAll,
          requestState, device, results
<1>1. Typed' BY DEF Typed, BatchSet
<1>2. Tidy' BY DEF Tidy, NothingPending, AllSettled
<1>3. Counted' BY DEF Counted, Before
<1>4. Traced' BY DEF Traced, Complete
<1>5. Contained' BY DEF Contained, Measured, TrialsIsolated, Running
<1> QED BY <1>1, <1>2, <1>3, <1>4, <1>5

LEMMA GatherFailsKeeps ==
  ASSUME ServingInv, GatherFails
  PROVE  ServingInv'
<1> USE ServingAssumption DEF ServingInv, Points, Over, Settled, GatherFails,
          CancelAll, requestState, device, results
<1>1. Typed' BY DEF Typed
<1>2. Tidy' BY DEF Tidy, NothingPending
<1>3. Counted' BY DEF Counted, Before
<1>4. Traced' BY DEF Traced
<1>5. Contained' BY DEF Contained, Measured, TrialsIsolated, Running
<1> QED BY <1>1, <1>2, <1>3, <1>4, <1>5

LEMMA DrainedKeeps ==
  ASSUME ServingInv, Drained
  PROVE  ServingInv'
<1> USE ServingAssumption DEF ServingInv, Points, Over, Settled, Drained,
          Leave, requestState, device, results
<1>1. Typed' BY DEF Typed
<1>2. Tidy' BY DEF Tidy, NothingPending, AllSettled
<1>3. Counted' BY DEF Counted
<1>4. Traced' BY DEF Traced
<1>5. Contained' BY DEF Contained, TrialsIsolated, Running
<1> QED BY <1>1, <1>2, <1>3, <1>4, <1>5

LEMMA RecordKeeps ==
  ASSUME ServingInv, Record
  PROVE  ServingInv'
<1> USE ServingAssumption DEF ServingInv, Points, Over, Settled, Record,
          requestState, device, results
<1>1. Typed'
  <2>1. CASE Measured
    <3>1. batches' = Append(batches, last) /\ UNCHANGED trial
      BY <2>1
    <3>2. batches' \in Seq(BatchSet)
      BY <3>1 DEF Typed
    <3> QED BY <2>1, <3>1, <3>2 DEF Typed
  <2>2. CASE ~Measured
    <3>1. trial + 1 \in 1..Warmups + Trials BY <2>2 DEF Typed, Measured
    <3> QED BY <2>2, <3>1 DEF Typed
  <2> QED BY <2>1, <2>2
<1>2. Tidy' BY DEF Tidy, NothingPending, AllSettled
<1>3. Counted' BY DEF Typed, Counted, Before, Measured
<1>4. Traced'
  <2>1. CASE Measured
    <3>1. Len(batches) = trial - Warmups - 1 /\ trial \in Nat /\ batches \in Seq(BatchSet)
      BY <2>1 DEF Measured, Counted, Before, Typed
    <3>2. last.trial = trial /\ Complete(last)
      BY DEF Traced
    <3>3. batches' = Append(batches, last) /\ point' = "snapshot"
      BY <2>1
    <3>4. \A k \in DOMAIN batches' :
            \/ k \in DOMAIN batches /\ batches'[k] = batches[k]
            \/ k = trial - Warmups /\ batches'[k] = last
      BY <3>1, <3>3 DEF Typed
    <3>5. ASSUME NEW k \in DOMAIN batches'
          PROVE  batches'[k].trial = Warmups + k /\ Complete(batches'[k])
      <4>1. CASE k \in DOMAIN batches /\ batches'[k] = batches[k]
        BY <4>1 DEF Traced
      <4>2. CASE k = trial - Warmups /\ batches'[k] = last
        BY <3>1, <3>2, <4>2
      <4> QED BY <3>4, <4>1, <4>2
    <3> QED BY <3>3, <3>5 DEF Traced, Complete
  <2>2. CASE ~Measured
    BY <2>2 DEF Traced, Complete
  <2> QED BY <2>1, <2>2
<1>5. Contained'
    BY DEF Contained, TrialsIsolated, Running, Tidy, AllSettled
<1> QED BY <1>1, <1>2, <1>3, <1>4, <1>5

LEMMA SnapshotKeeps ==
  ASSUME ServingInv, Snapshot
  PROVE  ServingInv'
<1> USE ServingAssumption DEF ServingInv, Points, Over, Settled, Snapshot,
          requestState, device, results
<1>1. Typed' BY DEF Typed
<1>2. Tidy' BY DEF Tidy, NothingPending, AllSettled
<1>3. Counted' BY DEF Typed, Counted, Before, Measured
<1>4. Traced' BY DEF Traced
<1>5. Contained'
  <2> DEFINE new == IF cuda THEN counted ELSE {}
  <2>1. Measured /\ Len(memories) = trial - Warmups - 1 /\ trial \in Nat
    BY DEF Counted, Before, Measured, Typed
  <2>2. new \subseteq {trial}
    BY <2>1 DEF Contained
  <2>3. memories' = Append(memories, new) /\ memories \in Seq(SUBSET Nat)
    BY DEF Typed
  <2>4. \A k \in DOMAIN memories' :
          \/ k \in DOMAIN memories /\ memories'[k] = memories[k]
          \/ k = trial - Warmups /\ memories'[k] = new
    BY <2>1, <2>3 DEF Typed
  <2>5. \A k \in DOMAIN memories' : memories'[k] \subseteq {Warmups + k}
    BY <2>1, <2>2, <2>4 DEF Contained, TrialsIsolated
  <2>6. point' \in {"measure", "reset"} /\ UNCHANGED <<cached, task>> /\ Running = {}
    BY DEF Tidy, AllSettled, Typed, Running
  <2> QED BY <2>5, <2>6 DEF Contained, TrialsIsolated, Running
<1> QED BY <1>1, <1>2, <1>3, <1>4, <1>5

LEMMA MeasureKeeps ==
  ASSUME ServingInv, Measure
  PROVE  ServingInv'
<1> USE ServingAssumption DEF ServingInv, Points, Over, Settled, Measure,
          Leave, requestState, device, results
<1>1. Typed' BY DEF Typed
<1>2. Tidy' BY DEF Tidy, NothingPending, AllSettled
<1>3. Counted' BY DEF Counted
<1>4. Traced' BY DEF Traced
<1>5. Contained' BY DEF Contained, TrialsIsolated, Running
<1> QED BY <1>1, <1>2, <1>3, <1>4, <1>5

LEMMA InterruptKeeps ==
  ASSUME ServingInv, Interrupt
  PROVE  ServingInv'
<1> USE ServingAssumption DEF ServingInv, Points, Over, Settled, Interrupt,
          Leave, requestState, device, results
<1>1. Typed' BY DEF Typed
<1>2. Tidy' BY DEF Tidy, NothingPending
<1>3. Counted' BY DEF Counted
<1>4. Traced' BY DEF Traced
<1>5. Contained' BY DEF Contained, TrialsIsolated, Running
<1> QED BY <1>1, <1>2, <1>3, <1>4, <1>5

LEMMA BatchCloseKeeps ==
  ASSUME ServingInv, CloseLoop
  PROVE  ServingInv'
<1> USE ServingAssumption DEF ServingInv, Points, Over, Settled, CloseLoop,
          CancelAll, requestState, device, results
<1>1. Typed' BY DEF Typed
<1>2. Tidy' BY DEF Tidy, NothingPending, AllSettled
<1>3. Counted' BY DEF Counted
<1>4. Traced' BY DEF Traced
<1>5. Contained' BY DEF Contained, TrialsIsolated, Running
<1> QED BY <1>1, <1>2, <1>3, <1>4, <1>5

LEMMA LoopClosesKeeps ==
  ASSUME ServingInv, LoopCloses
  PROVE  ServingInv'
<1> USE ServingAssumption DEF ServingInv, Points, Over, Settled, LoopCloses,
          requestState, device, results
<1>1. Typed' BY DEF Typed
<1>2. Tidy' BY DEF Tidy, NothingPending, AllSettled
<1>3. Counted' BY DEF Counted
<1>4. Traced' BY DEF Traced
<1>5. Contained' BY DEF Contained, TrialsIsolated, Running
<1> QED BY <1>1, <1>2, <1>3, <1>4, <1>5

LEMMA StutterKeeps ==
  ASSUME ServingInv, UNCHANGED servingVars
  PROVE  ServingInv'
<1> USE ServingAssumption DEF ServingInv, Points, Over, Settled, servingVars,
          requestState, device, results
<1>1. Typed' BY DEF Typed
<1>2. Tidy' BY DEF Tidy, NothingPending, AllSettled
<1>3. Counted' BY DEF Counted, Before, Measured
<1>4. Traced' BY DEF Traced
<1>5. Contained' BY DEF Contained, Measured, TrialsIsolated, Running
<1> QED BY <1>1, <1>2, <1>3, <1>4, <1>5

LEMMA StartKeeps ==
  ASSUME StartServing
  PROVE  ServingInv
<1> USE ServingAssumption DEF StartServing, Points, Over, Settled
<1>1. Typed
  <2>1. <<>> \in Seq(Nat) /\ <<>> \in Seq(BatchSet) /\ <<>> \in Seq(SUBSET Nat)
    OBVIOUS
  <2>2. NoBatch \in BatchSet
    BY DEF NoBatch, BatchSet
  <2>3. task \in [Inputs -> Settled \cup {"queued", "running", "cancelling"}]
    OBVIOUS
  <2>4. chunks \in [Inputs -> Seq(Nat)] /\ traces \in [Inputs -> Seq(Nat)]
    BY <2>1 DEF NoTrace
  <2>5. trial \in 1..Warmups + Trials /\ peak \in Nat
    OBVIOUS
  <2>6. batches \in Seq(BatchSet) /\ memories \in Seq(SUBSET Nat) /\ counted \subseteq Nat
    BY <2>1
  <2>7. point \in Points /\ cuda \in BOOLEAN /\ reset \in BOOLEAN /\ outcome = "none"
    OBVIOUS
  <2> HIDE DEF StartServing
  <2> QED BY <2>2, <2>3, <2>4, <2>5, <2>6, <2>7 DEF Typed, StartServing
<1>2. Tidy /\ Counted BY DEF Tidy, NothingPending, AllSettled, Counted, Before
<1>3. Traced /\ Contained
    BY DEF Traced, Complete, Contained, TrialsIsolated, Running
<1> QED BY <1>1, <1>2, <1>3 DEF ServingInv

LEMMA StepKeeps ==
  ASSUME ServingInv, [ServingStep]_servingVars
  PROVE  ServingInv'
<1>1. CASE Workload
  BY <1>1, ResetPrefixKeeps, ResetMemoryKeeps, BatchGenerateKeeps, GatherAllKeeps, GatherFailsKeeps,
     DrainedKeeps, RecordKeeps, SnapshotKeeps, MeasureKeeps, BatchCloseKeeps, LoopClosesKeeps
     DEF Workload
<1>2. CASE Tasks
  BY <1>2, AdmitKeeps, ChunkKeeps, FinishKeeps, StreamFailsKeeps, CancelledKeeps DEF
         Tasks
<1>3. CASE SessionFails \/ Interrupt
  BY <1>3, SessionFailsKeeps, InterruptKeeps
<1>4. CASE UNCHANGED servingVars \/ ServingOver
  BY <1>4, StutterKeeps DEF ServingOver
<1> QED BY <1>1, <1>2, <1>3, <1>4 DEF ServingStep

LEMMA ServingInvariant ==
  ServingSpec => []ServingInv
<1>1. StartServing => ServingInv BY StartKeeps
<1>2. ServingInv /\ [ServingStep]_servingVars => ServingInv' BY StepKeeps
<1> QED BY <1>1, <1>2, PTL DEF ServingSpec

(* Every request of every measured trial is accounted for once, in its own  *)
(* trial, in whatever order the tasks of its batch end.                     *)
THEOREM RequestsAreCounted ==
  ServingSpec => []EveryRequestCounted
<1>1. ServingInv => EveryRequestCounted
  BY DEF ServingInv, Traced, Counted, EveryRequestCounted
<1> QED BY <1>1, ServingInvariant, PTL

(* No trial runs on what an earlier one cached, none has its peaks counted  *)
(* with another's, and no failure or close is seen by the caller while a    *)
(* request is still running.                                                *)
THEOREM TrialsAreContained ==
  ServingSpec => []TrialsContained
<1>1. ServingInv => TrialsContained
  BY DEF ServingInv, Contained, Tidy, TrialsContained
<1> QED BY <1>1, ServingInvariant, PTL

=============================================================================
