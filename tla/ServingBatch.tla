----------------------------- MODULE ServingBatch -----------------------------
(***************************************************************************)
(* The concurrent serving workload: the trials of                          *)
(* metria.measurements.serving_workload, the session and the event loop of *)
(* metria.runtimes.vllm_serving, and what serving_metrics reports.         *)
(*                                                                         *)
(* One batch is one task per request on an asyncio loop that only runs     *)
(* inside a call (point in LoopRuns); a semaphore admits `Concurrency` of     *)
(* them at a time, in input order.  The engine's side of a request is a    *)
(* stream of chunks, kept as the number of tokens each chunk added.        *)
(***************************************************************************)
EXTENDS Naturals, Sequences, FiniteSets
LOCAL INSTANCE SequencesExt

CONSTANTS
  Requests,      \* requests of one trial, numbered from 1
  Concurrency,   \* the semaphore: 1 or 2
  Warmups,       \* trials before the measured ones
  Trials,        \* measured trials
  MaxTokens      \* generation bound of one request

ASSUME ServingAssumption ==
  /\ Requests \in Nat \ {0} /\ Concurrency \in {1, 2}
  /\ Warmups \in Nat /\ Trials \in Nat \ {0} /\ MaxTokens \in Nat \ {0}

VARIABLES
  point,         \* program point of the thread that calls the session
  trial,      \* the current trial, counted from 1
  task,       \* [request -> queued | running | cancelling | done | failed | cancelled]
  chunks,     \* [request -> chunks its stream has delivered]
  traces,     \* [request -> the trace of its finished stream]
  peak,       \* peak_inflight of the batch
  last,       \* last_batch: [trial, peak, requests]
  cached,     \* trials whose prompts the prefix cache holds
  counted,    \* trials the allocator's peak counters cover
  cuda,       \* is the worker on a CUDA device?
  reset,      \* _memory_reset confirms a reset
  batches,    \* the batches of the measured trials, in order
  memories,   \* their memory snapshots: the trials they cover
  intervals,  \* are inter-token intervals reported?
  outcome     \* none | completed | failed | interrupted

requestState   == <<task, chunks, traces, peak>>
device  == <<cached, counted, cuda, reset>>
results == <<batches, memories, intervals>>
servingVars    == <<point, trial, requestState, last, device, results, outcome>>

Inputs     == 1..Requests
Measured   == trial > Warmups
NoTrace    == <<>>
NoBatch    == [trial |-> 0, peak |-> 0, requests |-> <<>>]
Settled    == {"done", "failed", "cancelled"}
LoopRuns   == point \in {"batch", "drain", "cleanup"}
Running    == {i \in Inputs : task[i] = "running"}
AllSettled == \A i \in Inputs : task[i] \in Settled

TokensOf(stream) == FoldLeft(LAMBDA sum, n : sum + n, 0, stream)

StartServing ==
  /\ point = "reset" /\ trial = 1
  /\ task = [i \in Inputs |-> "done"]
  /\ chunks = [i \in Inputs |-> <<>>] /\ traces = [i \in Inputs |-> NoTrace]
  /\ peak = 0 /\ last = NoBatch
  /\ cached = {} /\ counted = {} /\ cuda \in BOOLEAN /\ reset = FALSE
  /\ batches = <<>> /\ memories = <<>> /\ intervals = FALSE
  /\ outcome = "none"

-----------------------------------------------------------------------------
(* The workload, outside the event loop.                                    *)

(* Any call into the session may raise; the run then closes the session.    *)
Leave(how) == outcome' = how /\ point' = "close"

SessionFails ==
  /\ point \in {"reset", "memory", "generate", "snapshot"}
  /\ Leave("failed")
  /\ UNCHANGED <<trial, requestState, last, device, results>>

ResetPrefix ==
  /\ point = "reset"
  /\ cached' = {}
  /\ point' = IF Measured THEN "memory" ELSE "generate"
  /\ UNCHANGED <<trial, requestState, last, counted, cuda, reset, results, outcome>>

(* metria_reset_memory: only a CUDA worker has peaks to reset.              *)
ResetMemory ==
  /\ point = "memory"
  /\ reset' = cuda
  /\ counted' = IF cuda THEN {} ELSE counted
  /\ point' = "generate"
  /\ UNCHANGED <<trial, requestState, last, cached, cuda, results, outcome>>

(* generate: last_batch is forgotten and one task per request is created.   *)
GenerateBatch ==
  /\ point = "generate"
  /\ last' = NoBatch
  /\ task' = [i \in Inputs |-> "queued"]
  /\ chunks' = [i \in Inputs |-> <<>>] /\ traces' = [i \in Inputs |-> NoTrace]
  /\ peak' = 0
  /\ point' = "batch"
  /\ UNCHANGED <<trial, device, results, outcome>>

-----------------------------------------------------------------------------
(* The tasks of the batch.                                                  *)

(* The semaphore is fair: requests are admitted in input order.             *)
Admit(i) ==
  /\ LoopRuns /\ task[i] = "queued"
  /\ \A j \in 1..i - 1 : task[j] # "queued"
  /\ Cardinality(Running) < Concurrency
  /\ task' = [task EXCEPT ![i] = "running"]
  /\ peak' = IF Cardinality(Running) + 1 > peak THEN Cardinality(Running) + 1 ELSE peak
  /\ cached' = cached \cup {trial} /\ counted' = counted \cup {trial}
  /\ UNCHANGED <<point, trial, chunks, traces, last, cuda, reset, results, outcome>>

(* A response with new tokens; one without is not recorded.                 *)
Chunk(i) ==
  /\ LoopRuns /\ task[i] = "running"
  /\ \E n \in 1..MaxTokens - TokensOf(chunks[i]) :
       chunks' = [chunks EXCEPT ![i] = Append(@, n)]
  /\ UNCHANGED <<point, trial, task, traces, peak, last, device, results, outcome>>

Finish(i) ==
  /\ LoopRuns /\ task[i] = "running" /\ chunks[i] # <<>>
  /\ task' = [task EXCEPT ![i] = "done"]
  /\ traces' = [traces EXCEPT ![i] = chunks[i]]
  /\ UNCHANGED <<point, trial, chunks, peak, last, device, results, outcome>>

(* The engine raises, ends early, repeats other tokens or exceeds its bound. *)
StreamFails(i) ==
  /\ LoopRuns /\ task[i] = "running"
  /\ task' = [task EXCEPT ![i] = "failed"]
  /\ UNCHANGED <<point, trial, chunks, traces, peak, last, device, results, outcome>>

(* A cancelled task closes its stream and gives its slot back.              *)
Cancelled(i) ==
  /\ LoopRuns /\ task[i] = "cancelling"
  /\ task' = [task EXCEPT ![i] = "cancelled"]
  /\ UNCHANGED <<point, trial, chunks, traces, peak, last, device, results, outcome>>

Tasks == \E i \in Inputs : Admit(i) \/ Chunk(i) \/ Finish(i) \/ StreamFails(i)
                             \/ Cancelled(i)

CancelAll ==
  task' = [i \in Inputs |-> IF task[i] \in Settled THEN task[i] ELSE "cancelling"]

-----------------------------------------------------------------------------
(* gather, and what follows it.                                             *)

GatherAll_Tolerant ==                 \* mistake: failed requests are passed over
  /\ point = "batch" /\ AllSettled
  /\ last' = [trial |-> trial, peak |-> peak, requests |-> traces]
  /\ point' = "record"
  /\ UNCHANGED <<trial, requestState, device, results, outcome>>

GatherAll ==
  /\ point = "batch" /\ \A i \in Inputs : task[i] = "done"
  /\ last' = [trial |-> trial, peak |-> peak, requests |-> traces]
  /\ point' = "record"
  /\ UNCHANGED <<trial, requestState, device, results, outcome>>

(* The first failure cancels every other request of the batch, and the      *)
(* batch is not left before all of them have ended.                         *)
GatherFails_AtOnce ==                 \* mistake: nobody waits for the cancelled
  /\ point = "batch" /\ \E i \in Inputs : task[i] = "failed"
  /\ CancelAll
  /\ Leave("failed")
  /\ UNCHANGED <<trial, chunks, traces, peak, last, device, results>>

GatherFails ==
  /\ point = "batch" /\ \E i \in Inputs : task[i] = "failed"
  /\ CancelAll
  /\ point' = "drain"
  /\ UNCHANGED <<trial, chunks, traces, peak, last, device, results, outcome>>

Drained ==
  /\ point = "drain" /\ AllSettled
  /\ Leave("failed")
  /\ UNCHANGED <<trial, requestState, last, device, results>>

(* The batch of a measured trial is retained; a warmup's is dropped.        *)
Record ==
  /\ point = "record"
  /\ IF Measured
       THEN batches' = Append(batches, last) /\ point' = "snapshot" /\ UNCHANGED trial
       ELSE point' = "reset" /\ trial' = trial + 1 /\ UNCHANGED batches
  /\ UNCHANGED <<requestState, last, device, memories, intervals, outcome>>

(* A snapshot of peaks that were never reset is refused.                    *)
Snapshot ==
  /\ point = "snapshot"
  /\ cuda => reset
  /\ memories' = Append(memories, IF cuda THEN counted ELSE {})
  /\ IF trial = Warmups + Trials
       THEN point' = "measure" /\ UNCHANGED trial
       ELSE point' = "reset" /\ trial' = trial + 1
  /\ UNCHANGED <<requestState, last, device, batches, intervals, outcome>>

(* measure_serving refuses an unfinished request, and reports inter-token   *)
(* intervals only when every chunk of every request is one token.           *)
Complete(b) == \A i \in Inputs : b.requests[i] # NoTrace

SingleTokens(stream) ==
  Len(stream) > 1 /\ \A k \in DOMAIN stream : stream[k] = 1

IntervalsKnown ==
  \A k \in DOMAIN batches : \A i \in Inputs : SingleTokens(batches[k].requests[i])

Measure ==
  /\ point = "measure"
  /\ IF \A k \in DOMAIN batches : Complete(batches[k])
       THEN intervals' = IntervalsKnown /\ Leave("completed")
       ELSE UNCHANGED intervals /\ Leave("failed")
  /\ UNCHANGED <<trial, requestState, last, device, batches, memories>>

(* Ctrl+C leaves the loop where it is, with its tasks in it.                *)
Interrupt ==
  /\ outcome = "none"
  /\ Leave("interrupted")
  /\ UNCHANGED <<trial, requestState, last, device, results>>

(* shutdown: whatever the engine's own shutdown does, the tasks still in    *)
(* the loop are cancelled and run to their end before it is closed.         *)
CloseLoop_Uncancelled ==                  \* mistake: waits for tasks that only the engine ends
  /\ point = "close" /\ point' = "cleanup"
  /\ UNCHANGED <<trial, requestState, last, device, results, outcome>>

CloseLoop ==
  /\ point = "close"
  /\ CancelAll
  /\ point' = "cleanup"
  /\ UNCHANGED <<trial, chunks, traces, peak, last, device, results, outcome>>

LoopCloses ==
  /\ point = "cleanup" /\ AllSettled
  /\ point' = "closed"
  /\ UNCHANGED <<trial, requestState, last, device, results, outcome>>

Workload == ResetPrefix \/ ResetMemory \/ GenerateBatch \/ GatherAll \/ GatherFails
              \/ Drained \/ Record \/ Snapshot \/ Measure \/ CloseLoop \/ LoopCloses

ServingOver == point = "closed" /\ UNCHANGED servingVars

ServingStep == Workload \/ Tasks \/ SessionFails \/ Interrupt \/ ServingOver

(* The thread and its loop run.  The engine owes no answer: the session     *)
(* sets no deadline of its own, so a batch may wait for ever.               *)
ServingSpec ==
  StartServing /\ [][ServingStep]_servingVars
  /\ WF_servingVars(Workload) /\ WF_servingVars(\E i \in Inputs : Cancelled(i))

-----------------------------------------------------------------------------
Streams == UNION {[1..n -> 1..MaxTokens] : n \in 0..MaxTokens}
Batches == [trial : 0..Warmups + Trials, peak : 0..Concurrency,
            requests : [Inputs -> Streams] \cup {<<>>}]

ServingTypeOK ==
  /\ point \in {"reset", "memory", "generate", "batch", "drain", "record", "snapshot",
             "measure", "close", "cleanup", "closed"}
  /\ trial \in 1..Warmups + Trials
  /\ task \in [Inputs -> Settled \cup {"queued", "running", "cancelling"}]
  /\ chunks \in [Inputs -> Streams] /\ traces \in [Inputs -> Streams]
  /\ peak \in 0..Concurrency /\ last \in Batches
  /\ cached \subseteq 1..Warmups + Trials /\ counted \subseteq 1..Warmups + Trials
  /\ cuda \in BOOLEAN /\ reset \in BOOLEAN /\ intervals \in BOOLEAN
  /\ \A k \in DOMAIN batches : batches[k] \in Batches
  /\ \A k \in DOMAIN memories : memories[k] \subseteq 1..Warmups + Trials
  /\ outcome \in {"none", "completed", "failed", "interrupted"}

(* Every request of every measured trial is accounted for, once, in the     *)
(* batch of its own trial, and a completed workload has one batch and one   *)
(* snapshot per measured trial.                                             *)
EveryRequestCounted ==
  /\ \A k \in DOMAIN batches : /\ batches[k].trial = Warmups + k
                               /\ Complete(batches[k])
  /\ outcome = "completed" => Len(batches) = Trials /\ Len(memories) = Trials

(* The trials do not touch each other: no request runs on prompts cached by *)
(* an earlier trial, and the peaks of a snapshot are those of its trial.    *)
TrialsIsolated ==
  /\ Running # {} => cached = {trial}
  /\ \A k \in DOMAIN memories : memories[k] \subseteq {Warmups + k}

(* A batch that fails has ended every request before its caller sees the    *)
(* failure, and a closed session leaves no request behind, interrupted or   *)
(* not.                                                                     *)
NothingPending ==
  /\ outcome \in {"failed", "completed"} => AllSettled
  /\ point = "closed" => AllSettled

(* A trial leaves nothing behind for the next one or for the caller.        *)
TrialsContained == TrialsIsolated /\ NothingPending

(* One failed request, a refused call or Ctrl+C closes the session in the    *)
(* end, even if the engine never answers the other requests.                *)
FailureCloses == (outcome # "none" \/ \E i \in Inputs : task[i] = "failed") ~> point = "closed"
==============================================================================
