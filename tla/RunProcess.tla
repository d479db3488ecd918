----------------------------- MODULE RunProcess -----------------------------
(***************************************************************************)
(* metria.processes.run_process: one command run to a deadline, with its   *)
(* output collected by one reader thread per pipe through a bounded queue, *)
(* and its whole process group killed before the call is left.              *)
(*                                                                         *)
(* Four kinds of actors interleave: the calling thread (pc), the reader    *)
(* threads, the command's process tree, and the monotonic clock.  Time is  *)
(* kept only as the two facts the code compares it with: `due` says that   *)
(* the deadline has passed, `cleanup` whether the two-second cleanup       *)
(* budget is unset, running or expired.                                    *)
(*                                                                         *)
(* Output bytes are abstracted to their position in the stream, so a chunk *)
(* is an interval lo..hi and a retained prefix is visible as <<1, 2, ..>>. *)
(***************************************************************************)
EXTENDS Integers, Sequences, FiniteSets

CONSTANTS
  Streams,          \* the pipes: stdout and stderr, or stdout alone (merge_stderr)
  QueueCap,         \* capacity of the events queue (64 in the code)
  MaxOutput,        \* max_output_bytes
  MaxWritten,       \* bound: bytes the command writes to one stream
  Descendants,      \* the descendants the command may have (see Group below)
  InterruptPoints   \* where in the calling thread a KeyboardInterrupt may land

(* The calling thread's program points, in the order of the source.  At    *)
(* "started" a reader thread runs that the list `readers` does not hold.   *)
TryBody   == {"readers", "started", "poll", "kill", "get"}
InsideTry == TryBody \ {"started"}
Points  == {"launch", "launched", "cleanup", "wait", "stop", "join", "done"}
             \union TryBody

ASSUME RunProcessAssumption ==
  /\ IsFiniteSet(Streams)
  /\ QueueCap \in Nat \ {0}
  /\ MaxOutput \in Nat
  /\ MaxWritten \in Nat
  /\ Descendants \subseteq {"member", "detached"}
  /\ InterruptPoints \subseteq Points \ {"launch", "done"}

(* The command itself, a descendant in its process group, and a descendant *)
(* that detached itself into a session of its own.                         *)
Group == {"leader", "member"}
Procs == Group \union {"detached"}

VARIABLES
  proc,        \* [Procs -> none | alive | doomed (killed, still dying) | dead]
  held,        \* [Procs -> streams whose write end the process holds]
  written,     \* [Streams -> bytes written so far]
  exitBy,      \* how the leader ended: none | self | killed
  reader,      \* [Streams -> program point of the stream's reader thread]
  consumed,    \* [Streams -> bytes the reader has taken from the pipe]
  outbox,      \* [Streams -> the event the reader is about to put]
  closed,      \* streams whose read end is closed
  events,      \* the bounded queue
  stop,        \* the threading.Event
  pc,          \* program point of the calling thread
  readers,     \* streams whose reader thread is in the list `readers`
  pending,     \* readers whose end marker has not been handled
  ended,       \* the group has been killed by the loop
  timedOut,
  returncode,  \* Popen.returncode: none until a poll or wait reaps the leader
  retained,    \* [Streams -> retained bytes]
  truncated,   \* [Streams -> BOOLEAN]
  delivered,   \* [Streams -> last byte passed on to on_output]
  outcome,     \* what the call returns or raises
  due,         \* the command's deadline has passed
  cleanup      \* the cleanup budget: unset | running | expired

tree    == <<proc, held, written, exitBy>>
threads == <<reader, consumed, outbox>>
loop    == <<readers, pending, ended>>
verdict == <<timedOut, returncode>>
output  == <<retained, truncated, delivered>>
clock   == <<due, cleanup>>
vars    == <<tree, threads, closed, events, stop, pc, loop, verdict, output,
             outcome, clock>>

(* An event of the queue.  The end marker and an error carry no bytes.     *)
Event == {e \in [stream : Streams, kind : {"data", "error", "end"},
                 lo : 1 .. MaxWritten + 1, hi : 0 .. MaxWritten] :
            e.lo <= e.hi + 1}
Data(s, lo, hi) == [stream |-> s, kind |-> "data", lo |-> lo, hi |-> hi]
Mark(s, kind)   == [stream |-> s, kind |-> kind, lo |-> 1, hi |-> 0]

Lives(p)    == proc[p] \in {"alive", "doomed"}
PipeOpen(s) == \E p \in Procs : Lives(p) /\ s \in held[p]
Exited      == proc["leader"] = "dead"
Started     == {s \in Streams : reader[s] # "none"}
Alive(s)    == reader[s] \notin {"none", "dead"}

Init ==
  /\ proc = [p \in Procs |-> "none"]
  /\ held = [p \in Procs |-> {}]
  /\ written = [s \in Streams |-> 0]
  /\ exitBy = "none"
  /\ reader = [s \in Streams |-> "none"]
  /\ consumed = [s \in Streams |-> 0]
  /\ outbox = [s \in Streams |-> Mark(s, "end")]
  /\ closed = {}
  /\ events = <<>>
  /\ stop = FALSE
  /\ pc = "launch"
  /\ readers = {}
  /\ pending = 0
  /\ ended = FALSE
  /\ timedOut = FALSE
  /\ returncode = "none"
  /\ retained = [s \in Streams |-> <<>>]
  /\ truncated = [s \in Streams |-> FALSE]
  /\ delivered = [s \in Streams |-> 0]
  /\ outcome = "none"
  /\ due = FALSE
  /\ cleanup = "unset"

-----------------------------------------------------------------------------
(* The process tree: no step of it is ever promised.                       *)

Write(p, s) ==
  /\ proc[p] = "alive" /\ s \in held[p] /\ written[s] < MaxWritten
  /\ written' = [written EXCEPT ![s] = @ + 1]
  /\ UNCHANGED <<proc, held, exitBy>>

CloseEnd(p, s) ==
  /\ proc[p] = "alive" /\ s \in held[p]
  /\ held' = [held EXCEPT ![p] = @ \ {s}]
  /\ UNCHANGED <<proc, written, exitBy>>

(* A new descendant inherits some of the pipes.  A detached process only   *)
(* has descendants outside the group, which count with it.                 *)
Spawn(parent, child) ==
  /\ proc[parent] = "alive" /\ proc[child] = "none"
  /\ proc' = [proc EXCEPT ![child] = "alive"]
  /\ \E kept \in SUBSET held[parent] : held' = [held EXCEPT ![child] = kept]
  /\ UNCHANGED <<written, exitBy>>

(* A process ends on its own, or because SIGKILL has reached it.           *)
Exit(p) ==
  /\ Lives(p)
  /\ proc' = [proc EXCEPT ![p] = "dead"]
  /\ held' = [held EXCEPT ![p] = {}]
  /\ exitBy' = IF p # "leader" THEN exitBy
               ELSE IF proc[p] = "alive" THEN "self" ELSE "killed"
  /\ UNCHANGED written

Tree ==
  /\ pc # "done"
  /\ \/ \E p \in Procs, s \in Streams : Write(p, s) \/ CloseEnd(p, s)
     \/ \E parent \in Group, child \in Descendants : Spawn(parent, child)
     \/ \E p \in Procs : Exit(p)
  /\ UNCHANGED <<threads, closed, events, stop, pc, loop, verdict, output,
                 outcome, clock>>

DeadlinePasses == ~due /\ due' = TRUE /\ UNCHANGED cleanup
CleanupExpires == cleanup = "running" /\ cleanup' = "expired" /\ UNCHANGED due

Elapse(tick) ==
  /\ pc # "done" /\ tick
  /\ UNCHANGED <<tree, threads, closed, events, stop, pc, loop, verdict, output,
                 outcome>>

-----------------------------------------------------------------------------
(* _read_pipe, one thread per stream.                                      *)

ReaderCheck(s) ==
  /\ reader[s] = "check"
  /\ reader' = [reader EXCEPT ![s] = IF stop THEN "close" ELSE "read"]
  /\ UNCHANGED <<consumed, outbox, closed, events>>

(* The blocking read returns what the pipe holds, up to a chunk.           *)
ReaderRead(s) ==
  /\ reader[s] = "read"
  /\ \E hi \in (consumed[s] + 1) .. written[s] :
       /\ outbox' = [outbox EXCEPT ![s] = Data(s, consumed[s] + 1, hi)]
       /\ consumed' = [consumed EXCEPT ![s] = hi]
  /\ reader' = [reader EXCEPT ![s] = "put"]
  /\ UNCHANGED <<closed, events>>

(* ... or reports the end of the stream once every write end is closed.    *)
ReaderEof(s) ==
  /\ reader[s] = "read"
  /\ consumed[s] = written[s] /\ ~PipeOpen(s)
  /\ reader' = [reader EXCEPT ![s] = "close"]
  /\ UNCHANGED <<consumed, outbox, closed, events>>

ReaderFails(s) ==
  /\ reader[s] = "read"
  /\ outbox' = [outbox EXCEPT ![s] = Mark(s, "error")]
  /\ reader' = [reader EXCEPT ![s] = "put"]
  /\ UNCHANGED <<consumed, closed, events>>

ReaderClose(s) ==
  /\ reader[s] = "close"
  /\ closed' = closed \union {s}
  /\ outbox' = [outbox EXCEPT ![s] = Mark(s, "end")]
  /\ reader' = [reader EXCEPT ![s] = "put"]
  /\ UNCHANGED <<consumed, events>>

AfterPut(s) ==
  CASE outbox[s].kind = "data"  -> "check"
    [] outbox[s].kind = "error" -> "close"
    [] outbox[s].kind = "end"   -> "dead"

HasRoom == Len(events) < QueueCap

(* send(): put with a timeout until it succeeds, or give up once stop is   *)
(* set.  A put already under way when stop is set may still succeed.       *)
ReaderPut(s) ==
  /\ reader[s] = "put"
  /\ \/ HasRoom /\ events' = Append(events, outbox[s])
     \/ stop /\ events' = events
  /\ reader' = [reader EXCEPT ![s] = AfterPut(s)]
  /\ UNCHANGED <<consumed, outbox, closed>>

Reader(s) ==
  /\ pc # "done"
  /\ \/ ReaderCheck(s) \/ ReaderRead(s) \/ ReaderEof(s) \/ ReaderFails(s)
     \/ ReaderClose(s) \/ ReaderPut(s)
  /\ UNCHANGED <<tree, stop, pc, loop, verdict, output, outcome, clock>>

-----------------------------------------------------------------------------
(* run_process, the calling thread.                                        *)

(* _kill_tree on POSIX: SIGKILL to the process group; a group that no      *)
(* longer exists is ignored.  Mistake: process.kill() instead of killpg.   *)
KilledTree_LeaderOnly ==
  [proc EXCEPT !["leader"] = IF @ = "alive" THEN "doomed" ELSE @]

KilledTree ==
  [p \in Procs |-> IF p \in Group /\ proc[p] = "alive" THEN "doomed" ELSE proc[p]]

(* A step that only moves on, and one that raises.                         *)
Moves(to) ==
  pc' = to /\ UNCHANGED <<tree, threads, closed, events, stop, loop, verdict,
                         output, outcome, clock>>
Raises(what, to) ==
  /\ outcome' = what /\ pc' = to
  /\ UNCHANGED <<tree, threads, closed, events, stop, loop, verdict, output, clock>>

Launch ==
  /\ pc = "launch" /\ pc' = "launched"
  /\ proc' = [proc EXCEPT !["leader"] = "alive"]
  /\ held' = [held EXCEPT !["leader"] = Streams]
  /\ UNCHANGED <<written, exitBy, threads, closed, events, stop, loop, verdict,
                 output, outcome, clock>>

LaunchFails == pc = "launch" /\ Raises("process_error", "done")

(* The queue, the event and the buffers are created; the try is entered.   *)
EnterTry == pc = "launched" /\ Moves("readers")

(* reader.start(): the thread runs, but is in no list yet; ...             *)
StartReader(s) ==
  /\ pc = "readers" /\ s \notin Started /\ pc' = "started"
  /\ reader' = [reader EXCEPT ![s] = "check"]
  /\ UNCHANGED <<tree, consumed, outbox, closed, events, stop, loop, verdict,
                 output, outcome, clock>>

(* ... readers.append and pending += 1, which the finally block never reads. *)
ListReader ==
  /\ pc = "started" /\ pc' = "readers"
  /\ readers' = Started
  /\ pending' = pending + 1
  /\ UNCHANGED <<tree, threads, closed, events, stop, ended, verdict, output,
                 outcome, clock>>

StartFails ==
  pc = "readers" /\ Started # Streams /\ Raises("exception", "cleanup")

EnterLoop == pc = "readers" /\ Started = Streams /\ Moves("poll")

(* poll() and wait() reap a dead leader and fix returncode.                *)
Reap == returncode' = IF Exited THEN exitBy ELSE returncode

(* Mistakes: the deadline is not looked at; timed_out is never set.        *)
SeesEnd_ExitOnly == Exited
TimesOut_Never   == FALSE
SeesEnd  == Exited \/ due
TimesOut == ~Exited /\ due

(* The loop first sees the leader's exit or the deadline, ...              *)
NoticeEnd ==
  /\ pc = "poll" /\ ~ended /\ SeesEnd /\ pc' = "kill"
  /\ Reap
  /\ timedOut' = TimesOut
  /\ cleanup' = "running"
  /\ UNCHANGED <<tree, threads, closed, events, stop, loop, output, outcome, due>>

(* ... and kills the group either way.                                     *)
Kill ==
  /\ pc = "kill" /\ pc' = "get"
  /\ proc' = KilledTree
  /\ ended' = TRUE
  /\ UNCHANGED <<held, written, exitBy, threads, closed, events, stop, readers,
                 pending, verdict, output, outcome, clock>>

(* Output is still pending when the cleanup budget is spent.               *)
GiveUp ==
  /\ pc = "poll" /\ ended /\ cleanup = "expired" /\ pc' = "cleanup"
  /\ Reap
  /\ outcome' = "process_error"
  /\ UNCHANGED <<tree, threads, closed, events, stop, loop, timedOut, output, clock>>

PollAgain ==
  /\ pc = "poll" /\ pc' = "get"
  /\ IF ended THEN cleanup # "expired" ELSE ~SeesEnd
  /\ Reap
  /\ UNCHANGED <<tree, threads, closed, events, stop, loop, timedOut, output,
                 outcome, clock>>

GetEmpty == pc = "get" /\ events = <<>> /\ Moves("poll")

(* events.get: the event at the head of the queue, if it is of this kind.  *)
Receives(kind) ==
  /\ pc = "get" /\ events # <<>> /\ Head(events).kind = kind
  /\ events' = Tail(events)

GetError ==
  /\ Receives("error") /\ pc' = "cleanup"
  /\ outcome' = "process_error"
  /\ UNCHANGED <<tree, threads, closed, stop, loop, verdict, output, clock>>

(* Retention: the first MaxOutput bytes of the stream are kept.            *)
Size(e) == (e.hi + 1) - e.lo
Room(s) == MaxOutput - Len(retained[s])
Kept(e) == IF Size(e) <= Room(e.stream) THEN Size(e) ELSE Room(e.stream)
Bytes(lo, n) == [i \in 1 .. n |-> (lo + i) - 1]

Retain(e) ==
  /\ delivered' = [delivered EXCEPT ![e.stream] = e.hi]
  /\ retained' = [retained EXCEPT ![e.stream] = @ \o Bytes(e.lo, Kept(e))]
  /\ truncated' = [truncated EXCEPT ![e.stream] = @ \/ Size(e) > Room(e.stream)]

(* The loop condition `while pending or not ended`.  Mistake: the loop     *)
(* ends with the command, not with its output.                             *)
LoopPoint_EndedOnly(n) == IF ~ended THEN "poll" ELSE "cleanup"
LoopPoint(n) == IF n > 0 \/ ~ended THEN "poll" ELSE "cleanup"

(* on_output returns, and the loop goes on with n pending, or it raises.   *)
Callback(n) ==
  \/ outcome' = outcome /\ pc' = LoopPoint(n)
  \/ outcome' = "exception" /\ pc' = "cleanup"

GetData ==
  /\ Receives("data")
  /\ Retain(Head(events))
  /\ Callback(pending)
  /\ UNCHANGED <<tree, threads, closed, stop, loop, verdict, clock>>

(* The end of a stream flushes its decoder into on_output.                 *)
GetEnd ==
  /\ Receives("end")
  /\ pending' = pending - 1
  /\ Callback(pending - 1)
  /\ UNCHANGED <<tree, threads, closed, stop, readers, ended, verdict,
                 output, clock>>

(* The finally block: kill unless the loop has done so, ...                *)
CleanupKill ==
  /\ pc = "cleanup" /\ pc' = "wait"
  /\ cleanup' = IF cleanup = "unset" THEN "running" ELSE cleanup
  /\ proc' = IF ended THEN proc ELSE KilledTree
  /\ UNCHANGED <<held, written, exitBy, threads, closed, events, stop, loop,
                 verdict, output, outcome, due>>

(* ... wait for the leader within the cleanup budget, ...                  *)
WaitReaped ==
  /\ pc = "wait" /\ Exited /\ pc' = "stop"
  /\ Reap
  /\ UNCHANGED <<tree, threads, closed, events, stop, loop, timedOut, output,
                 outcome, clock>>

WaitExpires ==
  /\ pc = "wait" /\ ~Exited /\ cleanup = "expired"
  /\ Raises("process_error", "stop")

(* ... release the readers, ...                                            *)
SetStop ==
  /\ pc = "stop" /\ pc' = "join"
  /\ stop' = TRUE
  /\ UNCHANGED <<tree, threads, closed, events, loop, verdict, output, outcome, clock>>

StillAlive == \E s \in readers : Alive(s)
Unowned    == Streams \ readers

(* ... join those of the list within what is left of the budget, close the *)
(* pipes of no listed reader, and fail when a listed one is still alive.   *)
Join ==
  /\ pc = "join" /\ pc' = "done"
  /\ ~StillAlive \/ cleanup = "expired"
  /\ closed' = closed \union Unowned
  /\ outcome' = IF StillAlive THEN "process_error"
                ELSE IF outcome = "none" THEN "result" ELSE outcome
  /\ UNCHANGED <<tree, threads, events, stop, loop, verdict, output, clock>>

(* A KeyboardInterrupt.  Inside the try it enters the finally block; in    *)
(* the wait it still runs the inner finally; anywhere else it leaves.      *)
Interrupt ==
  /\ pc \in InterruptPoints
  /\ Raises("exception", IF pc \in TryBody THEN "cleanup"
                         ELSE IF pc = "wait" THEN "stop" ELSE "done")

Main ==
  \/ Launch \/ LaunchFails \/ EnterTry
  \/ \E s \in Streams : StartReader(s)
  \/ ListReader \/ StartFails \/ EnterLoop
  \/ NoticeEnd \/ Kill \/ GiveUp \/ PollAgain
  \/ GetEmpty \/ GetError \/ GetData \/ GetEnd
  \/ CleanupKill \/ WaitReaped \/ WaitExpires \/ SetStop \/ Join

Finished == pc = "done" /\ UNCHANGED vars

Next ==
  \/ Main \/ Interrupt
  \/ \E s \in Streams : Reader(s)
  \/ Tree
  \/ Elapse(DeadlinePasses) \/ Elapse(CleanupExpires)
  \/ Finished

(* The calling thread runs and the clock advances.  Nothing is assumed of  *)
(* the command, of the readers or of the operating system's killing.       *)
Fairness ==
  /\ WF_vars(Main)
  /\ WF_vars(Elapse(DeadlinePasses))
  /\ WF_vars(Elapse(CleanupExpires))

Spec == Init /\ [][Next]_vars /\ Fairness

-----------------------------------------------------------------------------
(* Every variable keeps its type, the events queue its maxsize, and the    *)
(* retained output of run_process its max_output_bytes.                    *)
TypeOK ==
  /\ proc \in [Procs -> {"none", "alive", "doomed", "dead"}]
  /\ held \in [Procs -> SUBSET Streams]
  /\ written \in [Streams -> 0 .. MaxWritten]
  /\ exitBy \in {"none", "self", "killed"}
  /\ reader \in [Streams -> {"none", "check", "read", "put", "close", "dead"}]
  /\ consumed \in [Streams -> 0 .. MaxWritten]
  /\ outbox \in [Streams -> Event]
  /\ closed \in SUBSET Streams
  /\ events \in Seq(Event) /\ Len(events) <= QueueCap
  /\ stop \in BOOLEAN
  /\ pc \in Points
  /\ readers \in SUBSET Streams
  /\ pending \in Int
  /\ ended \in BOOLEAN
  /\ timedOut \in BOOLEAN
  /\ returncode \in {"none", "self", "killed"}
  /\ retained \in [Streams -> Seq(Nat)]
  /\ \A s \in Streams : Len(retained[s]) <= MaxOutput
  /\ truncated \in [Streams -> BOOLEAN]
  /\ delivered \in [Streams -> 0 .. MaxWritten]
  /\ outcome \in {"none", "result", "exception", "process_error"}
  /\ due \in BOOLEAN
  /\ cleanup \in {"unset", "running", "expired"}

(* However run_process leaves (result, callback error, interrupt, cleanup  *)
(* failure), no process of the command's group is still running: each one  *)
(* has ended or has been sent SIGKILL.  Detached processes are exempt.     *)
GroupDown == pc = "done" => \A p \in Group : proc[p] # "alive"

(* A returned result holds, for each stream, exactly the first MaxOutput   *)
(* bytes of everything that was ever written to it, and says truncated     *)
(* exactly when there was more, and on_output has seen all of it: killing  *)
(* the group and stopping the readers lose nothing that had been written.  *)
CompleteOutput ==
  outcome = "result" => \A s \in Streams :
    /\ delivered[s] = written[s]
    /\ retained[s] = Bytes(1, IF written[s] <= MaxOutput THEN written[s]
                                                         ELSE MaxOutput)
    /\ truncated[s] <=> written[s] > MaxOutput

(* A result that is not timed out carries the leader's own exit status,    *)
(* never the status of the runner's SIGKILL, and a timed-out one was       *)
(* really past its deadline.                                               *)
OwnVerdict ==
  outcome = "result" => /\ timedOut => due
                        /\ ~timedOut => returncode = "self"
                        /\ returncode = exitBy

(* Unless the call says ProcessError, no reader thread outlives it and     *)
(* every pipe it opened is closed, whichever threads had been started.     *)
NothingLeft ==
  pc = "done" /\ outcome # "process_error" =>
    closed = Streams /\ \A s \in Streams : ~Alive(s)

(* Even then, a pipe is left open only to a reader blocked on it.          *)
PipesOwned ==
  pc = "done" /\ proc["leader"] # "none" =>
    \A s \in Streams \ closed : Alive(s)

(* src/docs/guides/subprocess-lifecycle.md: results, callback errors and    *)
(* KeyboardInterrupt leave the call after cleanup of processes, threads    *)
(* and pipes.  Of interrupts it is for those of InsideTry: the code keeps  *)
(* NothingLeft neither outside its try block nor at "started", where the   *)
(* finally block does not know of a reader thread that already runs.       *)
CleanedUp == GroupDown /\ NothingLeft /\ PipesOwned

(* The call ends, whatever the command, its descendants and the readers    *)
(* do: silence, endless output or an unkillable process cannot hold it.    *)
Termination == <>(pc = "done")

=============================================================================
