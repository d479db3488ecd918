-------------------------- MODULE RunProcessProofs --------------------------
(* Safety of run_process for any number of streams, any queue capacity,    *)
(* any retention limit and any amount of output.                           *)
EXTENDS RunProcess, SequenceTheorems, FiniteSetTheorems, TLAPS

(* The frame of every action: the variables written out.                   *)
USE DEF tree, threads, loop, verdict, output, clock, Moves, Raises

LEMMA EventTypes ==
  /\ \A s \in Streams, kind \in {"error", "end"} : Mark(s, kind) \in Event
  /\ \A s \in Streams, lo \in 1 .. MaxWritten, hi \in 1 .. MaxWritten :
       lo <= hi => Data(s, lo, hi) \in Event
  BY RunProcessAssumption DEF Mark, Data, Event

LEMMA TailTypes ==
  ASSUME TypeOK, events # <<>>
  PROVE  Tail(events) \in Seq(Event) /\ Len(Tail(events)) <= QueueCap
<1>1. events \in Seq(Event) /\ Len(events) <= QueueCap
  BY DEF TypeOK
<1>2. Tail(events) \in Seq(Event) /\ Len(Tail(events)) = Len(events) - 1
  BY <1>1, HeadTailProperties
<1> QED
  BY <1>1, <1>2, RunProcessAssumption

LEMMA ConcatTypes ==
  ASSUME NEW a \in Seq(Nat), NEW b \in Seq(Nat)
  PROVE  a \o b \in Seq(Nat) /\ Len(a \o b) = Len(a) + Len(b)
  BY ConcatProperties

LEMMA BytesTypes ==
  ASSUME NEW lo \in Nat \ {0}, NEW n \in Nat
  PROVE  Bytes(lo, n) \in Seq(Nat) /\ Len(Bytes(lo, n)) = n
  BY DEF Bytes

LEMMA RetainTypes ==
  ASSUME TypeOK, NEW e \in Event, Retain(e)
  PROVE  /\ retained' \in [Streams -> Seq(Nat)]
         /\ \A s \in Streams : Len(retained'[s]) <= MaxOutput
         /\ truncated' \in [Streams -> BOOLEAN]
         /\ delivered' \in [Streams -> 0 .. MaxWritten]
<1>1. /\ e.stream \in Streams /\ e.lo \in Nat \ {0} /\ e.hi \in 0 .. MaxWritten
      /\ Size(e) \in Nat
  BY RunProcessAssumption DEF Event, Size
<1> DEFINE old == retained[e.stream]
           new == Bytes(e.lo, Kept(e))
<1>2. old \in Seq(Nat) /\ Room(e.stream) = MaxOutput - Len(old) /\ Room(e.stream) \in Nat
  BY <1>1, RunProcessAssumption DEF TypeOK, Room
<1>3. Kept(e) \in Nat /\ Kept(e) <= Room(e.stream)
  BY <1>1, <1>2 DEF Kept
<1>4. new \in Seq(Nat) /\ Len(new) = Kept(e)
  BY <1>1, <1>3, BytesTypes
<1>5. old \o new \in Seq(Nat) /\ Len(old \o new) = Len(old) + Len(new)
  <2> HIDE DEF old, new
  <2> QED
    BY <1>2, <1>4, ConcatTypes
<1>6. Len(old \o new) <= MaxOutput
  <2>1. Len(old) \in Nat
    BY <1>2
  <2> HIDE DEF old, new
  <2> QED
    BY <2>1, <1>2, <1>3, <1>4, <1>5, RunProcessAssumption
<1>7. retained' = [retained EXCEPT ![e.stream] = old \o new]
  BY DEF Retain
<1>8. /\ retained' \in [Streams -> Seq(Nat)]
      /\ \A t \in Streams : Len(retained'[t]) <= MaxOutput
  <2> HIDE DEF old, new
  <2> QED
    BY <1>1, <1>5, <1>6, <1>7 DEF TypeOK
<1> QED
  BY <1>1, <1>8 DEF TypeOK, Retain

(* run_process keeps every variable in its type; in particular the events  *)
(* queue stays within its maxsize and each stream's retained output within *)
(* max_output_bytes, whatever the readers and the command do.              *)
THEOREM TypeCorrect == Spec => []TypeOK
<1>1. Init => TypeOK
  <2> SUFFICES ASSUME Init PROVE TypeOK
    OBVIOUS
  <2>1. outbox \in [Streams -> Event]
    BY EventTypes DEF Init
  <2>2. events \in Seq(Event) /\ Len(events) <= QueueCap
    BY RunProcessAssumption DEF Init
  <2>3. /\ retained \in [Streams -> Seq(Nat)]
        /\ \A s \in Streams : Len(retained[s]) <= MaxOutput
    BY RunProcessAssumption DEF Init
  <2>4. /\ written \in [Streams -> 0 .. MaxWritten]
        /\ consumed \in [Streams -> 0 .. MaxWritten]
        /\ delivered \in [Streams -> 0 .. MaxWritten]
    BY RunProcessAssumption DEF Init
  <2>5. /\ proc \in [Procs -> {"none", "alive", "doomed", "dead"}]
        /\ held \in [Procs -> SUBSET Streams]
        /\ reader \in [Streams -> {"none", "check", "read", "put", "close", "dead"}]
        /\ truncated \in [Streams -> BOOLEAN]
    BY DEF Init
  <2>6. /\ pc \in Points /\ pending \in Int /\ closed \in SUBSET Streams
        /\ readers \in SUBSET Streams
    BY DEF Init, Points
  <2>7. /\ exitBy = "none" /\ returncode = "none" /\ outcome = "none"
        /\ stop = FALSE /\ ended = FALSE /\ timedOut = FALSE /\ due = FALSE
        /\ cleanup = "unset"
    BY DEF Init
  <2> QED
    BY <2>1, <2>2, <2>3, <2>4, <2>5, <2>6, <2>7 DEF TypeOK
<1>2. TypeOK /\ [Next]_vars => TypeOK'
  <2> SUFFICES ASSUME TypeOK, [Next]_vars
               PROVE  TypeOK'
    OBVIOUS
  <2> USE DEF TypeOK
  <2>1. CASE Tree
    <3>1. ASSUME NEW p \in Procs, NEW s \in Streams, Write(p, s)
          PROVE  TypeOK'
      BY <2>1, <3>1, RunProcessAssumption DEF Tree, Write
    <3>2. ASSUME NEW p \in Procs, NEW s \in Streams, CloseEnd(p, s)
          PROVE  TypeOK'
      BY <2>1, <3>2 DEF Tree, CloseEnd
    <3>3. ASSUME NEW p \in Group, NEW q \in Descendants, Spawn(p, q)
          PROVE  TypeOK'
      BY <2>1, <3>3, RunProcessAssumption DEF Tree, Spawn, Procs, Group
    <3>4. ASSUME NEW p \in Procs, Exit(p)
          PROVE  TypeOK'
      BY <2>1, <3>4 DEF Tree, Exit
    <3> QED
      BY <2>1, <3>1, <3>2, <3>3, <3>4 DEF Tree
  <2>2. CASE Elapse(DeadlinePasses) \/ Elapse(CleanupExpires)
    <3>1. CASE Elapse(DeadlinePasses)
      BY <3>1 DEF Elapse, DeadlinePasses
    <3>2. CASE Elapse(CleanupExpires)
      BY <3>2 DEF Elapse, CleanupExpires
    <3> QED
      BY <2>2, <3>1, <3>2
  <2>3. ASSUME NEW s \in Streams, Reader(s)
        PROVE  TypeOK'
    <3>1. CASE ReaderCheck(s)
      BY <2>3, <3>1 DEF Reader, ReaderCheck
    <3>2. CASE ReaderRead(s)
      <4>1. PICK hi \in (consumed[s] + 1) .. written[s] :
              /\ outbox' = [outbox EXCEPT ![s] = Data(s, consumed[s] + 1, hi)]
              /\ consumed' = [consumed EXCEPT ![s] = hi]
        BY <3>2 DEF ReaderRead
      <4>2. /\ consumed[s] + 1 \in 1 .. MaxWritten /\ hi \in 1 .. MaxWritten
            /\ consumed[s] + 1 <= hi
        BY <4>1, RunProcessAssumption
      <4>3. Data(s, consumed[s] + 1, hi) \in Event
        BY <4>2, EventTypes
      <4>4. outbox' \in [Streams -> Event] /\ consumed' \in [Streams -> 0 .. MaxWritten]
        BY <4>1, <4>2, <4>3
      <4> QED
        BY <2>3, <3>2, <4>4 DEF Reader, ReaderRead
    <3>3. CASE ReaderEof(s)
      BY <2>3, <3>3 DEF Reader, ReaderEof
    <3>4. CASE ReaderFails(s)
      BY <2>3, <3>4, EventTypes DEF Reader, ReaderFails
    <3>5. CASE ReaderClose(s)
      BY <2>3, <3>5, EventTypes DEF Reader, ReaderClose
    <3>6. CASE ReaderPut(s)
      <4>1. AfterPut(s) \in {"check", "close", "dead"}
        BY DEF AfterPut, Event
      <4>2. events' \in Seq(Event) /\ Len(events') <= QueueCap
        <5>1. CASE HasRoom /\ events' = Append(events, outbox[s])
          <6>1. outbox[s] \in Event
            OBVIOUS
          <6>2. events' \in Seq(Event) /\ Len(events') = Len(events) + 1
            BY <5>1, <6>1, AppendProperties
          <6> QED
            BY <5>1, <6>2, RunProcessAssumption DEF HasRoom
        <5>2. CASE events' = events
          BY <5>2
        <5> QED
          BY <3>6, <5>1, <5>2 DEF ReaderPut
      <4> QED
        BY <2>3, <3>6, <4>1, <4>2 DEF Reader, ReaderPut
    <3> QED
      BY <2>3, <3>1, <3>2, <3>3, <3>4, <3>5, <3>6 DEF Reader
  <2>4. CASE Launch
    <3>1. proc' \in [Procs -> {"none", "alive", "doomed", "dead"}]
      BY <2>4 DEF Launch
    <3>2. held' \in [Procs -> SUBSET Streams]
      BY <2>4 DEF Launch
    <3>3. pc' \in Points
      BY <2>4 DEF Launch, Points
    <3> QED
      BY <2>4, <3>1, <3>2, <3>3 DEF Launch
  <2>5. CASE LaunchFails \/ EnterTry \/ StartFails \/ EnterLoop
    <3>1. \E o \in {"none", "process_error", "exception"},
              to \in {"done", "readers", "cleanup", "poll"} :
            (o = "none" /\ Moves(to)) \/ Raises(o, to)
      BY <2>5 DEF LaunchFails, EnterTry, StartFails, EnterLoop
    <3> QED
      BY <3>1 DEF Points, TryBody
  <2>6. ASSUME NEW s \in Streams, StartReader(s)
        PROVE  TypeOK'
    BY <2>6 DEF StartReader, Points, TryBody
  <2>20. CASE ListReader
    BY <2>20 DEF ListReader, Started, Points, TryBody
  <2>7. CASE NoticeEnd \/ GiveUp \/ PollAgain
    <3>1. returncode' \in {"none", "self", "killed"}
      BY <2>7 DEF NoticeEnd, GiveUp, PollAgain, Reap
    <3>2. pc' \in Points /\ timedOut' \in BOOLEAN
      BY <2>7 DEF NoticeEnd, GiveUp, PollAgain, TimesOut, Points, TryBody, Exited
    <3>3. cleanup' \in {"unset", "running", "expired"} /\ outcome' \in {"none", "result", "exception", "process_error"}
      BY <2>7 DEF NoticeEnd, GiveUp, PollAgain
    <3> QED
      BY <2>7, <3>1, <3>2, <3>3 DEF NoticeEnd, GiveUp, PollAgain
  <2>8. CASE Kill
    BY <2>8 DEF Kill, KilledTree, Points, TryBody
  <2>9. CASE GetEmpty
    BY <2>9 DEF GetEmpty, Points, TryBody
  <2>10. CASE GetError
    <3>1. events' \in Seq(Event) /\ Len(events') <= QueueCap
      BY <2>10, TailTypes DEF GetError, Receives
    <3> QED
      BY <2>10, <3>1 DEF GetError, Points
  <2>11. CASE GetData
    <3>1. Head(events) \in Event
      BY <2>11 DEF GetData, Receives
    <3>2. /\ retained' \in [Streams -> Seq(Nat)]
          /\ \A s \in Streams : Len(retained'[s]) <= MaxOutput
          /\ truncated' \in [Streams -> BOOLEAN]
          /\ delivered' \in [Streams -> 0 .. MaxWritten]
      BY <2>11, <3>1, RetainTypes DEF GetData
    <3>3. events' \in Seq(Event) /\ Len(events') <= QueueCap
      BY <2>11, TailTypes DEF GetData, Receives
    <3> QED
      BY <2>11, <3>2, <3>3 DEF GetData, Receives, Callback, LoopPoint, Points, TryBody
  <2>12. CASE GetEnd
    <3>1. events' \in Seq(Event) /\ Len(events') <= QueueCap
      BY <2>12, TailTypes DEF GetEnd, Receives
    <3> QED
      BY <2>12, <3>1 DEF GetEnd, Callback, LoopPoint, Points, TryBody
  <2>13. CASE CleanupKill
    BY <2>13 DEF CleanupKill, KilledTree, Points
  <2>14. CASE WaitReaped
    BY <2>14 DEF WaitReaped, Reap, Points
  <2>15. CASE WaitExpires
    BY <2>15 DEF WaitExpires, Points
  <2>16. CASE SetStop
    BY <2>16 DEF SetStop, Points
  <2>17. CASE Join
    BY <2>17 DEF Join, Unowned, Points
  <2>18. CASE Interrupt
    BY <2>18 DEF Interrupt, Points
  <2>19. CASE Finished \/ UNCHANGED vars
    BY <2>19 DEF Finished, vars
  <2> QED
    BY <2>1, <2>2, <2>3, <2>4, <2>5, <2>6, <2>7, <2>8, <2>9, <2>10, <2>11, <2>12,
       <2>13, <2>14, <2>15, <2>16, <2>17, <2>18, <2>19, <2>20 DEF Next, Main
<1> QED
  BY <1>1, <1>2, PTL DEF Spec

-----------------------------------------------------------------------------
(* Inductive: once the group has been killed, by the loop or by the        *)
(* finally block, nothing can bring a live process back into it, because   *)
(* only a live member of the group has children in the group.              *)
LifeInv ==
  /\ pc = "launch" => ~ended /\ \A p \in Group : proc[p] = "none"
  /\ ended \/ pc \in {"wait", "stop", "join", "done"} =>
       \A p \in Group : proc[p] # "alive"

(* However run_process is left, by a result or by an exception, no process *)
(* of the command's group is still running, as long as KeyboardInterrupt   *)
(* lands in the try block only.                                            *)
THEOREM GroupIsDown ==
  ASSUME InterruptPoints \subseteq TryBody
  PROVE  Spec => []GroupDown
<1>1. Init => LifeInv
  BY DEF Init, LifeInv, Procs
<1>2. TypeOK /\ LifeInv /\ [Next]_vars => LifeInv'
  <2> SUFFICES ASSUME TypeOK, LifeInv, [Next]_vars
               PROVE  LifeInv'
    OBVIOUS
  <2> USE DEF LifeInv
  <2>0. proc \in [Procs -> {"none", "alive", "doomed", "dead"}] /\ Group \subseteq Procs
    BY DEF TypeOK, Procs
  <2>1. CASE Tree
    <3>0. pc' = pc /\ ended' = ended /\ pc # "done"
      BY <2>1 DEF Tree
    <3>1. ASSUME NEW p \in Procs, NEW s \in Streams, Write(p, s) \/ CloseEnd(p, s)
          PROVE  LifeInv'
      BY <3>0, <3>1 DEF Write, CloseEnd
    <3>2. ASSUME NEW p \in Group, NEW q \in Descendants, Spawn(p, q)
          PROVE  LifeInv'
      BY <3>0, <3>2, <2>0 DEF Spawn
    <3>3. ASSUME NEW p \in Procs, Exit(p)
          PROVE  LifeInv'
      BY <3>0, <3>3, <2>0 DEF Exit, Lives
    <3> QED
      BY <2>1, <3>1, <3>2, <3>3 DEF Tree
  <2>2. CASE Elapse(DeadlinePasses) \/ Elapse(CleanupExpires)
    BY <2>2 DEF Elapse
  <2>3. ASSUME NEW s \in Streams, Reader(s)
        PROVE  LifeInv'
    BY <2>3 DEF Reader
  <2>4. CASE Launch
    BY <2>4 DEF Launch
  <2>5. CASE LaunchFails
    BY <2>5 DEF LaunchFails
  <2>6. CASE EnterTry \/ StartFails \/ EnterLoop \/ GetEmpty
    BY <2>6 DEF EnterTry, StartFails, EnterLoop, GetEmpty
  <2>7. ASSUME NEW s \in Streams, StartReader(s)
        PROVE  LifeInv'
    BY <2>7 DEF StartReader
  <2>15. CASE ListReader
    BY <2>15 DEF ListReader
  <2>8. CASE NoticeEnd \/ GiveUp \/ PollAgain
    BY <2>8 DEF NoticeEnd, GiveUp, PollAgain
  <2>9. CASE Kill
    BY <2>9, <2>0 DEF Kill, KilledTree
  <2>10. CASE GetError \/ GetData \/ GetEnd
    BY <2>10 DEF GetError, GetData, GetEnd, Receives, Callback, LoopPoint
  <2>11. CASE CleanupKill
    BY <2>11, <2>0 DEF CleanupKill, KilledTree
  <2>12. CASE WaitReaped \/ WaitExpires \/ SetStop \/ Join
    BY <2>12 DEF WaitReaped, WaitExpires, SetStop, Join
  <2>13. CASE Interrupt
    BY <2>13 DEF Interrupt, TryBody
  <2>14. CASE Finished \/ UNCHANGED vars
    BY <2>14 DEF Finished, vars
  <2> QED
    BY <2>1, <2>2, <2>3, <2>4, <2>5, <2>6, <2>7, <2>8, <2>9, <2>10, <2>11, <2>12,
       <2>13, <2>14, <2>15 DEF Next, Main
<1>3. LifeInv => GroupDown
  BY DEF LifeInv, GroupDown
<1> QED
  BY <1>1, <1>2, <1>3, TypeCorrect, PTL DEF Spec

-----------------------------------------------------------------------------
(* Inductive: until the loop decides, the leader has not been killed; the  *)
(* loop decides once, and from a leader that exited by itself whenever it  *)
(* does not report a timeout; only that decision leads to a result.        *)
Undecided == pc \in {"launch", "launched", "readers", "started", "poll", "get"} /\ ~ended

VerdictInv ==
  /\ Undecided => ~timedOut
  /\ Undecided \/ (pc = "kill" /\ ~ended) =>
       proc["leader"] # "doomed" /\ exitBy # "killed"
  /\ (ended \/ pc = "kill") /\ ~timedOut => Exited /\ exitBy = "self"
  /\ Exited => exitBy # "none"
  /\ timedOut => due
  /\ outcome = "none" /\ pc \in {"cleanup", "wait", "stop", "join"} => ended
  /\ outcome = "none" /\ pc \in {"stop", "join"} => Exited /\ returncode = exitBy
  /\ pc \in {"launch", "launched", "readers", "started", "kill"} => ~ended
  /\ outcome = "result" =>
       pc = "done" /\ ended /\ Exited /\ returncode = exitBy

(* A result of run_process that is not timed out carries the command's own *)
(* exit status, never that of the runner's SIGKILL, and a timed-out result *)
(* was past its deadline.                                                  *)
THEOREM VerdictIsOwn ==
  ASSUME InterruptPoints \subseteq TryBody
  PROVE  Spec => []OwnVerdict
<1>1. Init => VerdictInv
  BY DEF Init, VerdictInv, Undecided, Procs, Group, Exited
<1>2. TypeOK /\ VerdictInv /\ [Next]_vars => VerdictInv'
  <2> SUFFICES ASSUME TypeOK, VerdictInv, [Next]_vars
               PROVE  VerdictInv'
    OBVIOUS
  <2> USE DEF VerdictInv, Undecided, Exited
  <2>0. proc \in [Procs -> {"none", "alive", "doomed", "dead"}] /\ "leader" \in Procs
    BY DEF TypeOK, Procs, Group
  <2>1. CASE Tree
    <3>0. UNCHANGED <<pc, ended, timedOut, returncode, outcome, due>>
      BY <2>1 DEF Tree
    <3>1. ASSUME NEW p \in Procs, NEW s \in Streams, Write(p, s) \/ CloseEnd(p, s)
          PROVE  VerdictInv'
      BY <3>0, <3>1 DEF Write, CloseEnd
    <3>2. ASSUME NEW p \in Group, NEW q \in Descendants, Spawn(p, q)
          PROVE  VerdictInv'
      <4>1. q # "leader"
        BY RunProcessAssumption
      <4> QED
        BY <3>0, <3>2, <2>0, <4>1 DEF Spawn
    <3>3. ASSUME NEW p \in Procs, Exit(p)
          PROVE  VerdictInv'
      BY <3>0, <3>3, <2>0 DEF Exit, Lives
    <3> QED
      BY <2>1, <3>1, <3>2, <3>3 DEF Tree
  <2>2. CASE Elapse(DeadlinePasses) \/ Elapse(CleanupExpires)
    BY <2>2 DEF Elapse, DeadlinePasses, CleanupExpires
  <2>3. ASSUME NEW s \in Streams, Reader(s)
        PROVE  VerdictInv'
    BY <2>3 DEF Reader
  <2>4. CASE Launch
    BY <2>4, <2>0 DEF Launch
  <2>5. CASE LaunchFails \/ EnterTry \/ StartFails \/ EnterLoop \/ GetEmpty
    BY <2>5 DEF LaunchFails, EnterTry, StartFails, EnterLoop, GetEmpty
  <2>6. ASSUME NEW s \in Streams, StartReader(s)
        PROVE  VerdictInv'
    BY <2>6 DEF StartReader
  <2>17. CASE ListReader
    BY <2>17 DEF ListReader
  <2>7. CASE NoticeEnd
    BY <2>7 DEF NoticeEnd, TimesOut, SeesEnd, TypeOK
  <2>8. CASE GiveUp \/ PollAgain
    BY <2>8 DEF GiveUp, PollAgain
  <2>9. CASE Kill
    BY <2>9, <2>0 DEF Kill, KilledTree
  <2>10. CASE GetError \/ GetData \/ GetEnd
    BY <2>10 DEF GetError, GetData, GetEnd, Receives, Callback, LoopPoint
  <2>11. CASE CleanupKill
    BY <2>11, <2>0 DEF CleanupKill, KilledTree
  <2>12. CASE WaitReaped
    BY <2>12 DEF WaitReaped, Reap
  <2>13. CASE WaitExpires \/ SetStop
    BY <2>13 DEF WaitExpires, SetStop
  <2>14. CASE Join
    BY <2>14 DEF Join
  <2>15. CASE Interrupt
    BY <2>15 DEF Interrupt, TryBody
  <2>16. CASE Finished \/ UNCHANGED vars
    BY <2>16 DEF Finished, vars
  <2> QED
    BY <2>1, <2>2, <2>3, <2>4, <2>5, <2>6, <2>7, <2>8, <2>9, <2>10, <2>11, <2>12,
       <2>13, <2>14, <2>15, <2>16, <2>17 DEF Next, Main
<1>3. VerdictInv => OwnVerdict
  BY DEF VerdictInv, OwnVerdict
<1> QED
  BY <1>1, <1>2, <1>3, TypeCorrect, PTL DEF Spec

-----------------------------------------------------------------------------
(* Inductive: a reader closes its pipe before its last put, the list holds *)
(* every started reader except between a start and its append, and the     *)
(* call is left only through the join, or before anything was launched.    *)
PipeInv ==
  /\ pc # "started" => readers = Started
  /\ \A s \in Streams :
       reader[s] = "dead" \/ (reader[s] = "put" /\ outbox[s].kind = "end") =>
         s \in closed
  /\ pc = "launch" => proc["leader"] = "none"
  /\ pc = "done" =>
       \/ proc["leader"] = "none" /\ outcome = "process_error"
       \/ /\ \A s \in Streams : s \in closed \/ Alive(s)
          /\ outcome # "process_error" => \A s \in Streams : ~Alive(s)

LEMMA PipeInvariant ==
  ASSUME InterruptPoints \subseteq InsideTry
  PROVE  Spec => []PipeInv
<1>1. Init => PipeInv
  BY DEF Init, PipeInv, Started, Procs, Group
<1>2. TypeOK /\ PipeInv /\ [Next]_vars => PipeInv'
  <2> SUFFICES ASSUME TypeOK, PipeInv, [Next]_vars
               PROVE  PipeInv'
    OBVIOUS
  <2> USE DEF PipeInv, Alive
  <2>0. /\ proc \in [Procs -> {"none", "alive", "doomed", "dead"}]
        /\ reader \in [Streams -> {"none", "check", "read", "put", "close", "dead"}]
        /\ outbox \in [Streams -> Event]
        /\ "leader" \in Procs
        /\ readers' = readers /\ (\A s \in Streams : reader'[s] = "none" <=> reader[s] = "none")
             => (readers = Started => readers' = Started')
    BY DEF TypeOK, Procs, Group, Started
  <2>1. CASE Tree
    <3>0. UNCHANGED <<threads, readers, closed, pc, outcome>> /\ pc # "done"
      BY <2>1 DEF Tree
    <3>1. pc = "launch" => proc'["leader"] = "none"
      <4> SUFFICES ASSUME pc = "launch" PROVE proc'["leader"] = "none"
        OBVIOUS
      <4>1. ASSUME NEW p \in Group, NEW q \in Descendants, Spawn(p, q)
            PROVE  proc'["leader"] = "none"
        BY <4>1, <2>0, RunProcessAssumption DEF Spawn
      <4>2. ASSUME NEW p \in Procs, Exit(p)
            PROVE  proc'["leader"] = "none"
        BY <4>2, <2>0 DEF Exit, Lives
      <4> QED
        BY <2>1, <4>1, <4>2 DEF Tree, Write, CloseEnd
    <3> QED
      BY <3>0, <3>1 DEF Started
  <2>2. CASE Elapse(DeadlinePasses) \/ Elapse(CleanupExpires)
    BY <2>2 DEF Elapse, Started
  <2>3. ASSUME NEW s \in Streams, Reader(s)
        PROVE  PipeInv'
    <3>0. UNCHANGED <<proc, readers, pc, outcome>> /\ pc # "done"
      BY <2>3 DEF Reader
    <3>5. \A t \in Streams : reader'[t] = "none" <=> reader[t] = "none"
      BY <2>3, <2>0 DEF Reader, ReaderCheck, ReaderRead, ReaderEof, ReaderFails,
         ReaderClose, ReaderPut, AfterPut, Event
    <3>1. CASE ReaderCheck(s) \/ ReaderEof(s)
      BY <3>0, <3>1, <3>5, <2>0 DEF ReaderCheck, ReaderEof
    <3>2. CASE ReaderRead(s) \/ ReaderFails(s)
      BY <3>0, <3>2, <3>5, <2>0 DEF ReaderRead, ReaderFails, Data, Mark
    <3>3. CASE ReaderClose(s)
      BY <3>0, <3>3, <3>5, <2>0 DEF ReaderClose
    <3>4. CASE ReaderPut(s)
      BY <3>0, <3>4, <3>5, <2>0 DEF ReaderPut, AfterPut, Event
    <3> QED
      BY <2>3, <3>1, <3>2, <3>3, <3>4 DEF Reader
  <2>4. CASE Launch
    BY <2>4 DEF Launch, Started
  <2>5. CASE LaunchFails \/ EnterTry \/ StartFails \/ EnterLoop \/ GetEmpty
    BY <2>5 DEF LaunchFails, EnterTry, StartFails, EnterLoop, GetEmpty, Started
  <2>6. ASSUME NEW s \in Streams, StartReader(s)
        PROVE  PipeInv'
    BY <2>6, <2>0 DEF StartReader
  <2>14. CASE ListReader
    BY <2>14 DEF ListReader, Started
  <2>7. CASE NoticeEnd \/ GiveUp \/ PollAgain
    BY <2>7 DEF NoticeEnd, GiveUp, PollAgain, Started
  <2>8. CASE Kill \/ CleanupKill
    BY <2>8 DEF Kill, CleanupKill, Started
  <2>9. CASE GetError \/ GetData \/ GetEnd
    BY <2>9 DEF GetError, GetData, GetEnd, Receives, Callback, LoopPoint, Started
  <2>10. CASE WaitReaped \/ WaitExpires \/ SetStop
    BY <2>10 DEF WaitReaped, WaitExpires, SetStop, Started
  <2>11. CASE Join
    BY <2>11, <2>0 DEF Join, StillAlive, Unowned, Started
  <2>12. CASE Interrupt
    BY <2>12 DEF Interrupt, InsideTry, TryBody, Started
  <2>13. CASE Finished \/ UNCHANGED vars
    BY <2>13 DEF Finished, vars, Started
  <2> QED
    BY <2>1, <2>2, <2>3, <2>4, <2>5, <2>6, <2>7, <2>8, <2>9, <2>10, <2>11, <2>12,
       <2>13, <2>14 DEF Next, Main
<1> QED
  BY <1>1, <1>2, TypeCorrect, PTL DEF Spec

(* Unless run_process raises ProcessError, every pipe is closed and every  *)
(* reader thread has ended when it is left, for interrupts in the try      *)
(* block but not between the start of a reader and its append.             *)
THEOREM NothingIsLeft ==
  ASSUME InterruptPoints \subseteq InsideTry
  PROVE  Spec => []NothingLeft
<1>1. TypeOK /\ PipeInv => NothingLeft
  BY DEF TypeOK, PipeInv, NothingLeft
<1> QED
  BY <1>1, PipeInvariant, TypeCorrect, PTL

(* And with ProcessError only a reader that is still alive owns a pipe.    *)
THEOREM PipesAreOwned ==
  ASSUME InterruptPoints \subseteq InsideTry
  PROVE  Spec => []PipesOwned
<1>1. PipeInv => PipesOwned
  BY DEF PipeInv, PipesOwned
<1> QED
  BY <1>1, PipeInvariant, PTL

(* However the call is left, its cleanup is complete: the group is killed, *)
(* and each reader and pipe is gone or accounted for, for interrupts in    *)
(* the try block but not between the start of a reader and its append.     *)
THEOREM CleanupIsComplete ==
  ASSUME InterruptPoints \subseteq InsideTry
  PROVE  Spec => []CleanedUp
<1>1. GroupDown /\ NothingLeft /\ PipesOwned => CleanedUp
  BY DEF CleanedUp
<1>2. InterruptPoints \subseteq TryBody
  BY DEF InsideTry
<1> QED BY <1>1, <1>2, GroupIsDown, NothingIsLeft, PipesAreOwned, PTL

-----------------------------------------------------------------------------
(* Inductive, for the bytes of one stream.  The data in the queue and in   *)
(* the reader's hand is in order and covers what was consumed and not yet  *)
(* delivered; the end marker is the stream's last event; and a reader past *)
(* its read has drained a pipe nobody can write to, or reports an error.   *)
Queued(s, kind)  == \E i \in 1 .. Len(events) :
                      events[i].stream = s /\ events[i].kind = kind
Posting(s, kind) == reader[s] = "put" /\ outbox[s].kind = kind
Holds(e, b)      == e.kind = "data" /\ e.lo <= b /\ b <= e.hi
Sealed(s)        == consumed[s] = written[s] /\ ~PipeOpen(s)

Framed(s) ==
  /\ delivered[s] <= consumed[s]
  /\ reader[s] = "put" => outbox[s].stream = s
  /\ Posting(s, "data") =>
       /\ delivered[s] < outbox[s].lo /\ outbox[s].lo <= outbox[s].hi
       /\ outbox[s].hi = consumed[s]
  /\ \A i \in 1 .. Len(events) : events[i].stream = s =>
       /\ events[i].kind = "end" => reader[s] = "dead"
       /\ events[i].kind = "data" =>
            /\ delivered[s] < events[i].lo /\ events[i].lo <= events[i].hi
            /\ events[i].hi <= consumed[s]
            /\ Posting(s, "data") => events[i].hi < outbox[s].lo

Ordered(s) ==
  \A i, j \in 1 .. Len(events) :
    i < j /\ events[i].stream = s /\ events[j].stream = s =>
      /\ events[i].kind # "end"
      /\ events[i].kind = "data" /\ events[j].kind = "data" =>
           events[i].hi < events[j].lo

Covered(s) ==
  \A b \in (delivered[s] + 1) .. consumed[s] :
    \/ \E i \in 1 .. Len(events) : events[i].stream = s /\ Holds(events[i], b)
    \/ reader[s] = "put" /\ Holds(outbox[s], b)

Ending(s) ==
  reader[s] \in {"close", "dead"} \/ Posting(s, "end") \/ Posting(s, "error") =>
    Sealed(s) \/ Queued(s, "error") \/ Posting(s, "error")

Settled(s) ==
  reader[s] = "dead" /\ ~Queued(s, "end") =>
    /\ Sealed(s) /\ delivered[s] = written[s]
    /\ \A i \in 1 .. Len(events) : events[i].stream # s

Flow(s) == Framed(s) /\ Ordered(s) /\ Covered(s) /\ Ending(s) /\ Settled(s)

(* What has been delivered is retained up to the limit.                    *)
Least(a, b)  == IF a <= b THEN a ELSE b
Retention(s) ==
  /\ retained[s] = Bytes(1, Least(delivered[s], MaxOutput))
  /\ truncated[s] <=> delivered[s] > MaxOutput

(* While the loop runs undisturbed, pending counts the readers whose end   *)
(* marker is still to come, so the loop cannot end before the output.  It  *)
(* is behind by the reader that was started last and is not yet counted.   *)
Unsettled == {s \in Streams : Alive(s) \/ Queued(s, "end")}
Unlisted  == IF pc = "started" THEN 1 ELSE 0
Running   == outcome = "none" /\ pc \in {"launch", "launched"} \union TryBody
Looping   == pc \in {"poll", "kill", "get"}
Past      == outcome \in {"none", "result"}
               /\ pc \in {"cleanup", "wait", "stop", "join", "done"}

OutputInv ==
  /\ outcome = "result" => pc = "done"
  /\ Running /\ pc \in {"launch", "launched"} => \A s \in Streams : reader[s] = "none"
  /\ Running /\ Looping => \A s \in Streams : reader[s] # "none"
  /\ Running => ~stop /\ pending + Unlisted = Cardinality(Unsettled)
  /\ Running => \A s \in Streams : Flow(s)
  /\ Past => \A s \in Streams : Sealed(s) /\ delivered[s] = written[s]
  /\ outcome \in {"none", "result"} => \A s \in Streams : Retention(s)

LEMMA EventFields ==
  ASSUME NEW e \in Event
  PROVE  /\ e.stream \in Streams /\ e.kind \in {"data", "error", "end"}
         /\ e.lo \in Int /\ e.hi \in Int
  BY DEF Event

LEMMA StateTypes ==
  ASSUME TypeOK
  PROVE  /\ written \in [Streams -> Nat] /\ consumed \in [Streams -> Nat]
         /\ delivered \in [Streams -> Nat]
         /\ reader \in [Streams -> {"none", "check", "read", "put", "close", "dead"}]
         /\ outbox \in [Streams -> Event]
         /\ proc \in [Procs -> {"none", "alive", "doomed", "dead"}]
         /\ held \in [Procs -> SUBSET Streams]
         /\ events \in Seq(Event) /\ Len(events) \in Nat
         /\ \A i \in 1 .. Len(events) : events[i] \in Event
  BY RunProcessAssumption DEF TypeOK

(* The queue without its head: its events move up by one place.            *)
LEMMA TailPlaces ==
  ASSUME TypeOK, events # <<>>, events' = Tail(events)
  PROVE  /\ Len(events) \in Nat \ {0} /\ Len(events') = Len(events) - 1
         /\ Head(events) = events[1] /\ 1 \in 1 .. Len(events)
         /\ \A i \in 1 .. Len(events') :
              events'[i] = events[i + 1] /\ i + 1 \in 1 .. Len(events)
         /\ \A i \in 1 .. Len(events) : i # 1 =>
              i - 1 \in 1 .. Len(events') /\ events'[i - 1] = events[i]
<1>1. events \in Seq(Event)
  BY DEF TypeOK
<1>2. Len(events') = Len(events) - 1 /\ Len(events) \in Nat \ {0}
  BY <1>1, HeadTailProperties, EmptySeq
<1>3. Head(events) = events[1]
  BY <1>1
<1>4. \A i \in 1 .. Len(events') : events'[i] = events[i + 1]
  BY <1>1, <1>2
<1> QED
  BY <1>2, <1>3, <1>4

LEMMA AppendPlaces ==
  ASSUME TypeOK, NEW e \in Event, events' = Append(events, e)
  PROVE  /\ Len(events) \in Nat /\ Len(events') = Len(events) + 1
         /\ events'[Len(events) + 1] = e
         /\ \A i \in 1 .. Len(events) : events'[i] = events[i] /\ i \in 1 .. Len(events')
         /\ \A i \in 1 .. Len(events') : i = Len(events) + 1 \/ i \in 1 .. Len(events)
<1>1. events \in Seq(Event)
  BY DEF TypeOK
<1>2. /\ Len(events) \in Nat /\ Len(events') = Len(events) + 1
      /\ events'[Len(events) + 1] = e
      /\ \A i \in 1 .. Len(events) : events'[i] = events[i]
  BY <1>1, AppendProperties
<1> QED
  BY <1>2

-----------------------------------------------------------------------------
(* A drained pipe without writers stays drained: nobody can write to it,   *)
(* and nobody can inherit it.                                              *)
LEMMA SealedStays ==
  ASSUME TypeOK, Tree, NEW s \in Streams, Sealed(s)
  PROVE  Sealed(s)' /\ written'[s] = written[s]
<1>0. consumed' = consumed /\ ~PipeOpen(s) /\ consumed[s] = written[s]
  BY DEF Tree, Sealed
<1>1. \A p \in Procs : Lives(p) => s \notin held[p]
  BY <1>0 DEF PipeOpen
<1>2. ASSUME NEW p \in Procs, NEW t \in Streams, Write(p, t)
      PROVE  ~PipeOpen(s)' /\ written'[s] = written[s]
  <2>1. t # s
    BY <1>1, <1>2 DEF Write, Lives
  <2>2. written'[s] = written[s] /\ proc' = proc /\ held' = held
    BY <1>2, <2>1, StateTypes DEF Write
  <2> QED
    BY <1>0, <2>2 DEF PipeOpen, Lives
<1>3. ASSUME NEW p \in Procs, NEW t \in Streams, CloseEnd(p, t)
      PROVE  ~PipeOpen(s)' /\ written'[s] = written[s]
  BY <1>1, <1>3, StateTypes DEF CloseEnd, PipeOpen, Lives
<1>4. ASSUME NEW p \in Group, NEW q \in Descendants, Spawn(p, q)
      PROVE  ~PipeOpen(s)' /\ written'[s] = written[s]
  <2>1. p \in Procs /\ q \in Procs
    BY RunProcessAssumption DEF Procs, Group
  <2>2. PICK kept \in SUBSET held[p] : held' = [held EXCEPT ![q] = kept]
    BY <1>4 DEF Spawn
  <2>3. s \notin kept
    BY <1>1, <1>4, <2>1, <2>2 DEF Spawn, Lives
  <2>4. \A r \in Procs : r # q => proc'[r] = proc[r] /\ held'[r] = held[r]
    BY <1>4, <2>1, <2>2, StateTypes DEF Spawn
  <2>5. held'[q] = kept
    BY <2>1, <2>2, StateTypes
  <2>6. written' = written
    BY <1>4 DEF Spawn
  <2> QED
    BY <1>1, <2>3, <2>4, <2>5, <2>6 DEF PipeOpen, Lives
<1>5. ASSUME NEW p \in Procs, Exit(p)
      PROVE  ~PipeOpen(s)' /\ written'[s] = written[s]
  BY <1>1, <1>5, StateTypes DEF Exit, PipeOpen, Lives
<1>6. ~PipeOpen(s)' /\ written'[s] = written[s]
  BY <1>2, <1>3, <1>4, <1>5 DEF Tree
<1> QED
  BY <1>0, <1>6 DEF Sealed

(* Sending SIGKILL closes no pipe.                                         *)
LEMMA KillKeepsPipes ==
  ASSUME TypeOK, proc' = KilledTree \/ proc' = proc, held' = held,
         consumed' = consumed, written' = written
  PROVE  \A s \in Streams : Sealed(s)' <=> Sealed(s)
<1>1. \A p \in Procs : Lives(p)' <=> Lives(p)
  BY StateTypes DEF KilledTree, Lives
<1> QED
  BY <1>1 DEF Sealed, PipeOpen

(* The flow of a stream depends on its own pipe, reader and events.        *)
LEMMA FlowStays ==
  ASSUME NEW s \in Streams, Flow(s),
         reader'[s] = reader[s], consumed'[s] = consumed[s], outbox'[s] = outbox[s],
         delivered'[s] = delivered[s], events' = events,
         Sealed(s) => Sealed(s)' /\ written'[s] = written[s]
  PROVE  Flow(s)'
<1>1. Framed(s)' /\ Ordered(s)' /\ Covered(s)'
  BY DEF Flow, Framed, Ordered, Covered, Posting, Holds
<1>2. Ending(s)' /\ Settled(s)'
  BY DEF Flow, Ending, Settled, Posting, Queued
<1> QED
  BY <1>1, <1>2 DEF Flow

(* What a reader thread does to the other streams: nothing.                *)
LEMMA OtherFlow ==
  ASSUME TypeOK, NEW t \in Streams, Reader(t), Flow(t),
         NEW s \in Streams, s # t, Flow(s)
  PROVE  Flow(s)' /\ (Queued(s, "end")' <=> Queued(s, "end"))
<1>1. /\ reader'[s] = reader[s] /\ consumed'[s] = consumed[s] /\ outbox'[s] = outbox[s]
      /\ UNCHANGED <<proc, held, written, delivered>>
  BY StateTypes DEF Reader, ReaderCheck, ReaderRead, ReaderEof, ReaderFails,
     ReaderClose, ReaderPut
<1>2. Sealed(s)' <=> Sealed(s)
  BY <1>1 DEF Sealed, PipeOpen, Lives
<1>3. CASE events' = events
  BY <1>1, <1>2, <1>3, FlowStays DEF Queued
<1>4. CASE events' # events
  <2>1. events' = Append(events, outbox[t]) /\ outbox[t].stream = t /\ outbox[t] \in Event
    BY <1>4, StateTypes DEF Reader, ReaderCheck, ReaderRead, ReaderEof, ReaderFails,
       ReaderClose, ReaderPut, Flow, Framed
  <2>2. /\ Len(events) \in Nat
        /\ events'[Len(events) + 1].stream # s
        /\ \A i \in 1 .. Len(events) : events'[i] = events[i] /\ i \in 1 .. Len(events')
        /\ \A i \in 1 .. Len(events') : i = Len(events) + 1 \/ i \in 1 .. Len(events)
    BY <2>1, AppendPlaces
  <2>3. Framed(s)' /\ Ordered(s)'
    BY <1>1, <2>2 DEF Flow, Framed, Ordered, Posting
  <2>4. Covered(s)'
    BY <1>1, <2>2 DEF Flow, Covered, Holds
  <2>5. \A kind \in {"error", "end"} : Queued(s, kind)' <=> Queued(s, kind)
    BY <2>2 DEF Queued
  <2>6. Ending(s)'
    BY <1>1, <1>2, <2>5 DEF Flow, Ending, Posting
  <2>7. Settled(s)'
    BY <1>1, <1>2, <2>2, <2>5 DEF Flow, Settled
  <2> QED
    BY <2>3, <2>4, <2>5, <2>6, <2>7 DEF Flow
<1> QED
  BY <1>3, <1>4

(* A reader thread takes bytes in order, hands over every one of them, and *)
(* reports the end of its stream once and last.                            *)
LEMMA ReaderFlow ==
  ASSUME TypeOK, NEW t \in Streams, Reader(t), ~stop, Flow(t)
  PROVE  Flow(t)' /\ Alive(t) /\ (Alive(t) \/ Queued(t, "end"))'
<1>0. UNCHANGED <<proc, held, written, delivered>>
  BY DEF Reader
<1>1. CASE ReaderCheck(t)
  <2>1. reader'[t] = "read" /\ UNCHANGED <<consumed, outbox, events>>
    BY <1>1, StateTypes DEF ReaderCheck
  <2> QED
    BY <1>0, <1>1, <2>1 DEF ReaderCheck, Flow, Framed, Ordered, Covered, Ending,
       Settled, Posting, Holds, Alive
<1>2. CASE ReaderRead(t)
  <2>1. PICK hi \in (consumed[t] + 1) .. written[t] :
          /\ outbox' = [outbox EXCEPT ![t] = Data(t, consumed[t] + 1, hi)]
          /\ consumed' = [consumed EXCEPT ![t] = hi]
    BY <1>2 DEF ReaderRead
  <2>2. /\ outbox'[t] = Data(t, consumed[t] + 1, hi) /\ consumed'[t] = hi
        /\ reader[t] = "read" /\ reader'[t] = "put" /\ events' = events
    BY <1>2, <2>1, StateTypes DEF ReaderRead
  <2>3. /\ outbox'[t].stream = t /\ outbox'[t].kind = "data"
        /\ outbox'[t].lo = consumed[t] + 1 /\ outbox'[t].hi = hi
    BY <2>2 DEF Data
  <2>4. consumed[t] \in Nat /\ written[t] \in Nat /\ delivered[t] \in Nat
    BY StateTypes
  <2>5. Framed(t)'
    BY <1>0, <2>1, <2>2, <2>3, <2>4, StateTypes, EventFields DEF Flow, Framed, Posting
  <2>6. Ordered(t)'
    BY <2>2 DEF Flow, Ordered
  <2>7. Covered(t)'
    BY <1>0, <2>1, <2>2, <2>3, <2>4 DEF Flow, Covered, Holds
  <2>8. Ending(t)' /\ Settled(t)'
    BY <2>2, <2>3 DEF Ending, Settled, Posting
  <2> QED
    BY <2>2, <2>5, <2>6, <2>7, <2>8 DEF Flow, Alive
<1>3. CASE ReaderEof(t)
  <2>1. /\ reader[t] = "read" /\ reader'[t] = "close"
        /\ UNCHANGED <<consumed, outbox, events>>
    BY <1>3, StateTypes DEF ReaderEof
  <2>2. Sealed(t)'
    BY <1>0, <1>3, <2>1 DEF ReaderEof, Sealed, PipeOpen, Lives
  <2> QED
    BY <1>0, <2>1, <2>2 DEF Flow, Framed, Ordered, Covered, Ending, Settled, Posting,
       Holds, Alive
<1>4. CASE ReaderFails(t)
  <2>1. /\ reader[t] = "read" /\ reader'[t] = "put" /\ UNCHANGED <<consumed, events>>
        /\ outbox'[t].stream = t /\ outbox'[t].kind = "error"
    BY <1>4, StateTypes DEF ReaderFails, Mark
  <2> QED
    BY <1>0, <2>1 DEF Flow, Framed, Ordered, Covered, Ending, Settled, Posting, Holds,
       Alive
<1>5. CASE ReaderClose(t)
  <2>1. /\ reader[t] = "close" /\ reader'[t] = "put" /\ UNCHANGED <<consumed, events>>
        /\ outbox'[t].stream = t /\ outbox'[t].kind = "end"
    BY <1>5, StateTypes DEF ReaderClose, Mark
  <2>2. Sealed(t)' <=> Sealed(t)
    BY <1>0, <2>1 DEF Sealed, PipeOpen, Lives
  <2>3. Ending(t)' /\ Settled(t)'
    BY <2>1, <2>2 DEF Flow, Ending, Settled, Posting, Queued
  <2> QED
    BY <1>0, <2>1, <2>3 DEF Flow, Framed, Ordered, Covered, Posting, Holds, Alive
<1>6. CASE ReaderPut(t)
  <2>1. /\ reader[t] = "put" /\ reader'[t] = AfterPut(t)
        /\ events' = Append(events, outbox[t]) /\ UNCHANGED <<consumed, outbox>>
    BY <1>6, StateTypes DEF ReaderPut
  <2>2. outbox[t] \in Event /\ outbox[t].stream = t
    BY <2>1, StateTypes DEF Flow, Framed
  <2> DEFINE n == Len(events) + 1
  <2>3. /\ Len(events) \in Nat /\ n \in 1 .. Len(events') /\ events'[n] = outbox[t]
        /\ \A i \in 1 .. Len(events) : events'[i] = events[i] /\ i \in 1 .. Len(events')
        /\ \A i \in 1 .. Len(events') : i = n \/ i \in 1 .. Len(events)
    BY <2>1, <2>2, AppendPlaces
  <2>4. /\ outbox[t].kind = "data" => reader'[t] = "check"
        /\ outbox[t].kind = "error" => reader'[t] = "close"
        /\ outbox[t].kind = "end" => reader'[t] = "dead"
        /\ outbox[t].kind \in {"data", "error", "end"}
    BY <2>1, <2>2, EventFields DEF AfterPut
  <2>5. reader'[t] # "put"
    BY <2>4
  <2>6. Framed(t)'
    <3>1. ASSUME NEW i \in 1 .. Len(events'), events'[i].stream = t
          PROVE  /\ events'[i].kind = "end" => reader'[t] = "dead"
                 /\ events'[i].kind = "data" =>
                      /\ delivered[t] < events'[i].lo /\ events'[i].lo <= events'[i].hi
                      /\ events'[i].hi <= consumed[t]
      <4>1. CASE i = n
        <5>1. events'[i] = outbox[t] /\ consumed[t] \in Nat
          BY <2>3, <4>1, StateTypes
        <5> QED
          BY <2>1, <2>4, <5>1 DEF Flow, Framed, Posting
      <4>2. CASE i \in 1 .. Len(events)
        BY <2>1, <2>3, <3>1, <4>2 DEF Flow, Framed
      <4> QED
        BY <2>3, <4>1, <4>2
    <3> QED
      BY <1>0, <2>1, <2>5, <3>1 DEF Flow, Framed, Posting
  <2>7. \A i \in 1 .. Len(events) : events[i].stream = t =>
          events[i].kind # "end" /\ (events[i].kind = "data" /\ outbox[t].kind = "data"
                                       => events[i].hi < outbox[t].lo)
    BY <2>1 DEF Flow, Framed, Posting
  <2>8. Ordered(t)'
    BY <2>3, <2>7 DEF Flow, Ordered
  <2>9. Covered(t)'
    BY <1>0, <2>1, <2>2, <2>3, <2>5 DEF Flow, Covered, Holds
  <2>10. Sealed(t)' <=> Sealed(t)
    BY <1>0, <2>1 DEF Sealed, PipeOpen, Lives
  <2>11. Queued(t, "error")' <=> Queued(t, "error") \/ outbox[t].kind = "error"
    BY <2>2, <2>3 DEF Queued
  <2>12. Ending(t)'
    BY <2>1, <2>4, <2>5, <2>10, <2>11 DEF Flow, Ending, Posting
  <2>13. outbox[t].kind = "end" => Queued(t, "end")'
    BY <2>2, <2>3 DEF Queued
  <2>14. Settled(t)'
    BY <2>4, <2>13 DEF Settled
  <2> QED
    BY <2>1, <2>4, <2>6, <2>8, <2>9, <2>12, <2>13, <2>14 DEF Flow, Alive
<1> QED
  BY <1>1, <1>2, <1>3, <1>4, <1>5, <1>6 DEF Reader

-----------------------------------------------------------------------------
(* The data event at the head of the queue goes on where delivery stopped. *)
LEMMA HeadIsNext ==
  ASSUME TypeOK, events # <<>>, NEW s \in Streams, Flow(s),
         Head(events).stream = s, Head(events).kind = "data"
  PROVE  LET e == Head(events) IN e.lo = delivered[s] + 1 /\ e.lo <= e.hi
<1> DEFINE e == Head(events)
           b == delivered[s] + 1
<1>1. Len(events) \in Nat \ {0} /\ e = events[1]
  <2>1. events \in Seq(Event)
    BY DEF TypeOK
  <2> QED
    BY <2>1, EmptySeq, HeadTailProperties
<1>2. /\ delivered[s] < e.lo /\ e.lo <= e.hi /\ e.hi <= consumed[s]
      /\ Posting(s, "data") => e.hi < outbox[s].lo
  BY <1>1 DEF Flow, Framed
<1>3. /\ e.lo \in Int /\ e.hi \in Int /\ delivered[s] \in Nat /\ consumed[s] \in Nat
      /\ outbox[s].lo \in Int
      /\ \A i \in 1 .. Len(events) : events[i].lo \in Int
  BY <1>1, StateTypes, EventFields
<1>4. b \in (delivered[s] + 1) .. consumed[s]
  BY <1>2, <1>3
<1>5. ASSUME reader[s] = "put", Holds(outbox[s], b)
      PROVE  FALSE
  BY <1>2, <1>3, <1>5 DEF Holds, Posting
<1>6. PICK i \in 1 .. Len(events) : events[i].stream = s /\ Holds(events[i], b)
  BY <1>4, <1>5 DEF Flow, Covered
<1>7. CASE i = 1
  BY <1>1, <1>2, <1>3, <1>6, <1>7 DEF Holds
<1>8. CASE i # 1
  <2>1. e.hi < events[i].lo
    BY <1>1, <1>6, <1>8 DEF Flow, Ordered, Holds
  <2> QED
    BY <1>2, <1>3, <1>6, <2>1 DEF Holds
<1> QED
  BY <1>2, <1>7, <1>8

(* An event that is not at the head of the queue stays queued.             *)
LEMMA StaysQueued ==
  ASSUME TypeOK, events # <<>>, events' = Tail(events), NEW s \in Streams,
         NEW kind \in {"data", "error", "end"},
         Head(events).stream # s \/ Head(events).kind # kind
  PROVE  Queued(s, kind)' <=> Queued(s, kind)
<1>1. ASSUME Queued(s, kind)
      PROVE  Queued(s, kind)'
  <2>1. PICK i \in 1 .. Len(events) : events[i].stream = s /\ events[i].kind = kind
    BY <1>1 DEF Queued
  <2>2. i # 1
    BY <2>1, TailPlaces
  <2>3. i - 1 \in 1 .. Len(events') /\ events'[i - 1] = events[i]
    BY <2>2, TailPlaces
  <2> QED
    BY <2>1, <2>3 DEF Queued
<1>2. ASSUME Queued(s, kind)'
      PROVE  Queued(s, kind)
  <2>1. PICK i \in 1 .. Len(events') : events'[i].stream = s /\ events'[i].kind = kind
    BY <1>2 DEF Queued
  <2>2. events'[i] = events[i + 1] /\ i + 1 \in 1 .. Len(events)
    BY TailPlaces
  <2> QED
    BY <2>1, <2>2 DEF Queued
<1> QED
  BY <1>1, <1>2

(* Taking the head of the queue leaves the other streams alone, ...        *)
LEMMA OtherTaken ==
  ASSUME TypeOK, events # <<>>, events' = Tail(events),
         NEW s \in Streams, Head(events).stream # s, Flow(s),
         UNCHANGED <<tree, threads>>, delivered'[s] = delivered[s]
  PROVE  Flow(s)' /\ (Queued(s, "end")' <=> Queued(s, "end"))
<1>1. /\ events[1].stream # s
      /\ \A i \in 1 .. Len(events') :
           events'[i] = events[i + 1] /\ i + 1 \in 1 .. Len(events)
      /\ \A i \in 1 .. Len(events) : i # 1 =>
           i - 1 \in 1 .. Len(events') /\ events'[i - 1] = events[i]
  BY TailPlaces
<1>2. \A kind \in {"error", "end"} : Queued(s, kind)' <=> Queued(s, kind)
  BY StaysQueued
<1>3. Sealed(s)' <=> Sealed(s)
  BY DEF Sealed, PipeOpen, Lives
<1>4. Framed(s)'
  BY <1>1 DEF Flow, Framed, Posting
<1>5. Ordered(s)'
  BY <1>1 DEF Flow, Ordered
<1>6. Covered(s)'
  <2> SUFFICES ASSUME NEW b \in (delivered[s] + 1) .. consumed[s],
                      ~(reader[s] = "put" /\ Holds(outbox[s], b))
               PROVE  \E i \in 1 .. Len(events') :
                        events'[i].stream = s /\ Holds(events'[i], b)
    BY DEF Covered, Holds
  <2>1. PICK i \in 1 .. Len(events) : events[i].stream = s /\ Holds(events[i], b)
    BY DEF Flow, Covered
  <2>2. i # 1
    BY <1>1, <2>1
  <2> QED
    BY <1>1, <2>1, <2>2
<1>7. Ending(s)'
  BY <1>2, <1>3 DEF Flow, Ending, Posting
<1>8. Settled(s)'
  BY <1>1, <1>2, <1>3 DEF Flow, Settled
<1> QED
  BY <1>2, <1>4, <1>5, <1>6, <1>7, <1>8 DEF Flow

(* ... a data event at the head is delivered in its place, ...             *)
LEMMA DataTaken ==
  ASSUME TypeOK, events # <<>>, events' = Tail(events),
         NEW s \in Streams, Head(events).stream = s, Flow(s),
         Head(events).kind = "data",
         UNCHANGED <<tree, threads>>, delivered'[s] = Head(events).hi
  PROVE  Flow(s)' /\ (Queued(s, "end")' <=> Queued(s, "end"))
<1> DEFINE e == Head(events)
<1>1. /\ e = events[1] /\ 1 \in 1 .. Len(events) /\ Len(events) \in Nat
      /\ \A i \in 1 .. Len(events') :
           events'[i] = events[i + 1] /\ i + 1 \in 1 .. Len(events) /\ 1 < i + 1
      /\ \A i \in 1 .. Len(events) : i # 1 =>
           i - 1 \in 1 .. Len(events') /\ events'[i - 1] = events[i]
  BY TailPlaces
<1>2. e.lo = delivered[s] + 1 /\ e.lo <= e.hi
  BY HeadIsNext
<1>3. /\ e.lo \in Int /\ e.hi \in Int /\ delivered[s] \in Nat /\ consumed[s] \in Nat
      /\ \A i \in 1 .. Len(events) : events[i].lo \in Int
  BY <1>1, StateTypes, EventFields
<1>4. \A kind \in {"error", "end"} : Queued(s, kind)' <=> Queued(s, kind)
  BY StaysQueued
<1>5. Sealed(s)' <=> Sealed(s)
  BY DEF Sealed, PipeOpen, Lives
<1>6. /\ e.hi <= consumed[s]
      /\ Posting(s, "data") => e.hi < outbox[s].lo
  BY <1>1 DEF Flow, Framed
<1>7. \A i \in 1 .. Len(events') : events'[i].stream = s /\ events'[i].kind = "data" =>
        e.hi < events'[i].lo
  BY <1>1 DEF Flow, Ordered
<1>8. Framed(s)'
  BY <1>1, <1>6, <1>7 DEF Flow, Framed, Posting
<1>9. Ordered(s)'
  BY <1>1 DEF Flow, Ordered
<1>10. Covered(s)'
  <2> SUFFICES ASSUME NEW b \in (e.hi + 1) .. consumed[s]
               PROVE  \/ \E i \in 1 .. Len(events') :
                           events'[i].stream = s /\ Holds(events'[i], b)
                      \/ reader[s] = "put" /\ Holds(outbox[s], b)
    BY DEF Covered, Holds
  <2>1. b \in (delivered[s] + 1) .. consumed[s] /\ ~(b <= e.hi)
    BY <1>2, <1>3
  <2>2. CASE \E i \in 1 .. Len(events) : events[i].stream = s /\ Holds(events[i], b)
    <3>1. PICK i \in 1 .. Len(events) : events[i].stream = s /\ Holds(events[i], b)
      BY <2>2
    <3>2. i # 1
      BY <1>1, <2>1, <3>1 DEF Holds
    <3> QED
      BY <1>1, <3>1, <3>2
  <2> QED
    BY <2>1, <2>2 DEF Flow, Covered
<1>11. Ending(s)'
  BY <1>4, <1>5 DEF Flow, Ending, Posting
<1>12. Settled(s)'
  BY <1>1, <1>4 DEF Flow, Settled
<1> QED
  BY <1>4, <1>8, <1>9, <1>10, <1>11, <1>12 DEF Flow

(* ... and the end marker at the head settles the stream.                  *)
LEMMA EndTaken ==
  ASSUME TypeOK, events # <<>>, events' = Tail(events),
         NEW s \in Streams, Head(events).stream = s, Flow(s),
         Head(events).kind = "end",
         UNCHANGED <<tree, threads, delivered>>
  PROVE  Flow(s)' /\ ~Queued(s, "end")' /\ Queued(s, "end") /\ reader[s] = "dead"
<1>1. /\ Head(events) = events[1] /\ 1 \in 1 .. Len(events) /\ Len(events) \in Nat
      /\ \A i \in 1 .. Len(events') :
           events'[i] = events[i + 1] /\ i + 1 \in 1 .. Len(events) /\ 1 < i + 1
      /\ \A i \in 1 .. Len(events) : i = 1 \/ 1 < i
  BY TailPlaces
<1>2. reader[s] = "dead" /\ Queued(s, "end")
  BY <1>1 DEF Flow, Framed, Queued
<1>3. \A i \in 1 .. Len(events) : i = 1 \/ events[i].stream # s
  BY <1>1 DEF Flow, Ordered
<1>4. \A i \in 1 .. Len(events') : events'[i].stream # s
  BY <1>1 DEF Flow, Ordered
<1>5. Sealed(s)
  BY <1>1, <1>2, <1>3 DEF Flow, Ending, Queued, Posting
<1>6. delivered[s] = consumed[s]
  <2>1. \A b \in (delivered[s] + 1) .. consumed[s] : FALSE
    BY <1>1, <1>2, <1>3 DEF Flow, Covered, Holds
  <2>2. delivered[s] \in Nat /\ consumed[s] \in Nat /\ delivered[s] <= consumed[s]
    BY StateTypes DEF Flow, Framed
  <2>3. CASE delivered[s] < consumed[s]
    <3>1. delivered[s] + 1 \in (delivered[s] + 1) .. consumed[s]
      BY <2>2, <2>3
    <3> QED
      BY <2>1, <3>1
  <2> QED
    BY <2>2, <2>3
<1>7. Sealed(s)' /\ delivered'[s] = written'[s]
  BY <1>5, <1>6 DEF Sealed, PipeOpen, Lives
<1>8. ~Queued(s, "end")'
  BY <1>4 DEF Queued
<1>9. Framed(s)' /\ Ordered(s)'
  BY <1>2, <1>4 DEF Flow, Framed, Ordered, Posting
<1>10. Covered(s)'
  <2>1. \A b \in (delivered[s] + 1) .. consumed[s] : FALSE
    BY <1>6, StateTypes
  <2> QED
    BY <2>1 DEF Covered
<1>11. Ending(s)' /\ Settled(s)'
  BY <1>4, <1>7 DEF Ending, Settled
<1> QED
  BY <1>2, <1>8, <1>9, <1>10, <1>11 DEF Flow

(* Retention adds the bytes that follow, as far as there is room.          *)
LEMMA BytesFollow ==
  ASSUME NEW a \in Nat, NEW k \in Nat, NEW lo \in Nat \ {0}, k = 0 \/ lo = a + 1
  PROVE  Bytes(1, a) \o Bytes(lo, k) = Bytes(1, a + k)
<1>1. /\ Bytes(1, a) \in Seq(Nat) /\ Len(Bytes(1, a)) = a
      /\ Bytes(lo, k) \in Seq(Nat) /\ Len(Bytes(lo, k)) = k
      /\ Bytes(1, a + k) \in Seq(Nat) /\ Len(Bytes(1, a + k)) = a + k
  BY BytesTypes
<1>2. \A i \in 1 .. a : Bytes(1, a)[i] = i
  BY DEF Bytes
<1>3. \A i \in 1 .. k : Bytes(lo, k)[i] = (lo + i) - 1
  BY DEF Bytes
<1>4. \A i \in 1 .. (a + k) : Bytes(1, a + k)[i] = i
  BY DEF Bytes
<1> DEFINE u == Bytes(1, a)
           v == Bytes(lo, k)
           w == Bytes(1, a + k)
<1> HIDE DEF u, v, w
<1>5. /\ u \o v \in Seq(Nat) /\ Len(u \o v) = a + k
      /\ \A i \in 1 .. (a + k) : (u \o v)[i] = IF i <= a THEN u[i] ELSE v[i - a]
  <2>1. u \in Seq(Nat) /\ v \in Seq(Nat) /\ Len(u) = a /\ Len(v) = k
    BY <1>1 DEF u, v
  <2>2. u \o v \in Seq(Nat) /\ Len(u \o v) = a + k
    BY <2>1, ConcatProperties
  <2>3. \A i \in 1 .. (a + k) : (u \o v)[i] = IF i <= a THEN u[i] ELSE v[i - a]
    BY <2>1, ConcatProperties
  <2> QED
    BY <2>2, <2>3
<1>6. \A i \in 1 .. (a + k) : (u \o v)[i] = w[i]
  <2>1. ASSUME NEW i \in 1 .. (a + k)
        PROVE  (u \o v)[i] = w[i]
    <3>1. CASE i <= a
      BY <1>2, <1>4, <1>5, <2>1, <3>1 DEF u, w
    <3>2. CASE ~(i <= a)
      <4>1. i - a \in 1 .. k /\ lo = a + 1
        BY <2>1, <3>2
      <4>2. v[i - a] = i
        BY <1>3, <4>1 DEF v
      <4> QED
        BY <1>4, <1>5, <2>1, <3>2, <4>2 DEF w
    <3> QED
      BY <3>1, <3>2
  <2> QED
    BY <2>1
<1>7. w \in Seq(Nat) /\ Len(w) = a + k
  BY <1>1 DEF w
<1> QED
  BY <1>5, <1>6, <1>7, SeqEqual DEF u, v, w

LEMMA RetentionStep ==
  ASSUME TypeOK, NEW s \in Streams, NEW e \in Event, e.stream = s, Retain(e),
         e.lo = delivered[s] + 1, e.lo <= e.hi, \A t \in Streams : Retention(t)
  PROVE  (\A t \in Streams : Retention(t)') /\ delivered'[s] = e.hi
           /\ \A t \in Streams : t # s => delivered'[t] = delivered[t]
<1>1. /\ e.lo \in Int /\ e.hi \in Int /\ delivered[s] \in Nat /\ MaxOutput \in Nat
      /\ retained[s] \in Seq(Nat) /\ truncated[s] \in BOOLEAN
  BY EventFields, RunProcessAssumption DEF TypeOK
<1> DEFINE a == Least(delivered[s], MaxOutput)
<1>2. a \in Nat /\ Len(retained[s]) = a
  <2>1. a \in Nat
    BY <1>1 DEF Least
  <2>2. retained[s] = Bytes(1, a)
    BY DEF Retention
  <2> HIDE DEF a
  <2> QED
    BY <2>1, <2>2, BytesTypes
<1>3. /\ Kept(e) \in Nat /\ a + Kept(e) = Least(e.hi, MaxOutput)
      /\ Kept(e) = 0 \/ e.lo = a + 1
  <2>1. Size(e) = e.hi - delivered[s] /\ Room(s) = MaxOutput - a
    BY <1>1, <1>2 DEF Size, Room
  <2>2. Kept(e) = IF e.hi - delivered[s] <= MaxOutput - a
                    THEN e.hi - delivered[s] ELSE MaxOutput - a
    BY <2>1 DEF Kept
  <2> QED
    BY <1>1, <2>2 DEF Least
<1>4. e.lo \in Nat \ {0}
  BY <1>1
<1>5. Bytes(1, a) \o Bytes(e.lo, Kept(e)) = Bytes(1, a + Kept(e))
  BY <1>2, <1>3, <1>4, BytesFollow
<1>6. /\ delivered'[s] = e.hi
      /\ retained'[s] = retained[s] \o Bytes(e.lo, Kept(e))
      /\ truncated'[s] = (truncated[s] \/ Size(e) > Room(s))
      /\ \A t \in Streams : t # s => /\ delivered'[t] = delivered[t]
                                     /\ retained'[t] = retained[t]
                                     /\ truncated'[t] = truncated[t]
  BY DEF Retain, TypeOK
<1>7. Size(e) > Room(s) <=> e.hi - delivered[s] > MaxOutput - a
  BY <1>1, <1>2 DEF Size, Room
<1>8. (truncated[s] \/ Size(e) > Room(s)) <=> e.hi > MaxOutput
  BY <1>1, <1>7 DEF Retention, Least
<1>9. Retention(s)'
  BY <1>3, <1>5, <1>6, <1>8 DEF Retention
<1> QED
  BY <1>6, <1>9 DEF Retention

(* pending counts: a reader more when one is started, one fewer with its   *)
(* end marker, and none left only when every stream is settled.            *)
LEMMA UnsettledFinite ==
  IsFiniteSet(Unsettled) /\ Cardinality(Unsettled) \in Nat
<1>1. IsFiniteSet(Unsettled)
  BY RunProcessAssumption, FS_Subset DEF Unsettled
<1> QED
  BY <1>1, FS_CardinalityType

LEMMA OneMore ==
  ASSUME NEW s, s \notin Unsettled, Unsettled' = Unsettled \union {s}
  PROVE  Cardinality(Unsettled') = Cardinality(Unsettled) + 1
  BY UnsettledFinite, FS_AddElement

LEMMA OneFewer ==
  ASSUME NEW s, s \in Unsettled, Unsettled' = Unsettled \ {s}
  PROVE  Cardinality(Unsettled') = Cardinality(Unsettled) - 1
  BY UnsettledFinite, FS_RemoveElement

LEMMA NobodyPending ==
  ASSUME Cardinality(Unsettled') <= 0,
         \A s \in Streams : Flow(s)' /\ reader'[s] # "none"
  PROVE  \A s \in Streams : Sealed(s)' /\ delivered'[s] = written'[s]
<1>1. IsFiniteSet(Unsettled')
  BY RunProcessAssumption, FS_Subset DEF Unsettled
<1>2. Cardinality(Unsettled') = 0
  BY <1>1, FS_CardinalityType
<1>3. Unsettled' = {}
  BY <1>1, <1>2, FS_EmptySet
<1> QED
  BY <1>3 DEF Unsettled, Alive, Flow, Settled

(* A step that touches neither the readers, the queue nor the pipes.       *)
Still ==
  /\ UNCHANGED <<threads, events, output, held, written>>
  /\ proc' = proc \/ proc' = KilledTree

LEMMA StillKeeps ==
  ASSUME TypeOK, Still
  PROVE  /\ \A s \in Streams : Flow(s) => Flow(s)'
         /\ \A s \in Streams : Sealed(s)' <=> Sealed(s)
         /\ \A s \in Streams : Retention(s)' <=> Retention(s)
         /\ Unsettled' = Unsettled
<1>1. \A s \in Streams : Sealed(s)' <=> Sealed(s)
  BY KillKeepsPipes DEF Still
<1>2. \A s \in Streams : Flow(s) => Flow(s)'
  BY <1>1, FlowStays DEF Still
<1>3. \A s \in Streams : Retention(s)' <=> Retention(s)
  BY DEF Still, Retention
<1>4. Unsettled' = Unsettled
  BY DEF Still, Unsettled, Alive, Queued
<1> QED
  BY <1>1, <1>2, <1>3, <1>4

LEMMA OutputInvariant == Spec => []OutputInv
<1>1. Init => OutputInv
  <2> SUFFICES ASSUME Init PROVE OutputInv
    OBVIOUS
  <2>1. /\ outcome = "none" /\ pc = "launch" /\ pending = 0 /\ ~stop
        /\ events = <<>> /\ Len(events) = 0
    BY DEF Init
  <2>2. \A s \in Streams : /\ reader[s] = "none" /\ delivered[s] = 0
                           /\ consumed[s] = 0 /\ written[s] = 0
                           /\ retained[s] = <<>> /\ truncated[s] = FALSE
    BY DEF Init
  <2>3. \A s \in Streams : Flow(s)
    BY <2>1, <2>2 DEF Flow, Framed, Ordered, Covered, Ending, Settled, Posting
  <2>4. Unsettled = {}
    BY <2>1, <2>2 DEF Unsettled, Alive, Queued
  <2>5. Cardinality(Unsettled) = 0
    BY <2>4, FS_EmptySet
  <2>6. \A s \in Streams : Retention(s)
    <3>1. Least(0, MaxOutput) = 0 /\ ~(0 > MaxOutput)
      BY RunProcessAssumption DEF Least
    <3>2. Bytes(1, 0) = <<>>
      BY DEF Bytes
    <3> QED
      BY <2>2, <3>1, <3>2 DEF Retention
  <2> QED
    BY <2>1, <2>2, <2>3, <2>5, <2>6 DEF OutputInv, Running, Unlisted, Looping, Past, TryBody
<1>2. TypeOK /\ OutputInv /\ [Next]_vars => OutputInv'
  <2> SUFFICES ASSUME TypeOK, OutputInv, [Next]_vars
               PROVE  OutputInv'
    OBVIOUS
  <2> USE DEF OutputInv, Running, Unlisted, Looping, Past, TryBody
  <2>0. pending \in Int
    BY DEF TypeOK
  <2>1. CASE Tree
    <3>1. UNCHANGED <<threads, events, stop, pc, loop, output, outcome>>
      BY <2>1 DEF Tree
    <3>2. \A s \in Streams : Sealed(s) => Sealed(s)' /\ written'[s] = written[s]
      BY <2>1, SealedStays
    <3>3. \A s \in Streams : Flow(s) => Flow(s)'
      BY <3>1, <3>2, FlowStays
    <3>4. Unsettled' = Unsettled /\ \A s \in Streams : Retention(s)' <=> Retention(s)
      BY <3>1 DEF Unsettled, Alive, Queued, Retention
    <3> QED
      BY <3>1, <3>2, <3>3, <3>4
  <2>2. ASSUME NEW t \in Streams, Reader(t)
        PROVE  OutputInv'
    <3>1. UNCHANGED <<tree, stop, pc, loop, output, outcome>>
      BY <2>2 DEF Reader
    <3>2. reader[t] # "none" /\ reader'[t] # "none"
            /\ \A s \in Streams : s # t => reader'[s] = reader[s]
      BY <2>2, StateTypes DEF Reader, ReaderCheck, ReaderRead, ReaderEof, ReaderFails,
         ReaderClose, ReaderPut, AfterPut, Event
    <3>3. \A s \in Streams : Retention(s)' <=> Retention(s)
      BY <3>1 DEF Retention
    <3>4. ASSUME NEW s \in Streams, Sealed(s), delivered[s] = written[s]
          PROVE  Sealed(s)' /\ delivered'[s] = written'[s]
      <4>1. consumed'[s] = consumed[s]
        BY <2>2, <3>4, StateTypes DEF Sealed, Reader, ReaderCheck, ReaderRead,
           ReaderEof, ReaderFails, ReaderClose, ReaderPut
      <4> QED
        BY <3>1, <3>4, <4>1 DEF Sealed, PipeOpen, Lives
    <3>5. CASE Running
      <4>1. \A s \in Streams : Flow(s)'
        BY <2>2, <3>5, ReaderFlow, OtherFlow
      <4>2. t \in Unsettled /\ t \in Unsettled'
        BY <2>2, <3>5, ReaderFlow DEF Unsettled
      <4>3. \A s \in Streams : s # t => (s \in Unsettled' <=> s \in Unsettled)
        BY <2>2, <3>2, <3>5, OtherFlow DEF Unsettled, Alive
      <4>4. Unsettled' = Unsettled
        BY <4>2, <4>3 DEF Unsettled
      <4> QED
        BY <3>1, <3>2, <3>3, <3>5, <4>1, <4>4
    <3> QED
      BY <3>1, <3>2, <3>3, <3>4, <3>5
  <2>3. ASSUME NEW t \in Streams, StartReader(t)
        PROVE  OutputInv'
    <3>1. /\ UNCHANGED <<tree, consumed, outbox, events, stop, loop, output, outcome>>
          /\ pc = "readers" /\ pc' = "started"
          /\ reader[t] = "none" /\ reader'[t] = "check"
          /\ \A s \in Streams : s # t => reader'[s] = reader[s]
      BY <2>3, StateTypes DEF StartReader, Started
    <3>2. \A s \in Streams : /\ Sealed(s)' <=> Sealed(s)
                             /\ Retention(s)' <=> Retention(s)
                             /\ Queued(s, "end")' <=> Queued(s, "end")
      BY <3>1 DEF Sealed, PipeOpen, Lives, Retention, Queued
    <3>3. CASE Running
      <4>1. \A s \in Streams : s # t => Flow(s)'
        BY <3>1, <3>2, <3>3, FlowStays
      <4>2. Flow(t) /\ ~Queued(t, "end")
        BY <3>1, <3>3 DEF Flow, Framed, Queued
      <4>3. Flow(t)'
        BY <3>1, <4>2 DEF Flow, Framed, Ordered, Covered, Ending, Settled, Posting, Holds
      <4>4. t \notin Unsettled /\ Unsettled' = Unsettled \union {t}
        BY <3>1, <3>2, <4>2 DEF Unsettled, Alive
      <4>5. Cardinality(Unsettled)' = Cardinality(Unsettled) + 1
        BY <4>4, OneMore
      <4> QED
        BY <2>0, <3>1, <3>2, <3>3, <4>1, <4>3, <4>5
    <3> QED
      BY <3>1, <3>2, <3>3
  <2>4. CASE Launch
    <3>1. /\ UNCHANGED <<threads, events, stop, loop, output, outcome, written>>
          /\ pc = "launch" /\ pc' = "launched"
      BY <2>4 DEF Launch
    <3>2. \A s \in Streams : Retention(s)' <=> Retention(s)
      BY <3>1 DEF Retention
    <3>3. Unsettled' = Unsettled
      BY <3>1 DEF Unsettled, Alive, Queued
    <3>4. ASSUME outcome = "none", NEW s \in Streams
          PROVE  Flow(s)'
      <4>1. Flow(s) /\ reader[s] = "none"
        BY <3>1, <3>4
      <4> QED
        BY <3>1, <4>1 DEF Flow, Framed, Ordered, Covered, Ending, Settled, Posting, Holds
    <3> QED
      BY <3>1, <3>2, <3>3, <3>4
  <2>5. CASE GetError
    <3>1. outcome' = "process_error" /\ pc' = "cleanup"
      BY <2>5 DEF GetError
    <3> QED
      BY <3>1
  <2>6. CASE GetData
    <3> DEFINE e == Head(events)
               t == e.stream
    <3>1. /\ events # <<>> /\ events' = Tail(events) /\ e.kind = "data" /\ pc = "get"
          /\ UNCHANGED <<tree, threads, stop, loop>> /\ Retain(e) /\ Callback(pending)
      BY <2>6 DEF GetData, Receives
    <3>2. e \in Event /\ t \in Streams
      BY <3>1, TailPlaces, StateTypes, EventFields
    <3>3. CASE outcome # "none" \/ outcome' # "none"
      BY <3>1, <3>3 DEF Callback, LoopPoint
    <3>4. CASE outcome = "none" /\ outcome' = "none"
      <4>0. \A s \in Streams : Flow(s) /\ Retention(s)
        BY <3>1, <3>4
      <4>1. e.lo = delivered[t] + 1 /\ e.lo <= e.hi
        BY <3>1, <3>2, <4>0, HeadIsNext
      <4>2. /\ \A s \in Streams : Retention(s)'
            /\ delivered'[t] = e.hi
            /\ \A s \in Streams : s # t => delivered'[s] = delivered[s]
        <5> HIDE DEF e, t
        <5>1. t = e.stream
          BY DEF t
        <5> QED
          BY <3>1, <3>2, <4>0, <4>1, <5>1, RetentionStep
      <4>3. \A s \in Streams : Flow(s)' /\ (Queued(s, "end")' <=> Queued(s, "end"))
        BY <3>1, <3>2, <4>0, <4>2, OtherTaken, DataTaken
      <4>4. Unsettled' = Unsettled
        BY <3>1, <4>3 DEF Unsettled, Alive
      <4>5. pc' = LoopPoint(pending) /\ \A s \in Streams : reader'[s] # "none"
        BY <3>1, <3>4 DEF Callback
      <4>6. CASE pc' = "poll"
        BY <3>1, <3>4, <4>2, <4>3, <4>4, <4>5, <4>6
      <4>7. CASE pc' # "poll"
        <5>1. pc' = "cleanup" /\ Cardinality(Unsettled) <= 0
          BY <2>0, <3>1, <3>4, <4>5, <4>7, UnsettledFinite DEF LoopPoint
        <5>2. \A s \in Streams : Sealed(s)' /\ delivered'[s] = written'[s]
          BY <4>3, <4>4, <4>5, <5>1, NobodyPending
        <5> QED
          BY <3>4, <4>2, <5>1, <5>2
      <4> QED
        BY <4>6, <4>7
    <3> QED
      BY <3>3, <3>4
  <2>7. CASE GetEnd
    <3>1. /\ events # <<>> /\ events' = Tail(events) /\ Head(events).kind = "end"
          /\ pc = "get" /\ pending' = pending - 1 /\ Callback(pending - 1)
          /\ UNCHANGED <<tree, threads, stop, output>>
      BY <2>7 DEF GetEnd, Receives
    <3>2. PICK t \in Streams : Head(events).stream = t
      BY <3>1, TailPlaces, StateTypes, EventFields
    <3>3. CASE outcome # "none" \/ outcome' # "none"
      BY <3>1, <3>3 DEF Callback, LoopPoint
    <3>4. CASE outcome = "none" /\ outcome' = "none"
      <4>0. \A s \in Streams : Flow(s) /\ Retention(s)
        BY <3>1, <3>4
      <4>1. \A s \in Streams : s # t => Flow(s)' /\ (Queued(s, "end")' <=> Queued(s, "end"))
        BY <3>1, <3>2, <4>0, OtherTaken
      <4>2. Flow(t)' /\ ~Queued(t, "end")' /\ Queued(t, "end") /\ reader[t] = "dead"
        BY <3>1, <3>2, <4>0, EndTaken
      <4>3. \A s \in Streams : Retention(s)'
        BY <3>1, <4>0 DEF Retention
      <4>4. t \in Unsettled /\ Unsettled' = Unsettled \ {t}
        BY <3>1, <3>2, <4>1, <4>2 DEF Unsettled, Alive
      <4>5. Cardinality(Unsettled') = Cardinality(Unsettled) - 1
        BY <4>4, OneFewer
      <4>6. /\ pending - 1 = Cardinality(Unsettled') /\ pc' = LoopPoint(pending - 1)
            /\ \A s \in Streams : reader'[s] # "none"
        BY <2>0, <3>1, <3>4, <4>5 DEF Callback
      <4>7. CASE pc' = "poll"
        BY <3>1, <3>4, <4>1, <4>2, <4>3, <4>6, <4>7
      <4>8. CASE pc' # "poll"
        <5>1. pc' = "cleanup" /\ Cardinality(Unsettled') <= 0
          BY <3>1, <4>5, <4>6, <4>8, UnsettledFinite DEF LoopPoint
        <5>2. \A s \in Streams : Sealed(s)' /\ delivered'[s] = written'[s]
          BY <4>1, <4>2, <4>6, <5>1, NobodyPending
        <5> QED
          BY <3>4, <4>3, <5>1, <5>2
      <4> QED
        BY <4>7, <4>8
    <3> QED
      BY <3>3, <3>4
  <2>8. ASSUME Still, pending' = pending, outcome' = outcome, stop' = stop,
               \/ pc' = pc
               \/ pc = "launched" /\ pc' = "readers"
               \/ pc = "readers" /\ pc' = "poll" /\ Started = Streams
               \/ Looping /\ Looping'
               \/ pc = "cleanup" /\ pc' = "wait"
               \/ pc = "wait" /\ pc' = "stop"
        PROVE  OutputInv'
    BY <2>8, StillKeeps DEF Still, Started
  <2>9. CASE Elapse(DeadlinePasses) \/ Elapse(CleanupExpires) \/ EnterTry \/ EnterLoop
               \/ GetEmpty \/ NoticeEnd \/ Kill \/ PollAgain \/ CleanupKill \/ WaitReaped
               \/ Finished \/ UNCHANGED vars
    <3>1. Still /\ pending' = pending /\ outcome' = outcome /\ stop' = stop
      BY <2>9 DEF Still, Elapse, EnterTry, EnterLoop, GetEmpty, NoticeEnd, Kill,
         PollAgain, CleanupKill, WaitReaped, Finished, vars
    <3>2. \/ pc' = pc
          \/ pc = "launched" /\ pc' = "readers"
          \/ pc = "readers" /\ pc' = "poll" /\ Started = Streams
          \/ Looping /\ Looping'
          \/ pc = "cleanup" /\ pc' = "wait"
          \/ pc = "wait" /\ pc' = "stop"
      BY <2>9 DEF Elapse, EnterTry, EnterLoop, GetEmpty, NoticeEnd, Kill, PollAgain,
         CleanupKill, WaitReaped, Finished, vars
    <3> QED
      BY <2>8, <3>1, <3>2
  <2>10. CASE LaunchFails \/ StartFails \/ GiveUp \/ WaitExpires \/ Interrupt
    <3>1. outcome' \in {"process_error", "exception"} /\ ~Running'
      BY <2>10 DEF LaunchFails, StartFails, GiveUp, WaitExpires, Interrupt
    <3> QED
      BY <3>1
  <2>13. CASE ListReader
    <3>1. /\ Still /\ outcome' = outcome /\ stop' = stop
          /\ pc = "started" /\ pc' = "readers" /\ pending' = pending + 1
      BY <2>13 DEF ListReader, Still
    <3>2. pending \in Int
      BY DEF TypeOK
    <3> QED
      BY <3>1, <3>2, StillKeeps
  <2>11. CASE SetStop
    <3>1. Still /\ pc = "stop" /\ pc' = "join" /\ outcome' = outcome
      BY <2>11 DEF SetStop, Still
    <3> QED
      BY <3>1, StillKeeps DEF Still
  <2>12. CASE Join
    <3>1. /\ Still /\ pc = "join" /\ pc' = "done"
          /\ \/ outcome' = "process_error"
             \/ outcome = "none" /\ outcome' = "result"
             \/ outcome # "none" /\ outcome' = outcome
      BY <2>12 DEF Join, Still
    <3> QED
      BY <3>1, StillKeeps DEF Still
  <2> QED
    BY <2>1, <2>2, <2>3, <2>4, <2>5, <2>6, <2>7, <2>9, <2>10, <2>11, <2>12, <2>13
    DEF Next, Main
<1> QED
  BY <1>1, <1>2, TypeCorrect, PTL DEF Spec

(* The result of run_process is complete: for each pipe it retains the     *)
(* first MaxOutput bytes of everything the command and its descendants     *)
(* wrote, says truncated exactly when there was more, and on_output has    *)
(* seen all of it.  For any pipes, capacity, limit and interrupts.         *)
THEOREM OutputIsComplete == Spec => []CompleteOutput
<1>1. TypeOK /\ OutputInv => CompleteOutput
  <2> SUFFICES ASSUME TypeOK, OutputInv, outcome = "result", NEW s \in Streams
               PROVE  /\ delivered[s] = written[s]
                      /\ retained[s] = Bytes(1, IF written[s] <= MaxOutput
                                                  THEN written[s] ELSE MaxOutput)
                      /\ truncated[s] <=> written[s] > MaxOutput
    BY DEF CompleteOutput
  <2>1. delivered[s] = written[s] /\ Retention(s)
    BY DEF OutputInv, Past
  <2> QED
    BY <2>1 DEF Retention, Least
<1> QED
  BY <1>1, OutputInvariant, TypeCorrect, PTL

=============================================================================
