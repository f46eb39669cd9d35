------------------------ MODULE WorkerProcessProofs -------------------------
(***************************************************************************)
(* Proofs about the worker process, for any jobs, clients, threshold and   *)
(* number of events.  The inductive invariant is the conjunction of the    *)
(* parts below: what is known of the jobs in each phase of bootstrap and   *)
(* shutdown, and that an event is in one place at a time.                  *)
(***************************************************************************)
EXTENDS WorkerProcess, TLAPS

\* Before bootstrap has started the jobs there is none to stop.
NoJobYet ==
  /\ boot # "ready" => listed = {}
  /\ boot = "ready" => listed = Jobs
  /\ \A j \in Jobs : stopped[j] => j \in listed
  /\ \A j \in Jobs : j \notin listed => ticks[j] = 0 /\ timers[j] = 0

\* A stopped job has no timer, and no tick once its stop has returned.
StopIsFinal ==
  /\ shutdown = "no" => \A j \in Jobs : ~stopped[j]
  /\ \A j \in Jobs : stopped[j] => timers[j] = 0
  /\ \A j \in Jobs : stopped[j] /\ j \notin awaited => ticks[j] = 0
  /\ shutdown \in {"no", "closing", "flushing", "exiting"} => awaited = {}

AllStopped == \A j \in listed : stopped[j]

\* Nothing is queued behind the final flush.
FlushIsLast ==
  /\ exit = "shutdown" => shutdown = "exiting"
  /\ shutdown \in {"flushing", "exiting"} /\ AllStopped => queue = {}

\* An event waits in one place at a time: the queue, a batch or the final batch.
Apart ==
  /\ queue \intersect final = {}
  /\ \A b \in flushing : b \intersect queue = {} /\ b \intersect final = {}
  /\ \A b1, b2 \in flushing : b1 # b2 => b1 \intersect b2 = {}
  /\ shutdown \in {"no", "stopping", "closing"} => final = {}

\* Events are numbered in the order they are emitted.
Numbered ==
  \A e \in queue \union InFlight \union written \union dropped : e.id <= emitted

-----------------------------------------------------------------------------
(* Type correctness *)

LEMMA TypeInit == ASSUME Init PROVE TypeOK
<1>1. emitted \in 0..MaxEvents
  BY WorkerAssumption DEF Init, WorkerAssumption
<1>2. timers \in [Jobs -> Nat] /\ ticks \in [Jobs -> Nat] /\ stopped \in [Jobs -> BOOLEAN]
  BY DEF Init
<1> QED BY <1>1, <1>2 DEF Init, TypeOK

LEMMA TypeBoot ==
  ASSUME TypeOK, BootFails \/ RedisAnswers \/ PrismaAnswers \/ BootExit
  PROVE  TypeOK'
BY DEF TypeOK, BootFails, RedisAnswers, PrismaAnswers, BootExit, StartJobs,
       bootVars, jobVars, downVars, auditVars

LEMMA TypeTimer ==
  ASSUME TypeOK, NEW j \in Jobs, TimerFires(j)
  PROVE  TypeOK'
<1>1. ticks' \in [Jobs -> Nat]
  BY DEF TypeOK, TimerFires
<1>2. timers' \in [Jobs -> Nat]
  <2>1. timers[j] \in Nat /\ timers[j] - 1 \in Nat
    BY DEF TypeOK, TimerFires
  <2> QED BY <2>1 DEF TypeOK, TimerFires
<1> QED BY <1>1, <1>2 DEF TypeOK, TimerFires, bootVars, downVars, auditVars

LEMMA TypeTick ==
  ASSUME TypeOK, NEW j \in Jobs, TickSettles(j)
  PROVE  TypeOK'
<1>1. ticks' \in [Jobs -> Nat]
  <2>1. ticks[j] \in Nat /\ ticks[j] - 1 \in Nat
    BY DEF TypeOK, TickSettles
  <2> QED BY <2>1 DEF TypeOK, TickSettles
<1>2. timers' \in [Jobs -> Nat]
  BY DEF TypeOK, TickSettles, Rearm
<1> QED BY <1>1, <1>2 DEF TypeOK, TickSettles, bootVars, downVars, auditVars

LEMMA TypeEmit ==
  ASSUME TypeOK, NEW j \in Jobs, Emit(j)
  PROVE  TypeOK'
<1>1. emitted' \in 0..MaxEvents /\ emitted + 1 \in 1..MaxEvents
  BY WorkerAssumption DEF TypeOK, Emit, WorkerAssumption
<1>2. PICK c \in Clients :
        LET e == [id |-> emitted + 1, client |-> c] IN
        IF Cardinality(queue) + 1 >= Threshold THEN TakeAll(e) ELSE Enqueue(e)
  BY DEF Emit
<1> DEFINE e == [id |-> emitted + 1, client |-> c]
<1>3. e \in Events
  BY <1>1 DEF Events
<1>4. TakeAll(e) \/ Enqueue(e)
  BY <1>2
<1> HIDE DEF e
<1>5. queue' \in SUBSET Events /\ flushTimer' \in BOOLEAN
  BY <1>3, <1>4 DEF TypeOK, TakeAll, Enqueue
<1>6. flushing' \in SUBSET (SUBSET Events)
  BY <1>3, <1>4 DEF TypeOK, TakeAll, Enqueue
<1> QED BY <1>1, <1>5, <1>6 DEF TypeOK, Emit, bootVars, jobVars, downVars

LEMMA TypeQueue ==
  ASSUME TypeOK,
         FlushTimerFires \/ (\E b \in flushing : DecideBatch(b)) \/ DecideFinal
  PROVE  TypeOK'
<1>1. CASE FlushTimerFires
  BY <1>1 DEF TypeOK, FlushTimerFires, bootVars, jobVars, downVars
<1>2. ASSUME NEW b \in flushing, DecideBatch(b)
      PROVE  TypeOK'
  <2>1. PICK c \in {e.client : e \in b} :
          LET group == OfClient(b, c)
              others == flushing \ {b}
          IN /\ Decide(group)
             /\ flushing' = IF b = group THEN others ELSE others \union {b \ group}
    BY <1>2 DEF DecideBatch
  <2> DEFINE group == OfClient(b, c)
  <2>2. group \in SUBSET Events /\ b \ group \in SUBSET Events
    BY DEF OfClient, TypeOK
  <2> HIDE DEF group
  <2>3. flushing' \in SUBSET (SUBSET Events)
    BY <2>1, <2>2 DEF TypeOK, group
  <2>4. written' \in SUBSET Events /\ dropped' \in SUBSET Events
    BY <2>1, <2>2 DEF TypeOK, group, Decide
  <2> QED BY <1>2, <2>3, <2>4 DEF TypeOK, DecideBatch, bootVars, jobVars, downVars
<1>3. CASE DecideFinal
  <2>1. PICK c \in {e.client : e \in final} :
          /\ Decide(OfClient(final, c))
          /\ final' = final \ OfClient(final, c)
    BY <1>3 DEF DecideFinal
  <2>2. OfClient(final, c) \in SUBSET Events
    BY DEF OfClient, TypeOK
  <2>3. written' \in SUBSET Events /\ dropped' \in SUBSET Events /\ final' \in SUBSET Events
    BY <2>1, <2>2 DEF TypeOK, Decide
  <2> QED BY <1>3, <2>3 DEF TypeOK, DecideFinal, bootVars, jobVars, downVars
<1> QED BY <1>1, <1>2, <1>3

LEMMA TypeShutdown ==
  ASSUME TypeOK,
         \/ Signal \/ CloseClients \/ FinalFlush \/ FinalFlushed \/ ShutdownExit \/ Kill
         \/ \E j \in Jobs : StopReturns(j)
  PROVE  TypeOK'
<1>1. CASE Signal
  BY <1>1 DEF TypeOK, Signal, ToStop, bootVars, auditVars
<1>2. ASSUME NEW j \in Jobs, StopReturns(j)
      PROVE  TypeOK'
  BY <1>2 DEF TypeOK, StopReturns, bootVars, jobVars, auditVars
<1>3. CASE CloseClients \/ FinalFlush \/ FinalFlushed \/ ShutdownExit \/ Kill
  BY <1>3 DEF TypeOK, CloseClients, FinalFlush, FinalFlushed, ShutdownExit, Kill,
              bootVars, jobVars, auditVars
<1> QED BY <1>1, <1>2, <1>3

\* The steps of Next, in the groups the lemmas are stated for.
LEMMA Steps ==
  ASSUME Next
  PROVE  \/ BootFails \/ RedisAnswers \/ PrismaAnswers \/ BootExit
         \/ \E j \in Jobs : TimerFires(j)
         \/ \E j \in Jobs : TickSettles(j)
         \/ \E j \in Jobs : Emit(j)
         \/ FlushTimerFires \/ (\E b \in flushing : DecideBatch(b)) \/ DecideFinal
         \/ Signal \/ CloseClients \/ FinalFlush \/ FinalFlushed \/ ShutdownExit \/ Kill
         \/ \E j \in Jobs : StopReturns(j)
BY DEF Next

LEMMA TypeNext == ASSUME TypeOK, [Next]_vars PROVE TypeOK'
<1>1. CASE Next
  BY <1>1, Steps, TypeBoot, TypeTimer, TypeTick, TypeEmit, TypeQueue, TypeShutdown
<1>2. CASE UNCHANGED vars
  BY <1>2 DEF TypeOK, vars, bootVars, jobVars, downVars, auditVars
<1> QED BY <1>1, <1>2

\* The worker's state stays well-formed.
THEOREM WorkerTypeCorrect == Spec => []TypeOK
<1>1. Init => TypeOK BY TypeInit
<1>2. TypeOK /\ [Next]_vars => TypeOK' BY TypeNext
<1> QED BY <1>1, <1>2, PTL DEF Spec

-----------------------------------------------------------------------------
(* The jobs *)

\* What the proofs about jobs need of a step that moves no job.
LEMMA JobsFrame ==
  ASSUME TypeOK, NoJobYet, OneTickPerJob,
         UNCHANGED <<boot, listed, stopped, timers, ticks>>
  PROVE  NoJobYet' /\ OneTickPerJob'
BY DEF NoJobYet, OneTickPerJob

LEMMA OneTickNext ==
  ASSUME TypeOK, NoJobYet, OneTickPerJob, [Next]_vars
  PROVE  NoJobYet' /\ OneTickPerJob'
<1>1. CASE BootFails \/ RedisAnswers \/ BootExit
  BY <1>1 DEF BootFails, RedisAnswers, BootExit, bootVars, jobVars,
              NoJobYet, OneTickPerJob, TypeOK
<1>2. CASE PrismaAnswers
  BY <1>2 DEF PrismaAnswers, StartJobs, NoJobYet, OneTickPerJob, TypeOK
<1>3. ASSUME NEW j \in Jobs, TimerFires(j)
      PROVE  NoJobYet' /\ OneTickPerJob'
  <2>1. ticks[j] \in Nat /\ timers[j] \in Nat /\ ticks[j] + timers[j] <= 1
    BY DEF TypeOK, OneTickPerJob
  <2>2. ticks' = [ticks EXCEPT ![j] = IF stopped[j] THEN ticks[j] ELSE ticks[j] + 1]
    BY <1>3 DEF TimerFires
  <2>3. timers' = [timers EXCEPT ![j] = timers[j] - 1] /\ timers[j] > 0
    BY <1>3 DEF TimerFires
  <2>4. UNCHANGED <<boot, listed, stopped>>
    BY <1>3 DEF TimerFires, bootVars
  <2>5. OneTickPerJob'
    BY <2>1, <2>2, <2>3 DEF OneTickPerJob, TypeOK
  <2>6. j \in listed
    BY <2>1, <2>3 DEF NoJobYet
  <2>7. NoJobYet'
    BY <2>2, <2>3, <2>4, <2>6 DEF NoJobYet, TypeOK
  <2> QED BY <2>5, <2>7
<1>4. ASSUME NEW j \in Jobs, TickSettles(j)
      PROVE  NoJobYet' /\ OneTickPerJob'
  <2>1. ticks[j] \in Nat /\ timers[j] \in Nat /\ ticks[j] + timers[j] <= 1
    BY DEF TypeOK, OneTickPerJob
  <2>2. ticks' = [ticks EXCEPT ![j] = ticks[j] - 1] /\ ticks[j] > 0
    BY <1>4 DEF TickSettles
  <2>3. timers' = [timers EXCEPT ![j] = IF stopped[j] THEN timers[j] ELSE timers[j] + 1]
    BY <1>4 DEF TickSettles, Rearm
  <2>4. UNCHANGED <<boot, listed, stopped>>
    BY <1>4 DEF TickSettles, bootVars
  <2>5. OneTickPerJob'
    BY <2>1, <2>2, <2>3 DEF OneTickPerJob, TypeOK
  <2>6. j \in listed
    BY <2>1, <2>2 DEF NoJobYet
  <2>7. NoJobYet'
    BY <2>2, <2>3, <2>4, <2>6 DEF NoJobYet, TypeOK
  <2> QED BY <2>5, <2>7
<1>5. CASE Signal
  <2>1. timers' = [j \in Jobs |-> IF j \in listed THEN 0 ELSE timers[j]]
    BY <1>5 DEF Signal
  <2>2. stopped' = [j \in Jobs |-> stopped[j] \/ j \in listed]
    BY <1>5 DEF Signal
  <2>3. UNCHANGED <<boot, listed, ticks>>
    BY <1>5 DEF Signal, bootVars
  <2>4. OneTickPerJob'
    BY <2>1, <2>3 DEF OneTickPerJob, TypeOK
  <2>5. NoJobYet'
    BY <2>1, <2>2, <2>3 DEF NoJobYet, TypeOK
  <2> QED BY <2>4, <2>5
<1>6. CASE \E j \in Jobs : Emit(j)
  BY <1>6, JobsFrame DEF Emit, bootVars, jobVars
<1>7. CASE FlushTimerFires \/ (\E b \in flushing : DecideBatch(b)) \/ DecideFinal
  BY <1>7, JobsFrame DEF FlushTimerFires, DecideBatch, DecideFinal, bootVars, jobVars
<1>8. CASE CloseClients \/ FinalFlush \/ FinalFlushed \/ ShutdownExit \/ Kill
  BY <1>8, JobsFrame DEF CloseClients, FinalFlush, FinalFlushed, ShutdownExit, Kill,
     bootVars, jobVars
<1>9. CASE \E j \in Jobs : StopReturns(j)
  BY <1>9, JobsFrame DEF StopReturns, bootVars, jobVars
<1>10. CASE UNCHANGED vars
  BY <1>10, JobsFrame DEF vars, bootVars, jobVars
<1> QED
  BY <1>1, <1>2, <1>3, <1>4, <1>5, <1>6, <1>7, <1>8, <1>9, <1>10, Steps

LEMMA OneTickInit == ASSUME Init PROVE NoJobYet /\ OneTickPerJob
BY DEF Init, NoJobYet, OneTickPerJob

\* No job ever has two ticks in flight, or a tick and a timer for another.
THEOREM TicksNeverOverlap == Spec => []OneTickPerJob
<1> DEFINE I == TypeOK /\ NoJobYet /\ OneTickPerJob
<1>1. Init => I BY TypeInit, OneTickInit
<1>2. I /\ [Next]_vars => I' BY TypeNext, OneTickNext
<1>3. I => OneTickPerJob OBVIOUS
<1> QED BY <1>1, <1>2, <1>3, PTL DEF Spec

-----------------------------------------------------------------------------
(* Shutdown *)

LEMMA StopFrame ==
  ASSUME StopIsFinal,
         UNCHANGED <<shutdown, stopped, timers, ticks, awaited>>
  PROVE  StopIsFinal'
BY DEF StopIsFinal

LEMMA StopNext ==
  ASSUME TypeOK, NoJobYet, OneTickPerJob, StopIsFinal, [Next]_vars
  PROVE  StopIsFinal'
<1>1. CASE BootFails \/ RedisAnswers \/ BootExit
  BY <1>1, StopFrame DEF BootFails, RedisAnswers, BootExit, bootVars, jobVars, downVars
<1>2. CASE PrismaAnswers
  <2>1. \A j \in Jobs : ~stopped[j]
    BY <1>2 DEF PrismaAnswers, NoJobYet
  <2> QED BY <1>2, <2>1 DEF PrismaAnswers, StopIsFinal, downVars
<1>3. ASSUME NEW j \in Jobs, TimerFires(j)
      PROVE  StopIsFinal'
  <2>1. timers[j] > 0 /\ ~stopped[j]
    BY <1>3 DEF TimerFires, StopIsFinal
  <2>2. ticks' = [ticks EXCEPT ![j] = ticks[j] + 1]
    BY <1>3, <2>1 DEF TimerFires
  <2>3. timers' = [timers EXCEPT ![j] = timers[j] - 1]
    BY <1>3 DEF TimerFires
  <2> QED BY <1>3, <2>1, <2>2, <2>3 DEF TimerFires, downVars, StopIsFinal, TypeOK
<1>4. ASSUME NEW j \in Jobs, TickSettles(j)
      PROVE  StopIsFinal'
  <2>1. ticks[j] > 0 /\ ticks' = [ticks EXCEPT ![j] = ticks[j] - 1]
    BY <1>4 DEF TickSettles
  <2>2. timers' = [timers EXCEPT ![j] = IF stopped[j] THEN timers[j] ELSE timers[j] + 1]
    BY <1>4 DEF TickSettles, Rearm
  <2>3. UNCHANGED <<shutdown, stopped, awaited>>
    BY <1>4 DEF TickSettles, downVars
  <2>4. \A i \in Jobs : stopped[i] => timers'[i] = 0
    BY <2>2 DEF StopIsFinal, TypeOK
  <2>5. \A i \in Jobs : stopped[i] /\ i \notin awaited => ticks'[i] = 0
    BY <2>1 DEF StopIsFinal, TypeOK
  <2> QED BY <2>3, <2>4, <2>5 DEF StopIsFinal
<1>5. CASE Signal
  <2>1. /\ shutdown = "no" /\ shutdown' = "stopping" /\ awaited' = listed
        /\ stopped' = [j \in Jobs |-> stopped[j] \/ j \in listed]
        /\ timers' = [j \in Jobs |-> IF j \in listed THEN 0 ELSE timers[j]]
        /\ ticks' = ticks
    BY <1>5 DEF Signal, ToStop, FirstSignal
  <2>2. \A j \in Jobs : ~stopped[j]
    BY <2>1 DEF StopIsFinal
  <2>3. \A j \in Jobs : stopped'[j] <=> j \in listed
    BY <2>1, <2>2
  <2>4. \A j \in Jobs : stopped'[j] => timers'[j] = 0
    BY <2>1, <2>3
  <2> QED BY <2>1, <2>3, <2>4 DEF StopIsFinal
<1>6. CASE \E j \in Jobs : Emit(j)
  BY <1>6, StopFrame DEF Emit, jobVars, downVars
<1>7. CASE FlushTimerFires \/ (\E b \in flushing : DecideBatch(b)) \/ DecideFinal
  BY <1>7, StopFrame DEF FlushTimerFires, DecideBatch, DecideFinal, jobVars, downVars
<1>8. CASE CloseClients \/ FinalFlush \/ FinalFlushed \/ ShutdownExit \/ Kill
  BY <1>8 DEF CloseClients, FinalFlush, ClientsClosed, FinalFlushed, ShutdownExit, Kill,
     jobVars, StopIsFinal
<1>9. ASSUME NEW j \in Jobs, StopReturns(j)
      PROVE  StopIsFinal'
  BY <1>9 DEF StopReturns, InFlightSettled, jobVars, StopIsFinal, TypeOK
<1>10. CASE UNCHANGED vars
  BY <1>10, StopFrame DEF vars, jobVars, downVars
<1> QED
  BY <1>1, <1>2, <1>3, <1>4, <1>5, <1>6, <1>7, <1>8, <1>9, <1>10, Steps

LEMMA StopInit == ASSUME Init PROVE StopIsFinal
BY DEF Init, StopIsFinal

LEMMA QuietHolds == ASSUME StopIsFinal PROVE StoppedIsQuiet
BY DEF StopIsFinal, StoppedIsQuiet

\* When shutdown closes the clients no job it has stopped is still at work.
THEOREM QuietAfterStop == Spec => []StoppedIsQuiet
<1> DEFINE I == TypeOK /\ NoJobYet /\ OneTickPerJob /\ StopIsFinal
<1>1. Init => I BY TypeInit, OneTickInit, StopInit
<1>2. I /\ [Next]_vars => I' BY TypeNext, OneTickNext, StopNext
<1>3. I => StoppedIsQuiet BY QuietHolds
<1> QED BY <1>1, <1>2, <1>3, PTL DEF Spec

-----------------------------------------------------------------------------
(* The queue *)

LEMMA TwoWays ==
  ASSUME NEW j \in Jobs, Emit(j)
  PROVE  /\ emitted < MaxEvents /\ emitted' = emitted + 1
         /\ \E c \in Clients : \/ TakeAll([id |-> emitted + 1, client |-> c])
                               \/ Enqueue([id |-> emitted + 1, client |-> c])
BY DEF Emit

LEMMA StrandedNext ==
  ASSUME NoEventStranded, [Next]_vars
  PROVE  NoEventStranded'
<1>1. ASSUME NEW j \in Jobs, Emit(j)
      PROVE  NoEventStranded'
  BY <1>1, TwoWays DEF TakeAll, Enqueue, NoEventStranded
<1>2. CASE FlushTimerFires \/ (\E b \in flushing : DecideBatch(b)) \/ DecideFinal
  BY <1>2 DEF FlushTimerFires, DecideBatch, DecideFinal, NoEventStranded
<1>3. CASE BootFails \/ RedisAnswers \/ PrismaAnswers \/ BootExit
  BY <1>3 DEF BootFails, RedisAnswers, PrismaAnswers, BootExit, auditVars, NoEventStranded
<1>4. CASE \E j \in Jobs : TimerFires(j) \/ TickSettles(j) \/ StopReturns(j)
  BY <1>4 DEF TimerFires, TickSettles, StopReturns, auditVars, NoEventStranded
<1>5. CASE Signal \/ CloseClients \/ FinalFlush \/ FinalFlushed \/ ShutdownExit \/ Kill
  BY <1>5 DEF Signal, CloseClients, FinalFlush, FinalFlushed, ShutdownExit, Kill, auditVars,
     NoEventStranded
<1>6. CASE UNCHANGED vars
  BY <1>6 DEF vars, auditVars, NoEventStranded
<1> QED BY <1>1, <1>2, <1>3, <1>4, <1>5, <1>6, Steps

\* A queued event always has a flush scheduled for it.
THEOREM FlushIsScheduled == Spec => []NoEventStranded
<1>1. Init => NoEventStranded BY DEF Init, NoEventStranded
<1>2. NoEventStranded /\ [Next]_vars => NoEventStranded' BY StrandedNext
<1> QED BY <1>1, <1>2, PTL DEF Spec

LEMMA LastNext ==
  ASSUME TypeOK, NoJobYet, StopIsFinal, FlushIsLast, [Next]_vars
  PROVE  FlushIsLast'
<1>1. ASSUME NEW j \in Jobs, Emit(j)
      PROVE  FlushIsLast'
  <2>1. j \in listed /\ ticks[j] > 0
    BY <1>1 DEF Emit, NoJobYet
  <2>2. ~(shutdown \in {"flushing", "exiting"} /\ AllStopped)
    BY <2>1 DEF StopIsFinal, AllStopped
  <2>3. UNCHANGED <<shutdown, exit, listed, stopped>>
    BY <1>1 DEF Emit, bootVars, jobVars, downVars
  <2> QED BY <2>2, <2>3 DEF FlushIsLast, AllStopped
<1>2. CASE PrismaAnswers
  <2>1. listed = {}
    BY <1>2 DEF PrismaAnswers, NoJobYet
  <2> QED BY <1>2, <2>1 DEF PrismaAnswers, FlushIsLast, AllStopped, downVars, auditVars
<1>3. CASE BootFails \/ RedisAnswers \/ BootExit
  BY <1>3 DEF BootFails, RedisAnswers, BootExit, bootVars, jobVars, downVars, auditVars,
     FlushIsLast, AllStopped
<1>4. CASE \E j \in Jobs : TimerFires(j) \/ TickSettles(j) \/ StopReturns(j)
  BY <1>4 DEF TimerFires, TickSettles, StopReturns, bootVars, jobVars, downVars, auditVars,
     FlushIsLast, AllStopped
<1>5. CASE FlushTimerFires \/ (\E b \in flushing : DecideBatch(b)) \/ DecideFinal
  BY <1>5 DEF FlushTimerFires, DecideBatch, DecideFinal, bootVars, jobVars, downVars,
     FlushIsLast, AllStopped
<1>6. CASE Signal
  BY <1>6 DEF Signal, FirstSignal, auditVars, FlushIsLast
<1>7. CASE CloseClients \/ FinalFlush \/ FinalFlushed \/ ShutdownExit \/ Kill
  BY <1>7 DEF CloseClients, FinalFlush, ClientsClosed, FinalFlushed, ShutdownExit, Kill,
     Running, bootVars, jobVars, auditVars, FlushIsLast, AllStopped
<1>8. CASE UNCHANGED vars
  BY <1>8 DEF vars, bootVars, jobVars, downVars, auditVars, FlushIsLast, AllStopped
<1> QED BY <1>1, <1>2, <1>3, <1>4, <1>5, <1>6, <1>7, <1>8, Steps

LEMMA LastInit == ASSUME Init PROVE FlushIsLast
BY DEF Init, FlushIsLast

\* A shutdown that has stopped every job exits with an empty queue.
THEOREM NothingQueuedAtExit == Spec => []NothingLeftQueued
<1> DEFINE I == TypeOK /\ NoJobYet /\ OneTickPerJob /\ StopIsFinal /\ FlushIsLast
<1>1. Init => I BY TypeInit, OneTickInit, StopInit, LastInit
<1>2. I /\ [Next]_vars => I' BY TypeNext, OneTickNext, StopNext, LastNext
<1>3. I => NothingLeftQueued BY DEF FlushIsLast, AllStopped, NothingLeftQueued
<1> QED BY <1>1, <1>2, <1>3, PTL DEF Spec

-----------------------------------------------------------------------------
(* The audit trail *)

\* A step of the queue, seen from the trail.
TrailStep ==
  Trail!Next \/ UNCHANGED <<queue \union InFlight, written, dropped>>

LEMMA ApartFrame ==
  ASSUME Apart, Numbered, UNCHANGED auditVars,
         shutdown' \in {"no", "stopping", "closing"} =>
           shutdown \in {"no", "stopping", "closing"}
  PROVE  Apart' /\ Numbered' /\ TrailStep
<1>1. UNCHANGED <<queue, flushing, final, written, dropped, emitted>>
  BY DEF auditVars
<1>2. UNCHANGED InFlight
  BY <1>1 DEF InFlight
<1> QED BY <1>1, <1>2 DEF Apart, Numbered, TrailStep

\* Deciding some events that wait is a step of the trail.
LEMMA DecideIsTrail ==
  ASSUME NEW batch, Decide(batch), batch \subseteq queue \union InFlight,
         (queue \union InFlight)' = (queue \union InFlight) \ batch
  PROVE  Trail!Next
<1>1. batch \in SUBSET (queue \union InFlight)
  OBVIOUS
<1>2. Trail!Record(batch) \/ Trail!Refuse(batch)
  BY DEF Decide, Trail!Record, Trail!Refuse
<1> QED BY <1>1, <1>2 DEF Trail!Next

LEMMA EmitTrail ==
  ASSUME TypeOK, Apart, Numbered, NEW j \in Jobs, Emit(j)
  PROVE  Apart' /\ Numbered' /\ TrailStep
<1>1. PICK c \in Clients : \/ TakeAll([id |-> emitted + 1, client |-> c])
                           \/ Enqueue([id |-> emitted + 1, client |-> c])
  BY TwoWays
<1> DEFINE e == [id |-> emitted + 1, client |-> c]
<1>2. emitted \in Nat /\ emitted + 1 \in 1..MaxEvents /\ emitted' = emitted + 1
  BY WorkerAssumption, TwoWays DEF TypeOK, WorkerAssumption
<1>3. e \in Events /\ e.id = emitted + 1
  BY <1>2 DEF Events
<1>4. e \notin queue \union InFlight \union written \union dropped
  BY <1>2, <1>3 DEF Numbered
<1>5. UNCHANGED <<final, written, dropped, shutdown>>
  BY DEF Emit, downVars
<1>6. TakeAll(e) \/ Enqueue(e)
  BY <1>1
<1> HIDE DEF e
<1>7. queue' \union InFlight' = queue \union InFlight \union {e}
  <2>1. CASE TakeAll(e)
    <3>1. queue' = {} /\ flushing' = flushing \union {queue \union {e}}
      BY <2>1 DEF TakeAll
    <3>2. UNION flushing' = (UNION flushing) \union queue \union {e}
      BY <3>1
    <3> QED BY <3>1, <3>2, <1>5 DEF InFlight
  <2>2. CASE Enqueue(e)
    BY <2>2, <1>5 DEF Enqueue, InFlight
  <2> QED BY <1>6, <2>1, <2>2
<1>8. Numbered'
  <2> SUFFICES ASSUME NEW x \in queue' \union InFlight' \union written' \union dropped'
               PROVE  x.id <= emitted'
    BY DEF Numbered
  <2>1. x = e \/ x \in queue \union InFlight \union written \union dropped
    BY <1>5, <1>7
  <2>2. CASE x = e
    BY <2>2, <1>2, <1>3
  <2>3. CASE x \in queue \union InFlight \union written \union dropped
    <3>1. x \in Events
      BY <2>3 DEF TypeOK, InFlight
    <3>2. x.id \in Nat
      BY <3>1 DEF Events
    <3>3. x.id <= emitted
      BY <2>3 DEF Numbered
    <3> QED BY <1>2, <3>2, <3>3
  <2> QED BY <2>1, <2>2, <2>3
<1>9. Apart'
  <2>1. e \notin queue /\ e \notin final /\ \A b \in flushing : e \notin b
    BY <1>4 DEF InFlight
  <2>2. queue \intersect final = {} /\ \A b \in flushing : queue \intersect b = {}
    BY DEF Apart
  <2>3. CASE TakeAll(e)
    <3>1. queue' = {} /\ flushing' = flushing \union {queue \union {e}} /\ final' = final
      BY <2>3, <1>5 DEF TakeAll
    <3>2. \A b \in flushing : b \intersect (queue \union {e}) = {}
      BY <2>1, <2>2
    <3>3. \A b1, b2 \in flushing' : b1 # b2 => b1 \intersect b2 = {}
      BY <3>1, <3>2 DEF Apart
    <3>4. \A b \in flushing' : b \intersect final' = {}
      BY <3>1, <2>1, <2>2 DEF Apart
    <3> QED BY <3>1, <3>3, <3>4, <1>5 DEF Apart
  <2>4. CASE Enqueue(e)
    <3>1. queue' = queue \union {e} /\ flushing' = flushing /\ final' = final
      BY <2>4, <1>5 DEF Enqueue
    <3> QED BY <3>1, <2>1, <2>2, <1>5 DEF Apart
  <2> QED BY <1>6, <2>3, <2>4
<1>10. TrailStep
  <2>1. Trail!Emit(e)
    BY <1>4, <1>5, <1>7 DEF Trail!Emit
  <2> QED BY <1>3, <2>1 DEF TrailStep, Trail!Next
<1> QED BY <1>8, <1>9, <1>10

LEMMA DecideBatchTrail ==
  ASSUME TypeOK, Apart, Numbered, NEW b \in flushing, DecideBatch(b)
  PROVE  Apart' /\ Numbered' /\ TrailStep
<1>1. PICK c \in {e.client : e \in b} :
        LET group == OfClient(b, c)
            others == flushing \ {b}
        IN /\ Decide(group)
           /\ flushing' = IF b = group THEN others ELSE others \union {b \ group}
  BY DEF DecideBatch
<1> DEFINE group == OfClient(b, c)
<1>2. group \subseteq b
  BY DEF OfClient
<1>3. /\ Decide(group)
      /\ flushing' = IF b = group THEN flushing \ {b}
                     ELSE (flushing \ {b}) \union {b \ group}
  BY <1>1
<1>4. UNCHANGED <<queue, final, emitted, shutdown>>
  BY DEF DecideBatch, downVars
<1> HIDE DEF group
<1>5. /\ \A d \in flushing : queue \intersect d = {} /\ d \intersect final = {}
      /\ queue \intersect final = {}
  BY DEF Apart
<1>6. Apart'
  <2>1. \A d \in flushing' : \E d0 \in flushing : d \subseteq d0
    BY <1>3
  <2>2. \A d \in flushing' : queue \intersect d = {} /\ d \intersect final = {}
    BY <2>1, <1>5
  <2>3. \A d1, d2 \in flushing' : d1 # d2 => d1 \intersect d2 = {}
    BY <1>2, <1>3 DEF Apart
  <2> QED BY <1>4, <1>5, <2>2, <2>3 DEF Apart
<1>7. queue' \union InFlight' = (queue \union InFlight) \ group
  <2>1. group \intersect queue = {} /\ group \intersect final = {}
    BY <1>2, <1>5
  <2>2. \A d \in flushing \ {b} : d \intersect group = {}
    BY <1>2 DEF Apart
  <2>3. UNION flushing' = (UNION flushing) \ group
    <3>1. ASSUME NEW x \in UNION flushing'
          PROVE  x \in (UNION flushing) \ group
      <4>1. PICK d \in flushing' : x \in d
        OBVIOUS
      <4>2. d \in flushing \ {b} \/ (d = b \ group)
        BY <1>3
      <4> QED BY <4>1, <4>2, <2>2
    <3>2. ASSUME NEW x \in (UNION flushing) \ group
          PROVE  x \in UNION flushing'
      <4>1. PICK d \in flushing : x \in d /\ x \notin group
        OBVIOUS
      <4>2. CASE d # b
        <5>1. d \in flushing'
          BY <1>3, <4>1, <4>2
        <5> QED BY <4>1, <5>1
      <4>3. CASE d = b
        <5>1. b # group /\ x \in b \ group
          BY <4>1, <4>3
        <5>2. b \ group \in flushing'
          BY <1>3, <5>1
        <5> QED BY <5>1, <5>2
      <4> QED BY <4>2, <4>3
    <3> QED BY <3>1, <3>2
  <2> QED BY <1>4, <2>1, <2>3 DEF InFlight
<1>8. group \subseteq queue \union InFlight
  BY <1>2 DEF InFlight
<1>9. written' \union dropped' = written \union dropped \union group
  BY <1>3 DEF Decide
<1>10. Numbered'
  BY <1>4, <1>7, <1>8, <1>9 DEF Numbered
<1>11. TrailStep
  BY <1>3, <1>7, <1>8, DecideIsTrail DEF TrailStep
<1> QED BY <1>6, <1>10, <1>11

LEMMA DecideFinalTrail ==
  ASSUME TypeOK, Apart, Numbered, DecideFinal
  PROVE  Apart' /\ Numbered' /\ TrailStep
<1>1. PICK c \in {e.client : e \in final} :
        /\ Decide(OfClient(final, c))
        /\ final' = final \ OfClient(final, c)
  BY DEF DecideFinal
<1> DEFINE group == OfClient(final, c)
<1>2. group \subseteq final /\ Decide(group) /\ final' = final \ group
  BY <1>1 DEF OfClient
<1>3. UNCHANGED <<queue, flushing, emitted, shutdown>>
  BY DEF DecideFinal, downVars
<1> HIDE DEF group
<1>4. Apart'
  BY <1>2, <1>3 DEF Apart
<1>5. group \subseteq queue \union InFlight
  BY <1>2 DEF InFlight
<1>6. queue' \union InFlight' = (queue \union InFlight) \ group
  BY <1>2, <1>3 DEF Apart, InFlight
<1>7. written' \union dropped' = written \union dropped \union group
  BY <1>2 DEF Decide
<1>8. Numbered'
  BY <1>3, <1>5, <1>6, <1>7 DEF Numbered
<1>9. TrailStep
  BY <1>2, <1>5, <1>6, DecideIsTrail DEF TrailStep
<1> QED BY <1>4, <1>8, <1>9

LEMMA TakeTrail ==
  ASSUME TypeOK, Apart, Numbered, FlushTimerFires \/ FinalFlush
  PROVE  Apart' /\ Numbered' /\ TrailStep
<1>1. CASE FlushTimerFires
  <2>1. /\ flushing' = IF queue = {} THEN flushing ELSE flushing \union {queue}
        /\ queue' = {} /\ UNCHANGED <<final, written, dropped, emitted, shutdown>>
    BY <1>1 DEF FlushTimerFires, downVars
  <2>2. queue' \union InFlight' = queue \union InFlight
    BY <2>1 DEF InFlight
  <2>3. queue \intersect final = {} /\ \A b \in flushing : queue \intersect b = {}
    BY DEF Apart
  <2>4. Apart'
    BY <2>1, <2>3 DEF Apart
  <2> QED BY <2>1, <2>2, <2>4 DEF Numbered, TrailStep
<1>2. CASE FinalFlush
  <2>1. /\ final' = queue /\ queue' = {} /\ shutdown = "closing" /\ shutdown' = "flushing"
        /\ UNCHANGED <<flushing, written, dropped, emitted>>
    BY <1>2 DEF FinalFlush, ClientsClosed
  <2>2. final = {}
    BY <2>1 DEF Apart
  <2>3. queue' \union InFlight' = queue \union InFlight
    BY <2>1, <2>2 DEF InFlight
  <2>4. \A b \in flushing : queue \intersect b = {}
    BY DEF Apart, InFlight
  <2>5. Apart'
    BY <2>1, <2>4 DEF Apart
  <2> QED BY <2>1, <2>3, <2>5 DEF Numbered, TrailStep
<1> QED BY <1>1, <1>2

LEMMA TrailNext ==
  ASSUME TypeOK, Apart, Numbered, [Next]_vars
  PROVE  Apart' /\ Numbered' /\ TrailStep
<1>1. CASE BootFails \/ RedisAnswers \/ PrismaAnswers \/ BootExit
  BY <1>1, ApartFrame DEF BootFails, RedisAnswers, PrismaAnswers, BootExit, downVars
<1>2. CASE \E j \in Jobs : TimerFires(j) \/ TickSettles(j) \/ StopReturns(j)
  BY <1>2, ApartFrame DEF TimerFires, TickSettles, StopReturns, downVars
<1>3. CASE Signal \/ CloseClients \/ FinalFlushed \/ ShutdownExit \/ Kill
  BY <1>3, ApartFrame DEF Signal, FirstSignal, CloseClients, FinalFlushed, ShutdownExit, Kill
<1>4. CASE FlushTimerFires \/ FinalFlush
  BY <1>4, TakeTrail
<1>5. CASE \E b \in flushing : DecideBatch(b)
  BY <1>5, DecideBatchTrail
<1>6. CASE DecideFinal
  BY <1>6, DecideFinalTrail
<1>7. CASE \E j \in Jobs : Emit(j)
  BY <1>7, EmitTrail
<1>8. CASE UNCHANGED vars
  BY <1>8, ApartFrame DEF vars, downVars
<1> QED BY <1>1, <1>2, <1>3, <1>4, <1>5, <1>6, <1>7, <1>8, Steps

LEMMA TrailInit == ASSUME Init PROVE Apart /\ Numbered /\ Trail!Init
BY DEF Init, Apart, Numbered, InFlight, Trail!Init

\* The worker's queue implements the audit trail: an event is emitted once and
\* then recorded or refused, never both and never twice.
THEOREM WorkerKeepsTrail == Spec => TrailIsKept
<1> DEFINE I == TypeOK /\ Apart /\ Numbered
<1>1. Init => I /\ Trail!Init
  BY TypeInit, TrailInit
<1>2. I /\ [Next]_vars =>
        I' /\ (Trail!Next \/ UNCHANGED <<queue \union InFlight, written, dropped>>)
  BY TypeNext, TrailNext DEF TrailStep
<1>3. I /\ [Next]_vars => I' /\ [Trail!Next]_(Trail!trail)
  BY <1>2 DEF Trail!trail
<1> QED BY <1>1, <1>3, PTL DEF Spec, TrailIsKept, Trail!Spec

=============================================================================
