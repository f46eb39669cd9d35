--------------------------- MODULE WorkerProcess ----------------------------
(***************************************************************************)
(* The worker process: it pings Redis and Postgres, starts its jobs, runs  *)
(* their ticks, and on a signal stops them, closes its clients, flushes    *)
(* the lifecycle events still queued and exits.                            *)
(*                                                                         *)
(* One thread runs all of it, so an action is the stretch of code up to    *)
(* its next await, or one callback: a timer that fires, a tick that        *)
(* settles, a transaction that is answered, a signal.  What a tick does is *)
(* left out except that ticks of the auto trader emit lifecycle events.    *)
(***************************************************************************)
EXTENDS Integers, FiniteSets

CONSTANTS
  Jobs,       \* the jobs handed to scheduleJob
  RunOnStart, \* those whose first tick runs at once
  Emitters,   \* those whose ticks emit lifecycle events
  Clients,    \* the Prisma clients events are emitted with
  Threshold,  \* FLUSH_THRESHOLD
  MaxEvents   \* bound on events emitted

ASSUME WorkerAssumption ==
  /\ RunOnStart \subseteq Jobs
  /\ Emitters \subseteq Jobs
  /\ Threshold \in Nat \ {0}
  /\ MaxEvents \in Nat

VARIABLES
  boot,       \* what bootstrap is waiting for
  listed,     \* the array jobs
  stopped,    \* stopped, one for each job
  timers,     \* setTimeouts armed for a job's next tick
  ticks,      \* ticks of a job in flight
  shutdown,   \* how far shutdown has come
  awaited,    \* jobs whose stop shutdown waits for
  exit,       \* "running", or how the process ended
  emitted,    \* lifecycle events emitted so far
  queue,      \* _queue
  flushTimer, \* _flushTimer is armed
  flushing,   \* batches taken by flushQueue, less what is decided
  final,      \* the batch of the flush that shutdown awaits
  written,    \* events committed to the database
  dropped     \* events of failed transactions

bootVars == <<boot, listed>>
jobVars == <<stopped, timers, ticks>>
downVars == <<shutdown, awaited, exit>>
auditVars == <<emitted, queue, flushTimer, flushing, final, written, dropped>>
vars == <<bootVars, jobVars, downVars, auditVars>>

-----------------------------------------------------------------------------
(* Data *)

\* A lifecycle event, by its number and the client it is to be written with.
Events == [id : 1..MaxEvents, client : Clients]

Running == exit = "running"

\* What flushQueue has taken and the database has not yet decided.
InFlight == (UNION flushing) \union final

\* The events of one transaction.
OfClient(batch, c) == {e \in batch : e.client = c}

-----------------------------------------------------------------------------
(* Bootstrap *)

\* A ping that fails, or is refused because shutdown has closed the client,
\* ends in process.exit(1).
BootFails ==
  /\ Running
  /\ boot \in {"redis", "prisma"}
  /\ boot' = "failed"
  /\ UNCHANGED <<listed, jobVars, downVars, auditVars>>

RedisAnswers ==
  /\ Running
  /\ boot = "redis"
  /\ boot' = "prisma"
  /\ UNCHANGED <<listed, jobVars, downVars, auditVars>>

\* A bug to catch: the timer is armed beside the immediate first tick.
StartTwice ==
  /\ ticks' = [j \in Jobs |-> IF j \in RunOnStart THEN 1 ELSE 0]
  /\ timers' = [j \in Jobs |-> 1]

\* scheduleJob for every job, in one go: nothing is awaited between them.
StartJobs ==
  /\ ticks' = [j \in Jobs |-> IF j \in RunOnStart THEN 1 ELSE 0]
  /\ timers' = [j \in Jobs |-> IF j \in RunOnStart THEN 0 ELSE 1]

PrismaAnswers ==
  /\ Running
  /\ boot = "prisma"
  /\ boot' = "ready"
  /\ listed' = Jobs
  /\ StartJobs
  /\ UNCHANGED <<stopped, downVars, auditVars>>

BootExit ==
  /\ Running
  /\ boot = "failed"
  /\ exit' = "boot"
  /\ UNCHANGED <<bootVars, jobVars, shutdown, awaited, auditVars>>

-----------------------------------------------------------------------------
(* The scheduler *)

TimerFires(j) ==
  /\ Running
  /\ timers[j] > 0
  /\ timers' = [timers EXCEPT ![j] = @ - 1]
  /\ ticks' = [ticks EXCEPT ![j] = IF stopped[j] THEN @ ELSE @ + 1]
  /\ UNCHANGED <<bootVars, stopped, downVars, auditVars>>

\* A bug to catch: a tick that threw is not followed by another.
RearmOnSuccess(j) ==
  \/ timers' = [timers EXCEPT ![j] = IF stopped[j] THEN @ ELSE @ + 1]
  \/ UNCHANGED timers

\* The finally block of runTick.
Rearm(j) == timers' = [timers EXCEPT ![j] = IF stopped[j] THEN @ ELSE @ + 1]

\* The tick resolves or throws.
TickSettles(j) ==
  /\ Running
  /\ ticks[j] > 0
  /\ ticks' = [ticks EXCEPT ![j] = @ - 1]
  /\ Rearm(j)
  /\ UNCHANGED <<bootVars, stopped, downVars, auditVars>>

-----------------------------------------------------------------------------
(* The lifecycle queue *)

\* A bug to catch: the batch is taken but stays queued until it is written.
TakeCopy(e) ==
  /\ flushTimer' = FALSE
  /\ flushing' = flushing \union {queue \union {e}}
  /\ queue' = queue \union {e}

TakeAll(e) ==
  /\ flushTimer' = FALSE
  /\ flushing' = flushing \union {queue \union {e}}
  /\ queue' = {}

\* A bug to catch: the callback leaves _flushTimer set, so no timer is armed
\* after the first.
EnqueueOnce(e) ==
  /\ queue' = queue \union {e}
  /\ flushTimer' = (flushTimer \/ emitted = 0)
  /\ UNCHANGED flushing

\* push and scheduleFlush.
Enqueue(e) ==
  /\ queue' = queue \union {e}
  /\ flushTimer' = TRUE
  /\ UNCHANGED flushing

\* emitLifecycleEvent.
Emit(j) ==
  /\ Running
  /\ j \in Emitters
  /\ ticks[j] > 0
  /\ emitted < MaxEvents
  /\ emitted' = emitted + 1
  /\ \E c \in Clients :
       LET e == [id |-> emitted + 1, client |-> c] IN
       IF Cardinality(queue) + 1 >= Threshold THEN TakeAll(e) ELSE Enqueue(e)
  /\ UNCHANGED <<bootVars, jobVars, downVars, final, written, dropped>>

FlushTimerFires ==
  /\ Running
  /\ flushTimer
  /\ flushTimer' = FALSE
  /\ flushing' = IF queue = {} THEN flushing ELSE flushing \union {queue}
  /\ queue' = {}
  /\ UNCHANGED <<bootVars, jobVars, downVars, emitted, final, written, dropped>>

\* $transaction commits, or fails and is swallowed.
Decide(batch) ==
  \/ written' = written \union batch /\ UNCHANGED dropped
  \/ dropped' = dropped \union batch /\ UNCHANGED written

\* One client's events of a batch; the other clients' are written after it.
DecideBatch(b) ==
  /\ Running
  /\ \E c \in {e.client : e \in b} :
       LET group == OfClient(b, c)
           others == flushing \ {b}
       IN /\ Decide(group)
          /\ flushing' = IF b = group THEN others ELSE others \union {b \ group}
  /\ UNCHANGED <<bootVars, jobVars, downVars, emitted, queue, flushTimer, final>>

\* The same for the batch that shutdown awaits.
DecideFinal ==
  /\ Running
  /\ \E c \in {e.client : e \in final} :
       /\ Decide(OfClient(final, c))
       /\ final' = final \ OfClient(final, c)
  /\ UNCHANGED <<bootVars, jobVars, downVars, emitted, queue, flushTimer, flushing>>

-----------------------------------------------------------------------------
(* Shutdown *)

\* A bug to catch: a second signal runs shutdown again.
NotYet == TRUE

\* if (shuttingDown) return.
FirstSignal == shutdown = "no"

\* A bug to catch: stop is awaited for jobs that bootstrap has not started.
EveryJob == Jobs

\* jobs.map(stop).
ToStop == listed

\* SIGINT, SIGTERM, an uncaught exception or an unhandled rejection.  Every
\* listed job's stop runs up to its await.
Signal ==
  /\ Running
  /\ FirstSignal
  /\ shutdown' = "stopping"
  /\ awaited' = ToStop
  /\ stopped' = [j \in Jobs |-> stopped[j] \/ j \in listed]
  /\ timers' = [j \in Jobs |-> IF j \in listed THEN 0 ELSE timers[j]]
  /\ UNCHANGED <<bootVars, ticks, exit, auditVars>>

\* A bug to catch: stop does not wait for the tick in flight.
NoTickLeft(j) == TRUE

\* await inFlight.
InFlightSettled(j) == ticks[j] = 0

StopReturns(j) ==
  /\ Running
  /\ j \in awaited
  /\ InFlightSettled(j)
  /\ awaited' = awaited \ {j}
  /\ UNCHANGED <<bootVars, jobVars, shutdown, exit, auditVars>>

\* A bug to catch: the flush comes first, beside the jobs that still run.
FlushAtOnce == shutdown = "stopping"

\* The jobs have stopped and the clients are closed.
ClientsClosed == shutdown = "closing"

CloseClients ==
  /\ Running
  /\ shutdown = "stopping"
  /\ awaited = {}
  /\ shutdown' = "closing"
  /\ UNCHANGED <<bootVars, jobVars, awaited, exit, auditVars>>

\* flushLifecycleEvents.
FinalFlush ==
  /\ Running
  /\ ClientsClosed
  /\ shutdown' = "flushing"
  /\ flushTimer' = FALSE
  /\ final' = queue
  /\ queue' = {}
  /\ UNCHANGED <<bootVars, jobVars, awaited, exit, emitted, flushing, written, dropped>>

\* The flush has returned; flushObservability follows, then process.exit.
FinalFlushed ==
  /\ Running
  /\ shutdown = "flushing"
  /\ final = {}
  /\ shutdown' = "exiting"
  /\ UNCHANGED <<bootVars, jobVars, awaited, exit, auditVars>>

ShutdownExit ==
  /\ Running
  /\ shutdown = "exiting"
  /\ exit' = "shutdown"
  /\ UNCHANGED <<bootVars, jobVars, shutdown, awaited, auditVars>>

\* SIGKILL, or the machine goes away.
Kill ==
  /\ Running
  /\ exit' = "killed"
  /\ UNCHANGED <<bootVars, jobVars, shutdown, awaited, auditVars>>

-----------------------------------------------------------------------------
(* Specification *)

Init ==
  /\ boot = "redis"
  /\ listed = {}
  /\ stopped = [j \in Jobs |-> FALSE]
  /\ timers = [j \in Jobs |-> 0]
  /\ ticks = [j \in Jobs |-> 0]
  /\ shutdown = "no"
  /\ awaited = {}
  /\ exit = "running"
  /\ emitted = 0
  /\ queue = {}
  /\ flushTimer = FALSE
  /\ flushing = {}
  /\ final = {}
  /\ written = {}
  /\ dropped = {}

Next ==
  \/ BootFails \/ RedisAnswers \/ PrismaAnswers \/ BootExit
  \/ \E j \in Jobs : TimerFires(j) \/ TickSettles(j) \/ Emit(j) \/ StopReturns(j)
  \/ FlushTimerFires
  \/ \E b \in flushing : DecideBatch(b)
  \/ DecideFinal
  \/ Signal \/ CloseClients \/ FinalFlush \/ FinalFlushed \/ ShutdownExit
  \/ Kill

Spec == Init /\ [][Next]_vars

\* Timers fire, the database answers or the connection breaks, and what
\* nothing keeps waiting goes on.  That a tick settles is not assumed.
Fairness ==
  /\ WF_vars(RedisAnswers \/ PrismaAnswers \/ BootExit)
  /\ \A j \in Jobs : WF_vars(TimerFires(j))
  /\ \A j \in Jobs : WF_vars(StopReturns(j))
  /\ WF_vars(FlushTimerFires)
  /\ WF_vars(\E b \in flushing : DecideBatch(b))
  /\ WF_vars(DecideFinal)
  /\ WF_vars(CloseClients \/ FinalFlush \/ FinalFlushed \/ ShutdownExit)

FairSpec == Spec /\ Fairness

-----------------------------------------------------------------------------
(* Properties *)

\* The worker's state is well-formed.
TypeOK ==
  /\ boot \in {"redis", "prisma", "ready", "failed"}
  /\ listed \in SUBSET Jobs
  /\ stopped \in [Jobs -> BOOLEAN]
  /\ timers \in [Jobs -> Nat]
  /\ ticks \in [Jobs -> Nat]
  /\ shutdown \in {"no", "stopping", "closing", "flushing", "exiting"}
  /\ awaited \in SUBSET listed
  /\ exit \in {"running", "boot", "shutdown", "killed"}
  /\ emitted \in 0..MaxEvents
  /\ queue \in SUBSET Events
  /\ flushTimer \in BOOLEAN
  /\ flushing \in SUBSET (SUBSET Events)
  /\ final \in SUBSET Events
  /\ written \in SUBSET Events
  /\ dropped \in SUBSET Events

\* A job never has two ticks in flight, nor a tick and the timer of another
\* ("never two overlapping evaluations", scheduler.ts), whatever the order in
\* which ticks settle, timers fire and signals come.
OneTickPerJob == \A j \in Jobs : ticks[j] + timers[j] <= 1

\* Once shutdown has gone on to close the clients, a job it has stopped has
\* neither a tick in flight that would use them nor a timer that would start
\* one: stop has waited for the tick, and the tick did not schedule another.
StoppedIsQuiet ==
  shutdown \in {"closing", "flushing", "exiting"} =>
    \A j \in Jobs : stopped[j] => ticks[j] = 0 /\ timers[j] = 0

\* While events are queued a flush is scheduled, also when a flush by size has
\* just cancelled the timer and when the final flush is over: no event waits
\* for a later one to be written.
NoEventStranded == queue # {} => flushTimer

\* When shutdown has run to its end and had stopped every job there is,
\* nothing is left in the queue: the final flush came after the last emit.
NothingLeftQueued == exit = "shutdown" /\ (\A j \in listed : stopped[j]) => queue = {}

\* "so queued signal audit records are not lost when the worker is
\* terminated" (index.ts): a shutdown that has stopped every job leaves no
\* event undecided.  It does leave some: a flush already in flight is not
\* awaited by the final one, which finds the queue empty.
AuditSurvivesShutdown ==
  exit = "shutdown" /\ (\A j \in listed : stopped[j]) => queue = {} /\ InFlight = {}

\* An event is emitted once, and its batch is written or dropped as a whole
\* for each client, never both and never twice.
Trail == INSTANCE AuditTrail WITH
  waiting <- queue \union InFlight, recorded <- written, refused <- dropped
TrailIsKept == Trail!Spec

\* As long as its ticks settle, a job that was started ticks again and again
\* until it is stopped, whether they resolve or throw.
TicksGoOn ==
  \A j \in Jobs :
    []<>(ticks[j] = 0) => (j \in listed ~> ticks[j] > 0 \/ stopped[j] \/ ~Running)

\* As long as ticks settle, a shutdown that has begun ends the process, also
\* when further signals arrive or bootstrap is still under way.
ShutdownEnds ==
  (\A j \in Jobs : []<>(ticks[j] = 0)) => (shutdown # "no" ~> ~Running)

\* An emitted event does not stay undecided while the process lives.
EventsAreDecided ==
  \A e \in Events : e \in queue \union InFlight ~> e \in written \union dropped \/ ~Running

=============================================================================
