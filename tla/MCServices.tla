----------------------------- MODULE MCServices -----------------------------
(***************************************************************************)
(* Nine components that share no state, neither with the paper books nor  *)
(* with one another, checked side by side: subject says which of them a    *)
(* behaviour is about.  The states that are reached are those of the nine  *)
(* specifications, each beside the initial state of the others.            *)
(***************************************************************************)
EXTENDS DistributedLock, AlertCooldown, BacktestEngine, Experiments, ShadowTrader,
        MlContext, LiquidationStream, SignalIngest, CandleWalk

VARIABLE subject

vars ==
  <<subject, lockVars, alertVars, engineVars, expVars, shadowVars, mlVars, streamVars,
    ingestVars, walkVars>>

Init ==
  /\ subject \in {"lock", "alerts", "engine", "experiments", "shadow", "ml", "stream",
                 "ingest", "walk"}
  /\ LockInit
  /\ AlertInit
  /\ ExpInit
  /\ ShadowInit
  /\ EngineInit
  /\ MlInit
  /\ StreamInit
  /\ IngestInit
  /\ WalkInit
  /\ subject # "engine" => n = MaxBars
  /\ subject # "ml" => service = "up"
  /\ subject # "walk" => kind = "signal"

LockStep ==
  /\ subject = "lock"
  /\ LockNext
  /\ UNCHANGED <<subject, alertVars, engineVars, expVars, shadowVars, mlVars, streamVars,
                 ingestVars, walkVars>>

Alerting(A) ==
  /\ subject = "alerts"
  /\ A
  /\ UNCHANGED <<subject, lockVars, engineVars, expVars, shadowVars, mlVars, streamVars,
                 ingestVars, walkVars>>

EngineStep ==
  /\ subject = "engine"
  /\ EngineNext
  /\ UNCHANGED <<subject, lockVars, alertVars, expVars, shadowVars, mlVars, streamVars,
                 ingestVars, walkVars>>

ExperimentsStep ==
  /\ subject = "experiments"
  /\ ExpNext
  /\ UNCHANGED <<subject, lockVars, alertVars, engineVars, shadowVars, mlVars, streamVars,
                 ingestVars, walkVars>>

ShadowStep ==
  /\ subject = "shadow"
  /\ ShadowNext
  /\ UNCHANGED <<subject, lockVars, alertVars, engineVars, expVars, mlVars, streamVars,
                 ingestVars, walkVars>>

Predicting(A) ==
  /\ subject = "ml"
  /\ A
  /\ UNCHANGED <<subject, lockVars, alertVars, engineVars, expVars, shadowVars, streamVars,
                 ingestVars, walkVars>>

Streaming(A) ==
  /\ subject = "stream"
  /\ A
  /\ UNCHANGED <<subject, lockVars, alertVars, engineVars, expVars, shadowVars, mlVars,
                 ingestVars, walkVars>>

Ingesting(A) ==
  /\ subject = "ingest"
  /\ A
  /\ UNCHANGED <<subject, lockVars, alertVars, engineVars, expVars, shadowVars, mlVars,
                 streamVars, walkVars>>

Walking(A) ==
  /\ subject = "walk"
  /\ A
  /\ UNCHANGED <<subject, lockVars, alertVars, engineVars, expVars, shadowVars, mlVars,
                 streamVars, ingestVars>>

Next ==
  \/ LockStep \/ EngineStep \/ ExperimentsStep \/ ShadowStep
  \/ Alerting(AlertNext) \/ Predicting(MlNext) \/ Streaming(StreamNext)
  \/ Ingesting(IngestNext) \/ Walking(WalkNext)

TickGoesOn(w) ==
  \/ AlertsTick(w) \/ TickDone(w) \/ Reserve(w) \/ Notify(w) \/ Book(w)
  \/ \E a \in Alerts : Gate(w, a)

\* Timers fire, calls are answered or fail, and keys expire; the calls for a
\* steady alert, which may fail each time, succeed if they are made again and
\* again.
AlertFairness ==
  /\ \A w \in Replicas :
       /\ WF_vars(Alerting(TickGoesOn(w)))
       /\ \A a \in Steady :
            /\ SF_vars(Alerting(Gate(w, a) /\ MayFire(a)))
            /\ SF_vars(Alerting(Reserve(w) /\ at[w] = {a}))
            /\ SF_vars(Alerting(Notify(w) /\ at[w] = {a}))
  /\ \A a \in Alerts : WF_vars(Alerting(CooldownEnds(a)))

\* A tick of the auto trader asks each minute, every call is answered or
\* aborted by its timeout, and the breaker's delay and the cache run out.
MlFairness ==
  /\ WF_vars(Predicting(\E c \in MlCallers : Ask(c)))
  /\ \A c \in MlCallers : WF_vars(Predicting(Answer(c)))
  /\ WF_vars(Predicting(DelayPasses))
  /\ WF_vars(Predicting(ContextExpires))

\* The reconnect timer fires, an attempt succeeds or fails, and attempts made
\* again and again succeed.
StreamFairness ==
  /\ WF_vars(Streaming(ReconnectFires))
  /\ WF_vars(Streaming(SocketOpens \/ SocketCloses))
  /\ SF_vars(Streaming(ReconnectFires /\ socket' = "CONNECTING"))
  /\ SF_vars(Streaming(SocketOpens))

IngestGoesOn ==
  \/ IngestTick \/ Guard \/ IngestDone
  \/ \E s \in IngestSymbols : LookUp(s) \/ CreateRow(s)

\* A step of the job that only a failure explains.
IngestFault == Ingesting(IngestRetries \/ IngestAborts) /\ ~IngestGoesOn

\* The job ticks, calls are answered or fail, claims expire and rows grow old.
IngestFairness ==
  /\ WF_vars(Ingesting(IngestGoesOn))
  /\ \A s \in IngestSymbols : WF_vars(Ingesting(WindowPasses(s)))
  /\ \A g \in Signals : WF_vars(Ingesting(ClaimExpires(g)))

Fairness ==
  /\ AlertFairness
  /\ MlFairness
  /\ StreamFairness
  /\ IngestFairness

Spec == Init /\ [][Next]_vars /\ Fairness

-----------------------------------------------------------------------------
(* Properties *)

\* The state of each of the components is well-formed.
ServicesTypeOK ==
  /\ LockTypeOK
  /\ AlertTypeOK
  /\ EngineTypeOK
  /\ ExpTypeOK
  /\ ShadowTypeOK
  /\ MlTypeOK
  /\ StreamTypeOK
  /\ IngestTypeOK
  /\ WalkTypeOK

\* An alert whose condition persists is notified again and again.
AlertsGetThrough == subject = "alerts" => AlertGetsThrough

\* An ML service that is well for good is used again.
MlServiceComesBack == subject = "ml" => MlComesBack

\* A liquidations stream that breaks is connected again.
StreamReconnects == subject = "stream" => StreamComesBack

\* A signal that persists is recorded again and again once the database and the
\* worker have ceased to fail; calls to Redis may go on failing.
SignalsAreRecorded ==
  subject = "ingest" /\ <>[][~IngestFault]_vars => SteadyIsRecorded

=============================================================================
