----------------------------- MODULE MlContext ------------------------------
(***************************************************************************)
(* buildMLContext of ml-enhanced-context.ts with its one-minute cache and  *)
(* the circuit breaker of ml-resilience.ts around the ML service.  Calls   *)
(* are made concurrently by requests and by the auto trader, and an action *)
(* is the stretch of a call up to its next await.  What the context says   *)
(* is abstracted to where it came from.                                    *)
(***************************************************************************)
EXTENDS Naturals

CONSTANTS
  MlCallers,     \* concurrent calls of buildMLContext
  OpenThreshold, \* openThreshold, four in production
  CloseThreshold \* closeThreshold, two in production

ASSUME MlAssumption == {OpenThreshold, CloseThreshold} \subseteq Nat \ {0}

VARIABLES
  service, \* the ML service: up, answering garbage, or down
  breaker, \* the breaker's fields; waiting: halfOpenDelayMs is not over yet
  cached,  \* where the cached context came from, "none" when it has expired
  mlPc     \* what a call is waiting for

mlVars == <<service, breaker, cached, mlPc>>

-----------------------------------------------------------------------------
(* The breaker *)

Upto(limit, x) == IF x < limit THEN x ELSE limit

\* A bug to catch: an open breaker never lets a call through again.
NeverHalfOpen(b) == b

\* What the getter isCallable does to the breaker.
Probed(b) ==
  IF b.st = "OPEN" /\ ~b.waiting
  THEN [b EXCEPT !.st = "HALF_OPEN", !.successes = 0]
  ELSE b

\* recordSuccess.
Succeeded(b) ==
  IF b.st # "HALF_OPEN"
  THEN [b EXCEPT !.failures = 0]
  ELSE IF b.successes + 1 < CloseThreshold
       THEN [b EXCEPT !.successes = @ + 1]
       ELSE [b EXCEPT !.st = "CLOSED", !.successes = CloseThreshold, !.failures = 0]

\* recordFailure.  The count is only compared with the threshold.
Failed(b) ==
  LET more == Upto(OpenThreshold, b.failures + 1) IN
  IF b.st = "HALF_OPEN" \/ more = OpenThreshold
  THEN [b EXCEPT !.st = "OPEN", !.failures = more, !.waiting = TRUE]
  ELSE [b EXCEPT !.failures = more]

\* halfOpenDelayMs have passed since openedAt.
DelayPasses ==
  /\ breaker.waiting
  /\ breaker' = [breaker EXCEPT !.waiting = FALSE]
  /\ UNCHANGED <<service, cached, mlPc>>

-----------------------------------------------------------------------------
(* A call *)

Goes(c, pc) == mlPc' = [mlPc EXCEPT ![c] = pc]

\* buildFallbackContext, cached as any other context.
FallBack(c) ==
  /\ cached' = "fallback"
  /\ Goes(c, "idle")

\* The cache is empty or stale, and the breaker is asked.
Ask(c) ==
  /\ mlPc[c] = "idle"
  /\ cached = "none"
  /\ breaker' = Probed(breaker)
  /\ IF Probed(breaker).st = "OPEN"
     THEN FallBack(c)
     ELSE Goes(c, "health") /\ UNCHANGED cached
  /\ UNCHANGED service

\* A call the service did not answer as it should.
Disappointed(c) ==
  /\ service # "up"
  /\ FallBack(c)
  /\ UNCHANGED service

HealthFails(c) ==
  /\ mlPc[c] = "health"
  /\ service = "down"
  /\ breaker' = Failed(breaker)
  /\ Disappointed(c)

HealthOk(c) ==
  /\ mlPc[c] = "health"
  /\ service # "down"
  /\ Goes(c, "predict")
  /\ UNCHANGED <<service, breaker, cached>>

\* ML_MODE=required turns an HTTP error into an exception.
PredictThrows(c) ==
  /\ mlPc[c] = "predict"
  /\ breaker' = Failed(breaker)
  /\ Disappointed(c)

\* Any other answer is a success first, and a failure after its validation;
\* null, which is what an HTTP error becomes otherwise, is not valid either.
PredictInvalid(c) ==
  /\ mlPc[c] = "predict"
  /\ breaker' = Failed(Succeeded(breaker))
  /\ Disappointed(c)

PredictValid(c) ==
  /\ mlPc[c] = "predict"
  /\ service # "down"
  /\ breaker' = Succeeded(breaker)
  /\ Goes(c, "finish")
  /\ UNCHANGED <<service, cached>>

\* Rankings and forecast, best effort, and the context.
Finish(c) ==
  /\ mlPc[c] = "finish"
  /\ cached' = "ml"
  /\ Goes(c, "idle")
  /\ UNCHANGED <<service, breaker>>

\* CACHE_TTL_MS have passed, or invalidateMLCache.
ContextExpires ==
  /\ cached # "none"
  /\ cached' = "none"
  /\ UNCHANGED <<service, breaker, mlPc>>

-----------------------------------------------------------------------------

ServiceChanges ==
  /\ service' \in {"up", "garbage", "down"} \ {service}
  /\ UNCHANGED <<breaker, cached, mlPc>>

MlInit ==
  /\ service \in {"up", "garbage", "down"}
  /\ breaker = [st |-> "CLOSED", failures |-> 0, successes |-> 0, waiting |-> FALSE]
  /\ cached = "none"
  /\ mlPc = [c \in MlCallers |-> "idle"]

Answer(c) ==
  \/ HealthFails(c) \/ HealthOk(c)
  \/ PredictThrows(c) \/ PredictInvalid(c) \/ PredictValid(c) \/ Finish(c)

MlNext ==
  \/ \E c \in MlCallers : Ask(c) \/ Answer(c)
  \/ DelayPasses \/ ContextExpires \/ ServiceChanges

MlSpec == MlInit /\ [][MlNext]_mlVars

-----------------------------------------------------------------------------
(* Properties *)

\* The breaker, the cache and the calls are well-formed; a closed breaker has
\* counted fewer failures than open it, and one that waits is open.
MlTypeOK ==
  /\ service \in {"up", "garbage", "down"}
  /\ breaker \in [st : {"CLOSED", "OPEN", "HALF_OPEN"}, failures : 0..OpenThreshold,
                  successes : 0..CloseThreshold, waiting : BOOLEAN]
  /\ breaker.st = "CLOSED" => breaker.failures < OpenThreshold
  /\ breaker.waiting => breaker.st = "OPEN"
  /\ cached \in {"none", "ml", "fallback"}
  /\ mlPc \in [MlCallers -> {"idle", "health", "predict", "finish"}]

\* Once the ML service is well for good, the breaker closes for good and the
\* fallback is used no more, whatever the calls that were in flight when it
\* recovered have recorded: neither their late failures nor a cached fallback
\* that outlasts the half-open delay keeps the service from being probed.
MlComesBack ==
  <>[](service = "up") =>
    /\ <>[](breaker.st = "CLOSED" /\ cached # "fallback")
    /\ []<>(cached = "ml")

=============================================================================
