----------------------------- MODULE CandleWalk -----------------------------
(***************************************************************************)
(* How an open crypto paper trade and an open SignalHistory row get their  *)
(* outcome: a tick reads the open rows, fetches one-minute candles, walks  *)
(* them for the first touch of the stop or the target and updates the row. *)
(* fetchKlinesRange drops the range it is asked for and returns the latest *)
(* candles there are.  One row, whose levels are fixed, and the touches of *)
(* these levels are what is kept of a candle; the candle of the minute     *)
(* that is under way is among those returned, and still grows.             *)
(***************************************************************************)
EXTENDS Naturals

CONSTANTS
  LastMinute,   \* bound on the clock
  CandleWindow, \* candles the data service returns
  MaxAge,       \* minutes after which a row expires
  MaxGap        \* bound on the minutes between two completed walks of an open row

ASSUME WalkAssumption == {LastMinute, CandleWindow, MaxAge, MaxGap} \subseteq Nat \ {0}

VARIABLES
  kind,    \* "signal", a SignalHistory row, or "trade", a PaperTrade
  minute,  \* the minute that is under way
  candle,  \* for each minute, the levels of the row its prices have touched
  opened,  \* the minute the row was created in, 0 before
  outcome, \* OPEN, or how the row was closed
  closed,  \* closedAt of a row that was closed, 0 before
  walkPc,  \* what the tick is waiting for
  readAt,  \* the tick's now
  verdict, \* what it has found: outcome and minute
  walkedAt \* the minute of the last walk of the row that was completed

walkVars ==
  <<kind, minute, candle, opened, outcome, closed, walkPc, readAt, verdict, walkedAt>>
marketVars == <<minute, candle>>
rowVars == <<kind, opened, outcome, closed>>
tickVars == <<walkPc, readAt, verdict, walkedAt>>

-----------------------------------------------------------------------------

Levels == {"stop", "target"}

Minutes == 1..LastMinute

Verdicts == [outcome : {"OPEN", "STOP", "TARGET", "EXPIRED"}, at : {0} \union Minutes]

NoVerdict == [outcome |-> "OPEN", at |-> 0]

\* A bug to catch: the candles before the signal are walked as well.
Unfiltered == {m \in Minutes : m <= minute /\ m + CandleWindow > minute}

\* The candles that are walked.  evaluateSignal leaves out those that opened
\* before the signal; the resolver of paper trades walks what it is given.
Walked ==
  {m \in Minutes :
     /\ m <= minute
     /\ m + CandleWindow > minute
     /\ kind = "signal" => m > opened}

\* Stop wins.
TouchOf(m) == IF "stop" \in candle[m] THEN "STOP" ELSE "TARGET"

IsExpired == readAt - opened >= MaxAge

\* The first candle that touches a level, or age.
Evaluate ==
  LET touching == {m \in Walked : candle[m] # {}} IN
  IF touching # {}
  THEN {[outcome |-> TouchOf(m), at |-> m] : m \in {m \in touching : \A k \in touching : m <= k}}
  ELSE {IF IsExpired THEN [outcome |-> "EXPIRED", at |-> readAt] ELSE NoVerdict}

WalkEnds ==
  /\ walkPc' = "idle"
  /\ readAt' = 0
  /\ verdict' = NoVerdict

\* Prices touch a level of the row; those after its end are left out.
Touch(level) ==
  /\ outcome = "OPEN"
  /\ level \notin candle[minute]
  /\ candle' = [candle EXCEPT ![minute] = @ \union {level}]
  /\ UNCHANGED <<minute, rowVars, tickVars>>

\* A minute passes.  While the row is open, walks of it that are completed are
\* MaxGap minutes apart at most.
MinutePasses ==
  /\ minute < LastMinute
  /\ opened # 0 /\ outcome = "OPEN" => minute < walkedAt + MaxGap
  /\ minute' = minute + 1
  /\ UNCHANGED <<candle, rowVars, tickVars>>

\* The row is created, early enough for the clock to reach its end.
RowOpens ==
  /\ opened = 0
  /\ minute + MaxAge <= LastMinute
  /\ opened' = minute
  /\ walkedAt' = minute
  /\ UNCHANGED <<marketVars, kind, outcome, closed, walkPc, readAt, verdict>>

\* findMany of the open rows.
WalkBegins ==
  /\ walkPc = "idle"
  /\ opened # 0 /\ outcome = "OPEN"
  /\ walkPc' = "fetch"
  /\ readAt' = minute
  /\ UNCHANGED <<marketVars, rowVars, verdict, walkedAt>>

\* fetchKlinesRange has answered, and the candles are walked.
CandlesArrive ==
  /\ walkPc = "fetch"
  /\ \E v \in Evaluate :
       IF v.outcome = "OPEN"
       THEN /\ walkedAt' = minute
            /\ WalkEnds
       ELSE /\ walkPc' = "update"
            /\ verdict' = v
            /\ UNCHANGED <<readAt, walkedAt>>
  /\ UNCHANGED <<marketVars, rowVars>>

\* update, by id, whatever the row's status is by now.
OutcomeWritten ==
  /\ walkPc = "update"
  /\ outcome' = verdict.outcome
  /\ closed' = verdict.at
  /\ WalkEnds
  /\ UNCHANGED <<marketVars, kind, opened, walkedAt>>

\* A call fails or the worker dies.
WalkFails ==
  /\ walkPc # "idle"
  /\ WalkEnds
  /\ UNCHANGED <<marketVars, rowVars, walkedAt>>

\* A cancel request closes a trade.
TradeCancelled ==
  /\ kind = "trade"
  /\ opened # 0 /\ outcome = "OPEN"
  /\ outcome' = "CANCELLED"
  /\ closed' = minute
  /\ UNCHANGED <<marketVars, kind, opened, tickVars>>

WalkInit ==
  /\ kind \in {"signal", "trade"}
  /\ minute = 1
  /\ candle = [m \in Minutes |-> {}]
  /\ opened = 0
  /\ outcome = "OPEN"
  /\ closed = 0
  /\ walkPc = "idle"
  /\ readAt = 0
  /\ verdict = NoVerdict
  /\ walkedAt = 0

WalkNext ==
  \/ \E level \in Levels : Touch(level)
  \/ MinutePasses \/ RowOpens
  \/ WalkBegins \/ CandlesArrive \/ OutcomeWritten \/ WalkFails
  \/ TradeCancelled

WalkSpec == WalkInit /\ [][WalkNext]_walkVars

-----------------------------------------------------------------------------
(* Properties *)

\* The row, the candles and the tick are well-formed.
WalkTypeOK ==
  /\ kind \in {"signal", "trade"}
  /\ minute \in Minutes
  /\ candle \in [Minutes -> SUBSET Levels]
  /\ \A m \in Minutes : m > minute => candle[m] = {}
  /\ opened \in 0..minute
  /\ outcome \in {"OPEN", "STOP", "TARGET", "EXPIRED", "CANCELLED"}
  /\ closed \in 0..minute
  /\ walkPc \in {"idle", "fetch", "update"}
  /\ readAt \in 0..minute
  /\ verdict \in Verdicts
  /\ walkedAt \in 0..minute

Untouched(first, last) == \A m \in Minutes : first <= m /\ m <= last => candle[m] = {}

\* The outcome of a signal is the first touch after the minute it was
\* generated in, and it has expired only when there was none, however late the
\* tick that finds it and whatever ticks failed before, as long as one of them
\* is completed before candles that were not walked leave the window.
OutcomeIsFirstTouch ==
  kind = "signal" =>
    /\ outcome \in {"STOP", "TARGET"} =>
         /\ closed > opened
         /\ Untouched(opened + 1, closed - 1)
         /\ candle[closed] # {}
         /\ outcome = "TARGET" => "target" \in candle[closed]
         /\ outcome = "STOP" => "stop" \in candle[closed]
    /\ outcome = "EXPIRED" => closed >= opened + MaxAge /\ Untouched(opened + 1, closed - 1)

\* "Walk every OPEN trade, fetch 1m klines from openedAt -> now" (paper-trader.ts):
\* a trade is not closed by prices from before it was opened.  It is: the range
\* is dropped by the adapter, and the resolver does not filter what it gets.
ClosesAfterItOpens == kind = "trade" /\ outcome # "OPEN" => closed >= opened

=============================================================================
