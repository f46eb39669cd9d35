-------------------------- MODULE CandleWalkProofs --------------------------
(***************************************************************************)
(* For any window and any ages, the outcome of a signal is its first touch *)
(* as long as completed walks of its row are closer to one another than    *)
(* the candles of a window reach.                                          *)
(***************************************************************************)
EXTENDS CandleWalk, Integers, TLAPS

-----------------------------------------------------------------------------
(* Types *)

\* A tick under way has read an open row, which has been created.
RowIsRead == opened = 0 => walkPc = "idle" /\ outcome = "OPEN"

WalkTyped == WalkTypeOK /\ RowIsRead

LEMMA EvaluateType ==
  ASSUME WalkTyped, NEW v \in Evaluate
  PROVE  v \in Verdicts /\ v.at \in 0..minute
<1> USE WalkAssumption DEF WalkTyped, WalkTypeOK, Minutes
<1> DEFINE touching == {m \in Walked : candle[m] # {}}
<1>1. CASE touching # {}
  <2>1. PICK m \in touching : v = [outcome |-> TouchOf(m), at |-> m]
    BY <1>1 DEF Evaluate
  <2>2. m \in Minutes /\ m <= minute
    BY DEF Walked
  <2>3. TouchOf(m) \in {"OPEN", "STOP", "TARGET", "EXPIRED"}
    BY DEF TouchOf
  <2> QED
    BY <2>1, <2>2, <2>3 DEF Verdicts
<1>2. CASE touching = {}
  <2>1. v = [outcome |-> "EXPIRED", at |-> readAt] \/ v = NoVerdict
    BY <1>2 DEF Evaluate
  <2>2. readAt \in {0} \union Minutes
    OBVIOUS
  <2> QED
    BY <2>1, <2>2 DEF Verdicts, NoVerdict
<1> QED
  BY <1>1, <1>2

\* A verdict that is about to be written closes the row, and none lies ahead of
\* the clock.
VerdictPast ==
  /\ verdict.at <= minute
  /\ walkPc = "update" => verdict.outcome # "OPEN"

WalkSound == WalkTyped /\ VerdictPast

LEMMA WalkSoundInit == WalkInit => WalkSound
<1> USE WalkAssumption DEF Minutes
<1>1. NoVerdict \in Verdicts /\ NoVerdict.at = 0
  BY DEF NoVerdict, Verdicts
<1> QED
  BY <1>1 DEF WalkInit, WalkSound, WalkTyped, WalkTypeOK, RowIsRead, VerdictPast

LEMMA WalkSoundStep == WalkSound /\ [WalkNext]_walkVars => WalkSound'
<1> SUFFICES ASSUME WalkSound, [WalkNext]_walkVars
             PROVE  WalkSound'
  OBVIOUS
<1> USE WalkAssumption
    DEF WalkSound, WalkTyped, WalkTypeOK, RowIsRead, VerdictPast, Minutes, marketVars,
        rowVars, tickVars
<1>0. NoVerdict \in Verdicts /\ NoVerdict.at = 0
  BY DEF NoVerdict, Verdicts
<1>1. ASSUME NEW level \in Levels, Touch(level)
      PROVE  WalkSound'
  BY <1>1 DEF Touch
<1>2. ASSUME MinutePasses
      PROVE  WalkSound'
  <2>1. verdict.at \in Nat
    BY DEF Verdicts
  <2> QED
    BY <1>2, <2>1 DEF MinutePasses
<1>3. ASSUME RowOpens
      PROVE  WalkSound'
  BY <1>3 DEF RowOpens
<1>4. ASSUME WalkBegins
      PROVE  WalkSound'
  BY <1>4 DEF WalkBegins
<1>5. ASSUME CandlesArrive
      PROVE  WalkSound'
  <2>1. PICK v \in Evaluate :
          IF v.outcome = "OPEN"
          THEN walkedAt' = minute /\ WalkEnds
          ELSE walkPc' = "update" /\ verdict' = v /\ UNCHANGED <<readAt, walkedAt>>
    BY <1>5 DEF CandlesArrive
  <2>2. v \in Verdicts /\ v.at \in 0..minute
    BY EvaluateType
  <2>3. opened # 0
    BY <1>5 DEF CandlesArrive
  <2> QED
    BY <1>0, <1>5, <2>1, <2>2, <2>3 DEF CandlesArrive, WalkEnds
<1>6. ASSUME OutcomeWritten
      PROVE  WalkSound'
  <2>1. verdict.outcome \in {"OPEN", "STOP", "TARGET", "EXPIRED"} /\ verdict.at \in Nat
    BY DEF Verdicts
  <2>2. opened # 0
    BY <1>6 DEF OutcomeWritten
  <2> QED
    BY <1>0, <1>6, <2>1, <2>2 DEF OutcomeWritten, WalkEnds
<1>7. ASSUME WalkFails
      PROVE  WalkSound'
  BY <1>0, <1>7 DEF WalkFails, WalkEnds
<1>8. ASSUME TradeCancelled
      PROVE  WalkSound'
  BY <1>8 DEF TradeCancelled
<1>9. ASSUME UNCHANGED walkVars
      PROVE  WalkSound'
  BY <1>9 DEF walkVars
<1> QED
  BY <1>1, <1>2, <1>3, <1>4, <1>5, <1>6, <1>7, <1>8, <1>9 DEF WalkNext

\* The row, the candles and the tick stay well-formed.
THEOREM WalkTypeCorrect == WalkSpec => []WalkTypeOK
<1>1. WalkSound => WalkTypeOK
  BY DEF WalkSound, WalkTyped
<1> QED
  BY <1>1, WalkSoundInit, WalkSoundStep, PTL DEF WalkSpec

-----------------------------------------------------------------------------
(* The first touch *)

\* A verdict on a signal that may be written: what it says of the candles.
GoodVerdict(v) ==
  /\ v.outcome \in {"STOP", "TARGET", "EXPIRED"}
  /\ Untouched(opened + 1, v.at - 1)
  /\ v.outcome \in {"STOP", "TARGET"} =>
       /\ v.at > opened
       /\ candle[v.at] # {}
       /\ v.outcome = "TARGET" => "target" \in candle[v.at]
       /\ v.outcome = "STOP" => "stop" \in candle[v.at]
  /\ v.outcome = "EXPIRED" => v.at >= opened + MaxAge

\* Of an open row, every candle before the last walk is known to be untouched,
\* and the candles since are still in the window.
NothingMissed ==
  opened # 0 /\ outcome = "OPEN" =>
    /\ walkedAt >= opened
    /\ minute <= walkedAt + MaxGap
    /\ kind = "signal" => Untouched(opened + 1, walkedAt - 1)

\* A tick that is about to write works on an open signal and has a good verdict.
WritesFirstTouch ==
  kind = "signal" =>
    /\ walkPc # "idle" => outcome = "OPEN" /\ readAt <= minute
    /\ walkPc = "update" => GoodVerdict(verdict)

FirstTouchInv == NothingMissed /\ WritesFirstTouch /\ OutcomeIsFirstTouch

\* What was touched stays touched.
LEMMA TouchGrows ==
  ASSUME WalkSound, NEW level \in Levels, Touch(level), NEW m \in Minutes
  PROVE  candle[m] \subseteq candle'[m]
BY WalkAssumption DEF WalkSound, WalkTyped, WalkTypeOK, Touch, Minutes

\* A walk of an open signal, none of whose candles has left the window unseen,
\* finds the first touch there is, and misses none when it finds none.
LEMMA EvaluateIsGood ==
  ASSUME MaxGap < CandleWindow, WalkSound, NothingMissed, kind = "signal",
         opened # 0, outcome = "OPEN", NEW v \in Evaluate
  PROVE  /\ v.outcome # "OPEN" => GoodVerdict(v)
         /\ v.outcome = "OPEN" => Untouched(opened + 1, minute - 1)
<1> USE WalkAssumption DEF WalkSound, WalkTyped, WalkTypeOK, Minutes
<1> DEFINE touching == {m \in Walked : candle[m] # {}}
<1>1. ASSUME NEW m \in Minutes, opened < m, m <= minute, m \notin touching
      PROVE  candle[m] = {}
  <2>1. CASE m < walkedAt
    BY <1>1, <2>1 DEF NothingMissed, Untouched
  <2>2. CASE m >= walkedAt
    <3>1. m + CandleWindow > minute
      BY <2>2 DEF NothingMissed
    <3>2. m \in Walked
      BY <1>1, <3>1 DEF Walked
    <3> QED
      BY <1>1, <3>2
  <2> QED
    BY <2>1, <2>2
<1>2. CASE touching # {}
  <2>1. PICK m \in touching :
          /\ \A k \in touching : m <= k
          /\ v = [outcome |-> TouchOf(m), at |-> m]
    BY <1>2 DEF Evaluate
  <2>2. m \in Minutes /\ m > opened /\ m <= minute /\ candle[m] # {}
    BY DEF Walked
  <2>3. Untouched(opened + 1, m - 1)
    <3>1. ASSUME NEW k \in Minutes, opened + 1 <= k, k <= m - 1
          PROVE  candle[k] = {}
      <4>1. k \notin touching
        BY <2>1, <2>2, <3>1
      <4> QED
        BY <1>1, <2>2, <3>1, <4>1
    <3> QED
      BY <3>1 DEF Untouched
  <2>4. candle[m] \subseteq {"stop", "target"}
    BY <2>2 DEF Levels
  <2>5. TouchOf(m) \in {"STOP", "TARGET"}
    BY DEF TouchOf
  <2>6. /\ TouchOf(m) = "TARGET" => "target" \in candle[m]
        /\ TouchOf(m) = "STOP" => "stop" \in candle[m]
    BY <2>2, <2>4 DEF TouchOf
  <2>7. v.outcome = TouchOf(m) /\ v.at = m
    BY <2>1
  <2>8. GoodVerdict(v)
    BY <2>2, <2>3, <2>5, <2>6, <2>7 DEF GoodVerdict
  <2> QED
    BY <2>5, <2>7, <2>8
<1>3. CASE touching = {}
  <2>1. Untouched(opened + 1, minute)
    BY <1>1, <1>3 DEF Untouched
  <2>2. v = IF IsExpired THEN [outcome |-> "EXPIRED", at |-> readAt] ELSE NoVerdict
    BY <1>3 DEF Evaluate
  <2>3. CASE IsExpired
    <3>1. v.outcome = "EXPIRED" /\ v.at = readAt
      BY <2>2, <2>3
    <3>2. readAt >= opened + MaxAge
      BY <2>3 DEF IsExpired
    <3>3. Untouched(opened + 1, readAt - 1)
      BY <2>1 DEF Untouched
    <3> QED
      BY <3>1, <3>2, <3>3 DEF GoodVerdict
  <2>4. CASE ~IsExpired
    <3>1. v.outcome = "OPEN"
      BY <2>2, <2>4 DEF NoVerdict
    <3> QED
      BY <2>1, <3>1 DEF Untouched
  <2> QED
    BY <2>3, <2>4
<1> QED
  BY <1>2, <1>3

LEMMA FirstTouchInit == WalkInit => FirstTouchInv
BY DEF WalkInit, FirstTouchInv, NothingMissed, WritesFirstTouch, OutcomeIsFirstTouch

\* A touch changes the current candle of an open row only.
LEMMA FirstTouchTouch ==
  ASSUME WalkSound, FirstTouchInv, NEW level \in Levels, Touch(level)
  PROVE  FirstTouchInv'
<1> USE WalkAssumption DEF WalkSound, WalkTyped, WalkTypeOK, VerdictPast
<1>1. /\ outcome = "OPEN"
      /\ UNCHANGED <<minute, kind, opened, outcome, closed, walkPc, readAt, verdict, walkedAt>>
  BY DEF Touch, rowVars, tickVars
<1>2. ASSUME NEW m \in Minutes, m < minute
      PROVE  candle'[m] = candle[m]
  BY <1>2 DEF Touch, Minutes
<1>3. ASSUME NEW last \in Int, last < minute, Untouched(opened + 1, last)
      PROVE  \A m \in Minutes : opened + 1 <= m /\ m <= last => candle'[m] = {}
  BY <1>2, <1>3 DEF Untouched, Minutes
<1>4. NothingMissed'
  <2>1. ASSUME kind = "signal", opened # 0
        PROVE  Untouched(opened + 1, walkedAt - 1)'
    <3>1. walkedAt - 1 \in Int /\ walkedAt - 1 < minute
      BY DEF Minutes
    <3>2. Untouched(opened + 1, walkedAt - 1)
      BY <1>1, <2>1 DEF FirstTouchInv, NothingMissed
    <3>3. \A m \in Minutes : opened + 1 <= m /\ m <= walkedAt - 1 => candle'[m] = {}
      BY <1>3, <3>1, <3>2
    <3> QED
      BY <1>1, <3>3 DEF Untouched, Minutes
  <2> QED
    BY <1>1, <2>1 DEF FirstTouchInv, NothingMissed
<1>5. WritesFirstTouch'
  <2>1. ASSUME kind = "signal", walkPc = "update"
        PROVE  GoodVerdict(verdict)'
    <3>1. GoodVerdict(verdict)
      BY <2>1 DEF FirstTouchInv, WritesFirstTouch
    <3>2. verdict.at \in Nat /\ verdict.at <= minute /\ minute \in Nat
      BY DEF Verdicts, Minutes
    <3>3. Untouched(opened + 1, verdict.at - 1)'
      <4>1. \A m \in Minutes : opened + 1 <= m /\ m <= verdict.at - 1 => candle'[m] = {}
        BY <1>3, <3>1, <3>2 DEF GoodVerdict
      <4> QED
        BY <1>1, <4>1 DEF Untouched, Minutes
    <3>4. ASSUME verdict.outcome \in {"STOP", "TARGET"}
          PROVE  candle[verdict.at] \subseteq candle'[verdict.at]
      <4>1. verdict.at \in Minutes
        BY <3>1, <3>4, <3>2 DEF GoodVerdict, Minutes
      <4> QED
        BY <4>1, TouchGrows
    <3> QED
      BY <1>1, <3>1, <3>3, <3>4 DEF GoodVerdict
  <2> QED
    BY <1>1, <2>1 DEF FirstTouchInv, WritesFirstTouch
<1>6. OutcomeIsFirstTouch'
  BY <1>1 DEF OutcomeIsFirstTouch
<1> QED
  BY <1>4, <1>5, <1>6 DEF FirstTouchInv

LEMMA FirstTouchArrive ==
  ASSUME MaxGap < CandleWindow, WalkSound, FirstTouchInv, CandlesArrive
  PROVE  FirstTouchInv'
<1> USE WalkAssumption DEF WalkSound, WalkTyped, WalkTypeOK
<1>1. UNCHANGED <<minute, candle, kind, opened, outcome, closed>>
  BY DEF CandlesArrive, marketVars, rowVars
<1>2. PICK v \in Evaluate :
        IF v.outcome = "OPEN"
        THEN walkedAt' = minute /\ WalkEnds
        ELSE walkPc' = "update" /\ verdict' = v /\ UNCHANGED <<readAt, walkedAt>>
  BY DEF CandlesArrive
<1>3. walkPc = "fetch" /\ opened # 0
  BY DEF CandlesArrive, RowIsRead
<1>4. OutcomeIsFirstTouch'
  BY <1>1 DEF FirstTouchInv, OutcomeIsFirstTouch, Untouched
<1>5. ASSUME kind = "signal"
      PROVE  /\ outcome = "OPEN"
             /\ v.outcome # "OPEN" => GoodVerdict(v)
             /\ v.outcome = "OPEN" => Untouched(opened + 1, minute - 1)
  <2>1. outcome = "OPEN"
    BY <1>3, <1>5 DEF FirstTouchInv, WritesFirstTouch
  <2> QED
    BY <1>3, <1>5, <2>1, EvaluateIsGood DEF FirstTouchInv
<1>6. CASE v.outcome = "OPEN"
  <2>1. walkedAt' = minute /\ walkPc' = "idle"
    BY <1>2, <1>6 DEF WalkEnds
  <2>2. kind = "signal" => Untouched(opened + 1, walkedAt - 1)'
    BY <1>1, <1>5, <1>6, <2>1 DEF Untouched
  <2>3. NothingMissed'
    BY <1>1, <2>1, <2>2 DEF NothingMissed, Minutes
  <2>4. WritesFirstTouch'
    BY <1>1, <2>1 DEF WritesFirstTouch
  <2> QED
    BY <1>4, <2>3, <2>4 DEF FirstTouchInv
<1>7. CASE v.outcome # "OPEN"
  <2>1. walkPc' = "update" /\ verdict' = v /\ UNCHANGED <<readAt, walkedAt>>
    BY <1>2, <1>7
  <2>2. NothingMissed'
    BY <1>1, <2>1 DEF FirstTouchInv, NothingMissed, Untouched
  <2>3. kind = "signal" => GoodVerdict(verdict)'
    BY <1>1, <1>5, <1>7, <2>1 DEF GoodVerdict, Untouched
  <2>4. WritesFirstTouch'
    BY <1>1, <1>3, <2>1, <2>3 DEF FirstTouchInv, WritesFirstTouch
  <2> QED
    BY <1>4, <2>2, <2>4 DEF FirstTouchInv
<1> QED
  BY <1>6, <1>7

LEMMA FirstTouchWritten ==
  ASSUME WalkSound, FirstTouchInv, OutcomeWritten
  PROVE  FirstTouchInv'
<1> USE DEF WalkSound, WalkTyped, WalkTypeOK
<1>1. /\ UNCHANGED <<minute, candle, kind, opened, walkedAt>>
      /\ outcome' = verdict.outcome /\ closed' = verdict.at
      /\ walkPc = "update" /\ walkPc' = "idle" /\ opened # 0
  BY DEF OutcomeWritten, WalkEnds, marketVars, RowIsRead
<1>2. kind = "signal" => GoodVerdict(verdict)
  BY <1>1 DEF FirstTouchInv, WritesFirstTouch
<1>3. OutcomeIsFirstTouch'
  BY <1>1, <1>2 DEF GoodVerdict, OutcomeIsFirstTouch, Untouched
<1>4. WritesFirstTouch'
  BY <1>1 DEF WritesFirstTouch
<1>5. NothingMissed'
  <2>1. outcome' # "OPEN"
    BY <1>1 DEF VerdictPast
  <2> QED
    BY <2>1 DEF NothingMissed
<1> QED
  BY <1>3, <1>4, <1>5 DEF FirstTouchInv

LEMMA FirstTouchStep ==
  ASSUME MaxGap < CandleWindow, WalkSound, FirstTouchInv, [WalkNext]_walkVars
  PROVE  FirstTouchInv'
<1> USE WalkAssumption DEF WalkSound, WalkTyped, WalkTypeOK, Minutes, FirstTouchInv
<1>1. ASSUME NEW level \in Levels, Touch(level)
      PROVE  FirstTouchInv'
  BY <1>1, FirstTouchTouch
<1>2. ASSUME MinutePasses
      PROVE  FirstTouchInv'
  BY <1>2 DEF MinutePasses, NothingMissed, WritesFirstTouch, OutcomeIsFirstTouch, GoodVerdict,
              Untouched, rowVars, tickVars
<1>3. ASSUME RowOpens
      PROVE  FirstTouchInv'
  <2>1. /\ opened = 0 /\ outcome = "OPEN" /\ walkPc = "idle"
        /\ opened' = minute /\ walkedAt' = minute
        /\ UNCHANGED <<minute, candle, kind, outcome, closed, walkPc, readAt, verdict>>
    BY <1>3 DEF RowOpens, RowIsRead, marketVars
  <2>2. NothingMissed'
    BY <2>1 DEF NothingMissed, Untouched
  <2> QED
    BY <2>1, <2>2 DEF WritesFirstTouch, OutcomeIsFirstTouch
<1>4. ASSUME WalkBegins
      PROVE  FirstTouchInv'
  BY <1>4 DEF WalkBegins, NothingMissed, WritesFirstTouch, OutcomeIsFirstTouch, Untouched,
              marketVars, rowVars
<1>5. ASSUME CandlesArrive
      PROVE  FirstTouchInv'
  BY <1>5, FirstTouchArrive
<1>6. ASSUME OutcomeWritten
      PROVE  FirstTouchInv'
  BY <1>6, FirstTouchWritten
<1>7. ASSUME WalkFails
      PROVE  FirstTouchInv'
  BY <1>7 DEF WalkFails, WalkEnds, NothingMissed, WritesFirstTouch, OutcomeIsFirstTouch,
              Untouched, marketVars, rowVars
<1>8. ASSUME TradeCancelled
      PROVE  FirstTouchInv'
  BY <1>8 DEF TradeCancelled, NothingMissed, WritesFirstTouch, OutcomeIsFirstTouch, tickVars
<1>9. ASSUME UNCHANGED walkVars
      PROVE  FirstTouchInv'
  BY <1>9 DEF walkVars, NothingMissed, WritesFirstTouch, OutcomeIsFirstTouch, GoodVerdict,
              Untouched
<1> QED
  BY <1>1, <1>2, <1>3, <1>4, <1>5, <1>6, <1>7, <1>8, <1>9 DEF WalkNext

\* As long as two completed walks of an open row are closer to one another than
\* the window is long, a signal's outcome is its first touch, however many ticks
\* fail in between and however the market moves while one is under way.
THEOREM FirstTouchDecides ==
  ASSUME MaxGap < CandleWindow
  PROVE  WalkSpec => []OutcomeIsFirstTouch
<1>1. WalkSound /\ FirstTouchInv /\ [WalkNext]_walkVars => WalkSound' /\ FirstTouchInv'
  BY WalkSoundStep, FirstTouchStep
<1>2. WalkInit => WalkSound /\ FirstTouchInv
  BY WalkSoundInit, FirstTouchInit
<1>3. FirstTouchInv => OutcomeIsFirstTouch
  BY DEF FirstTouchInv
<1> QED
  BY <1>1, <1>2, <1>3, PTL DEF WalkSpec

-----------------------------------------------------------------------------
(* A signal is judged by what comes after it *)

\* A signal's row that is closed was closed after it was created, and one about
\* to be written will be.
JudgedAfter ==
  kind = "signal" =>
    /\ walkPc = "update" => verdict.at > opened
    /\ outcome # "OPEN" => closed > opened

LEMMA EvaluateIsLater ==
  ASSUME WalkSound, kind = "signal", walkPc = "fetch", NEW v \in Evaluate,
         v.outcome # "OPEN"
  PROVE  v.at > opened
<1> USE WalkAssumption DEF WalkSound, WalkTyped, WalkTypeOK, Minutes
<1> DEFINE touching == {m \in Walked : candle[m] # {}}
<1>1. CASE touching # {}
  <2>1. PICK m \in touching : v = [outcome |-> TouchOf(m), at |-> m]
    BY <1>1 DEF Evaluate
  <2> QED
    BY <2>1 DEF Walked
<1>2. CASE touching = {}
  <2>1. v = IF IsExpired THEN [outcome |-> "EXPIRED", at |-> readAt] ELSE NoVerdict
    BY <1>2 DEF Evaluate
  <2>2. IsExpired /\ v.at = readAt
    BY <2>1 DEF NoVerdict
  <2> QED
    BY <2>2 DEF IsExpired
<1> QED
  BY <1>1, <1>2

LEMMA JudgedAfterStep == WalkSound /\ JudgedAfter /\ [WalkNext]_walkVars => JudgedAfter'
<1> SUFFICES ASSUME WalkSound, JudgedAfter, [WalkNext]_walkVars
             PROVE  JudgedAfter'
  OBVIOUS
<1> USE DEF JudgedAfter, marketVars, rowVars, tickVars
<1>1. ASSUME (\E level \in Levels : Touch(level)) \/ MinutePasses \/ WalkBegins \/ WalkFails
      PROVE  JudgedAfter'
  BY <1>1 DEF Touch, MinutePasses, WalkBegins, WalkFails, WalkEnds
<1>2. ASSUME RowOpens
      PROVE  JudgedAfter'
  BY <1>2 DEF RowOpens, WalkSound, WalkTyped, RowIsRead
<1>3. ASSUME CandlesArrive
      PROVE  JudgedAfter'
  <2>1. PICK v \in Evaluate :
          IF v.outcome = "OPEN"
          THEN WalkEnds
          ELSE walkPc' = "update" /\ verdict' = v
    BY <1>3 DEF CandlesArrive
  <2>2. walkPc = "fetch" /\ UNCHANGED <<kind, opened, outcome, closed>>
    BY <1>3 DEF CandlesArrive
  <2>3. CASE v.outcome = "OPEN"
    BY <2>1, <2>2, <2>3 DEF WalkEnds
  <2>4. CASE v.outcome # "OPEN"
    BY <2>1, <2>2, <2>4, EvaluateIsLater
  <2> QED
    BY <2>3, <2>4
<1>4. ASSUME OutcomeWritten
      PROVE  JudgedAfter'
  BY <1>4 DEF OutcomeWritten, WalkEnds
<1>5. ASSUME TradeCancelled
      PROVE  JudgedAfter'
  BY <1>5 DEF TradeCancelled
<1>6. ASSUME UNCHANGED walkVars
      PROVE  JudgedAfter'
  BY <1>6 DEF walkVars
<1> QED
  BY <1>1, <1>2, <1>3, <1>4, <1>5, <1>6 DEF WalkNext

\* A signal is never closed by prices from before it, however wide the window
\* and however late the walk: what run crypto_window refutes of paper trades
\* holds of signals, whose candles are filtered.
THEOREM SignalsCloseLater ==
  WalkSpec => [](kind = "signal" /\ outcome # "OPEN" => closed > opened)
<1>1. WalkInit => JudgedAfter
  BY DEF WalkInit, JudgedAfter
<1>2. JudgedAfter => (kind = "signal" /\ outcome # "OPEN" => closed > opened)
  BY DEF JudgedAfter
<1> QED
  BY <1>1, <1>2, WalkSoundInit, WalkSoundStep, JudgedAfterStep, PTL DEF WalkSpec

=============================================================================
