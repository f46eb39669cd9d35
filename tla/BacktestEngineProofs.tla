------------------------ MODULE BacktestEngineProofs ------------------------
(***************************************************************************)
(* For windows and holds of any length: the walk is sound, and the live    *)
(* forward test that relies on its result never opens a trade.             *)
(***************************************************************************)
EXTENDS BacktestEngine, TLAPS

-----------------------------------------------------------------------------
(* The reason a position closes for *)

\* A position stays open exactly at the bars that must not close it.
LEMMA StaysOpen ==
  ASSUME NEW o, NEW b, NEW exits \in SUBSET Touches
  PROVE  CloseReason(o, b, exits) = {} <=> exits = {} /\ ~HeldTooLong(o, b) /\ b # n
<1>1. exits = {} \/ "STOP" \in exits \/ "TARGET" \in exits \/ exits = {"EXIT_RULE"}
  BY DEF Touches
<1>2. "STOP" \in exits => "STOP" \in CloseReason(o, b, exits)
  BY DEF CloseReason, Reasons, Touches
<1>3. "TARGET" \in exits /\ "STOP" \notin exits => "TARGET" \in CloseReason(o, b, exits)
  BY DEF CloseReason, Reasons, Touches
<1>4. exits = {"EXIT_RULE"} => "EXIT_RULE" \in CloseReason(o, b, exits)
  BY DEF CloseReason, Reasons, Touches
<1>5. exits = {} /\ HeldTooLong(o, b) => "MAX_HOLD" \in CloseReason(o, b, exits)
  BY DEF CloseReason, Reasons
<1>6. exits = {} /\ ~HeldTooLong(o, b) /\ b = n => "EOD" \in CloseReason(o, b, exits)
  BY DEF CloseReason, Reasons
<1>7. exits = {} /\ ~HeldTooLong(o, b) /\ b # n => CloseReason(o, b, exits) = {}
  BY DEF CloseReason
<1> QED
  BY <1>1, <1>2, <1>3, <1>4, <1>5, <1>6, <1>7

\* There is one reason at most; a stop goes before a target, and the end of
\* the data comes last.
LEMMA ReasonIsRight ==
  ASSUME NEW o, NEW b, NEW exits \in SUBSET Touches, NEW q \in CloseReason(o, b, exits)
  PROVE  /\ q \in Reasons
         /\ \A r \in CloseReason(o, b, exits) : r = q
         /\ q = "TARGET" => "STOP" \notin exits
         /\ q = "EOD" => exits = {}
BY DEF CloseReason, Touches

\* What is known of a trade that bar b closes.
LEMMA ClosedHere ==
  ASSUME NEW b, NEW exits \in SUBSET Touches, NEW t \in Closes(b, exits)
  PROVE  /\ t.opened \in entry
         /\ t.closed = b
         /\ t.reason \in CloseReason(t.opened, b, exits)
         /\ t = [opened |-> t.opened, closed |-> b, reason |-> t.reason]
BY DEF Closes

\* The positions bar b leaves open.
Still(b, exits) == {o \in entry : CloseReason(o, b, exits) = {}}

\* What a step of the walk does, in the words of the lemmas above.
Walks(m) ==
  /\ bar < n
  /\ m \in BarMeets
  /\ trades' = trades \union Closes(bar + 1, m.exits)
  /\ entry' = EnterIfFlat(Still(bar + 1, m.exits), bar + 1, m.fires)
  /\ tape' = [tape EXCEPT ![bar + 1] = m]
  /\ bar' = bar + 1
  /\ n' = n
  /\ live' = live

LEMMA WalkBarWalks == WalkBar => \E m : Walks(m)
BY DEF WalkBar, Walks, MoreBars, Still

-----------------------------------------------------------------------------
(* Types *)

LEMMA EngineTypeInit == EngineInit => EngineTypeOK
<1> SUFFICES ASSUME EngineInit
             PROVE  EngineTypeOK
  OBVIOUS
<1>1. 0 \in 0..n
  BY EngineAssumption DEF EngineInit
<1>2. NothingSeen \in [1..MaxBars -> BarMeets]
  BY DEF NothingSeen, BarMeets
<1> QED
  BY <1>1, <1>2 DEF EngineInit, EngineTypeOK

LEMMA EngineTypeStep == EngineTypeOK /\ [EngineNext]_engineVars => EngineTypeOK'
<1> SUFFICES ASSUME EngineTypeOK, [EngineNext]_engineVars
             PROVE  EngineTypeOK'
  OBVIOUS
<1> USE EngineAssumption DEF EngineTypeOK
<1>1. ASSUME NEW m, Walks(m)
      PROVE  EngineTypeOK'
  <2> USE <1>1 DEF Walks
  <2> DEFINE b == bar + 1
  <2>1. b \in 1..n /\ b \in 1..MaxBars
    OBVIOUS
  <2>2. m.exits \in SUBSET Touches
    BY DEF BarMeets
  <2>3. entry' \in SUBSET (1..bar')
    <3>1. \A o \in entry' : o = b \/ o \in entry
      BY DEF EnterIfFlat, Still
    <3>2. \A o \in entry : o \in 1..bar'
      OBVIOUS
    <3>3. b \in 1..bar'
      BY <2>1
    <3> HIDE DEF b, EngineTypeOK, Walks
    <3> QED
      BY <3>1, <3>2, <3>3
  <2>4. ASSUME NEW t \in Closes(b, m.exits)
        PROVE  t \in [opened : 1..bar', closed : 1..bar', reason : Reasons]
    <3>1. t.opened \in 1..bar'
      BY <2>2, ClosedHere
    <3>2. t.closed \in 1..bar'
      BY <2>1, <2>2, ClosedHere
    <3>3. t.reason \in Reasons
      BY <2>2, ClosedHere, ReasonIsRight
    <3>4. t = [opened |-> t.opened, closed |-> t.closed, reason |-> t.reason]
      BY <2>2, ClosedHere
    <3> HIDE DEF b
    <3> QED
      BY <3>1, <3>2, <3>3, <3>4
  <2>5. trades \in SUBSET [opened : 1..bar', closed : 1..bar', reason : Reasons]
    <3>1. 1..bar \subseteq 1..bar'
      OBVIOUS
    <3> QED
      BY <3>1
  <2>6. trades' \in SUBSET [opened : 1..bar', closed : 1..bar', reason : Reasons]
    BY <2>4, <2>5
  <2>7. tape' \in [1..MaxBars -> BarMeets]
    OBVIOUS
  <2>8. bar' \in 0..n'
    BY <2>1
  <2> QED
    BY <2>3, <2>6, <2>7, <2>8
<1>2. ASSUME LiveTick
      PROVE  EngineTypeOK'
  <2>1. NothingSeen \in [1..MaxBars -> BarMeets]
    BY DEF NothingSeen, BarMeets
  <2>2. CASE \E t \in trades : OpenedOnLastBar(t)
    BY <1>2, <2>2 DEF LiveTick
  <2>3. CASE ~\E t \in trades : OpenedOnLastBar(t)
    BY <1>2, <2>1, <2>3 DEF LiveTick
  <2> QED
    BY <2>2, <2>3
<1>3. ASSUME UNCHANGED engineVars
      PROVE  EngineTypeOK'
  BY <1>3 DEF engineVars
<1> QED
  BY <1>1, <1>2, <1>3, WalkBarWalks DEF EngineNext

\* The state of a walk stays well-formed.
THEOREM EngineTypeCorrect == EngineSpec => []EngineTypeOK
BY EngineTypeInit, EngineTypeStep, PTL DEF EngineSpec

-----------------------------------------------------------------------------
(* The walk *)

WalkInv == OnePosition /\ NoEntryMissed /\ FirstTouchCloses

\* The exits of the bar that is walked, and the position after it.
LEMMA AfterBar ==
  ASSUME EngineTypeOK, NEW m, Walks(m)
  PROVE  /\ bar \in Nat /\ n \in Nat /\ bar + 1 \in 1..MaxBars
         /\ m.exits \in SUBSET Touches /\ m.fires \in BOOLEAN
         /\ entry \subseteq 1..bar
         /\ \A o \in entry' : o = bar + 1 \/ o \in Still(bar + 1, m.exits)
         /\ Still(bar + 1, m.exits) # {} => entry' = Still(bar + 1, m.exits)
         /\ Still(bar + 1, m.exits) = {} /\ m.fires => entry' = {bar + 1}
         /\ Still(bar + 1, m.exits) = {} /\ ~m.fires => entry' = {}
         /\ \A c \in 1..bar : tape'[c] = tape[c]
         /\ tape'[bar + 1] = m
         /\ \A t \in trades : /\ t.opened \in 1..bar /\ t.closed \in 1..bar
<1> USE EngineAssumption DEF Walks, EngineTypeOK
<1>1. bar + 1 \in 1..MaxBars
  OBVIOUS
<1>2. m.exits \in SUBSET Touches /\ m.fires \in BOOLEAN
  BY DEF BarMeets
<1>3. tape'[bar + 1] = m
  BY <1>1
<1>4. \A c \in 1..bar : tape'[c] = tape[c]
  BY <1>1
<1>5. \A t \in trades : t.opened \in 1..bar /\ t.closed \in 1..bar
  OBVIOUS
<1>6. bar \in Nat /\ n \in Nat /\ entry \subseteq 1..bar
  OBVIOUS
<1>7. /\ \A o \in entry' : o = bar + 1 \/ o \in Still(bar + 1, m.exits)
      /\ Still(bar + 1, m.exits) # {} => entry' = Still(bar + 1, m.exits)
      /\ Still(bar + 1, m.exits) = {} /\ m.fires => entry' = {bar + 1}
      /\ Still(bar + 1, m.exits) = {} /\ ~m.fires => entry' = {}
  BY DEF EnterIfFlat
<1> QED
  BY <1>1, <1>2, <1>3, <1>4, <1>5, <1>6, <1>7

LEMMA OnePositionStep ==
  ASSUME EngineTypeOK, WalkInv, NEW m, Walks(m)
  PROVE  OnePosition'
<1> DEFINE b == bar + 1
<1> DEFINE Closed == Closes(b, m.exits)
<1>1. /\ bar \in Nat /\ b \in Nat /\ bar < b
      /\ m.exits \in SUBSET Touches
      /\ entry \subseteq 1..bar
      /\ \A o \in entry' : o = b \/ o \in Still(b, m.exits)
      /\ \A o, p \in entry' : o = p \/ (o \in Still(b, m.exits) /\ p \in Still(b, m.exits))
      /\ \A t \in trades : t.opened \in 1..bar /\ t.closed \in 1..bar
  BY AfterBar
<1>2. /\ trades' = trades \union Closed
      /\ \A o \in Still(b, m.exits) : o \in entry /\ CloseReason(o, b, m.exits) = {}
  BY DEF Walks, Still
<1>3. \A t \in Closed : /\ t.opened \in entry
                        /\ t.closed = b
                        /\ t.reason \in CloseReason(t.opened, b, m.exits)
                        /\ t = [opened |-> t.opened, closed |-> b, reason |-> t.reason]
  BY <1>1, ClosedHere
<1>4. /\ \A s, t \in trades : s # t => Span(s) \intersect Span(t) = {}
      /\ \A o, p \in entry : o = p
      /\ \A o \in entry : \A t \in trades : t.closed <= o
  BY DEF WalkInv, OnePosition
<1> HIDE DEF b, Closed
<1>5. ASSUME NEW s \in Closed, NEW t \in Closed
      PROVE  s = t
  <2>1. s.opened = t.opened
    BY <1>3, <1>4
  <2>2. s.reason = t.reason
    BY <1>1, <1>3, <2>1, ReasonIsRight
  <2> QED
    BY <1>3, <2>1, <2>2
<1>6. ASSUME NEW s \in trades, NEW t \in Closed
      PROVE  Span(s) \intersect Span(t) = {}
  <2>1. s.closed <= t.opened /\ s.closed \in Nat /\ t.opened \in Nat
    BY <1>1, <1>3, <1>4
  <2> QED
    BY <2>1 DEF Span
<1>7. \A s, t \in trades' : s # t => Span(s) \intersect Span(t) = {}
  BY <1>2, <1>4, <1>5, <1>6
<1>8. \A o, p \in entry' : o = p
  BY <1>1, <1>2, <1>4
<1>9. ASSUME NEW o \in entry', NEW t \in trades'
      PROVE  t.closed <= o
  <2>1. CASE t \in trades /\ o = b
    BY <1>1, <2>1
  <2>2. CASE t \in trades /\ o \in Still(b, m.exits)
    BY <1>2, <1>4, <2>2
  <2>3. CASE t \in Closed /\ o = b
    BY <1>1, <1>3, <2>3
  <2>4. CASE t \in Closed /\ o \in Still(b, m.exits)
    BY <1>2, <1>3, <1>4, <2>4
  <2> QED
    BY <1>1, <1>2, <2>1, <2>2, <2>3, <2>4
<1> QED
  BY <1>7, <1>8, <1>9 DEF OnePosition, Span

LEMMA NoEntryMissedStep ==
  ASSUME EngineTypeOK, WalkInv, NEW m, Walks(m)
  PROVE  NoEntryMissed'
<1> DEFINE b == bar + 1
<1> DEFINE Closed == Closes(b, m.exits)
<1>1. /\ bar \in Nat /\ b = bar + 1
      /\ m.exits \in SUBSET Touches /\ m.fires \in BOOLEAN
      /\ entry \subseteq 1..bar
      /\ Still(b, m.exits) # {} => entry' = Still(b, m.exits)
      /\ Still(b, m.exits) = {} /\ m.fires => entry' = {b}
      /\ \A c \in 1..bar : tape'[c] = tape[c]
      /\ tape'[b] = m
  BY AfterBar
<1>2. trades' = trades \union Closed /\ bar' = b
  BY DEF Walks
<1>3. ASSUME NEW o \in entry, o \notin Still(b, m.exits)
      PROVE  \E t \in Closed : t.opened = o /\ t.closed = b
  <2>1. PICK q : q \in CloseReason(o, b, m.exits)
    BY <1>3 DEF Still
  <2>2. q \in Reasons
    BY <1>1, <2>1, ReasonIsRight
  <2>3. [opened |-> o, closed |-> b, reason |-> q] \in Closed
    BY <2>1, <2>2 DEF Closes
  <2> QED
    BY <2>3
<1> HIDE DEF b, Closed
<1>4. ASSUME NEW c \in 1..b, tape'[c].fires
      PROVE  \/ \E t \in trades' : c \in Span(t)
             \/ \E o \in entry' : o <= c
  <2>1. CASE c = b
    <3>1. \A o \in Still(b, m.exits) : o <= b
      BY <1>1 DEF Still
    <3> QED
      BY <1>1, <1>4, <2>1, <3>1
  <2>2. CASE c # b
    <3>1. c \in 1..bar /\ tape[c].fires
      BY <1>1, <1>4, <2>2
    <3>2. CASE \E t \in trades : c \in Span(t)
      BY <1>2, <3>2
    <3>3. CASE \E o \in entry : o <= c
      <4>1. PICK o \in entry : o <= c
        BY <3>3
      <4>2. CASE o \in Still(b, m.exits)
        BY <1>1, <4>1, <4>2
      <4>3. CASE o \notin Still(b, m.exits)
        <5>1. PICK t \in Closed : t.opened = o /\ t.closed = b
          BY <1>3, <4>3
        <5>2. c \in Span(t)
          BY <1>1, <3>1, <4>1, <5>1 DEF Span
        <5> QED
          BY <1>2, <5>2
      <4> QED
        BY <4>2, <4>3
    <3> QED
      BY <3>1, <3>2, <3>3 DEF WalkInv, NoEntryMissed
  <2> QED
    BY <2>1, <2>2
<1> QED
  BY <1>2, <1>4 DEF NoEntryMissed, Span

LEMMA ClosesFirstStep ==
  ASSUME EngineTypeOK, WalkInv, NEW m, Walks(m)
  PROVE  FirstTouchCloses'
<1>0. PICK b \in Nat : b = bar + 1
  BY AfterBar
<1> DEFINE Closed == Closes(b, m.exits)
<1>1. /\ bar \in Nat /\ b = bar + 1
      /\ m.exits \in SUBSET Touches
      /\ entry \subseteq 1..bar
      /\ \A o \in entry' : o = b \/ o \in Still(b, m.exits)
      /\ \A c \in 1..bar : tape'[c] = tape[c]
      /\ tape'[b] = m
      /\ \A t \in trades : t.opened \in 1..bar /\ t.closed \in 1..bar
  BY <1>0, AfterBar
<1>2. trades' = trades \union Closed /\ bar' = b /\ n' = n
  BY <1>0 DEF Walks
<1>3. \A t \in Closed : /\ t.opened \in entry
                        /\ t.closed = b
                        /\ t.reason \in CloseReason(t.opened, b, m.exits)
  BY <1>1, ClosedHere
<1> HIDE DEF Closed
<1>10. ASSUME NEW o \in entry
       PROVE  o \in Nat /\ o < b
  <2>1. o \in 1..bar
    BY <1>1
  <2> QED
    BY <1>1, <2>1
<1>4. ASSUME NEW o, NEW c \in 1..bar
      PROVE  MustClose(o, c)' <=> MustClose(o, c)
  BY <1>1, <1>2 DEF MustClose, HeldTooLong
<1>5. ASSUME NEW o
      PROVE  MustClose(o, b)' <=> CloseReason(o, b, m.exits) # {}
  BY <1>1, <1>2, StaysOpen DEF MustClose, HeldTooLong
<1>6. ASSUME NEW o \in entry, NEW c \in (o + 1) .. bar
      PROVE  ~MustClose(o, c)'
  <2>1. c \in 1..bar
    BY <1>1
  <2>2. ~MustClose(o, c)
    BY DEF WalkInv, FirstTouchCloses
  <2> QED
    BY <1>4, <2>1, <2>2
<1>7. ASSUME NEW t \in trades
      PROVE  /\ t.opened < t.closed
             /\ MustClose(t.opened, t.closed)'
             /\ \A c \in (t.opened + 1) .. (t.closed - 1) : ~MustClose(t.opened, c)'
             /\ t.reason = "TARGET" => "STOP" \notin tape'[t.closed].exits
             /\ t.reason = "EOD" => tape'[t.closed].exits = {}
  <2>1. /\ t.opened < t.closed
        /\ MustClose(t.opened, t.closed)
        /\ \A c \in (t.opened + 1) .. (t.closed - 1) : ~MustClose(t.opened, c)
        /\ t.reason = "TARGET" => "STOP" \notin tape[t.closed].exits
        /\ t.reason = "EOD" => tape[t.closed].exits = {}
    BY DEF WalkInv, FirstTouchCloses
  <2>2. t.closed \in 1..bar /\ t.opened \in 1..bar
    BY <1>1
  <2>3. \A c \in (t.opened + 1) .. (t.closed - 1) : c \in 1..bar
    BY <1>1, <2>2
  <2> QED
    BY <1>1, <1>4, <2>1, <2>2, <2>3
<1>8. ASSUME NEW t \in Closed
      PROVE  /\ t.opened < t.closed
             /\ MustClose(t.opened, t.closed)'
             /\ \A c \in (t.opened + 1) .. (t.closed - 1) : ~MustClose(t.opened, c)'
             /\ t.reason = "TARGET" => "STOP" \notin tape'[t.closed].exits
             /\ t.reason = "EOD" => tape'[t.closed].exits = {}
  <2>1. t.opened \in entry /\ t.closed = b /\ t.opened < t.closed
    <3>1. t.opened \in entry /\ t.closed = b
      BY <1>3
    <3> QED
      BY <1>10, <3>1
  <2>2. MustClose(t.opened, t.closed)'
    <3>1. CloseReason(t.opened, b, m.exits) # {}
      BY <1>3
    <3> QED
      BY <1>5, <2>1, <3>1
  <2>3. \A c \in (t.opened + 1) .. (t.closed - 1) : c \in (t.opened + 1) .. bar
    BY <1>1, <2>1
  <2>4. /\ t.reason = "TARGET" => "STOP" \notin m.exits
        /\ t.reason = "EOD" => m.exits = {}
    BY <1>1, <1>3, ReasonIsRight
  <2> QED
    BY <1>1, <1>6, <2>1, <2>2, <2>3, <2>4
<1>9. ASSUME NEW o \in entry', NEW c \in (o + 1) .. b
      PROVE  ~MustClose(o, c)'
  <2>1. CASE o = b
    BY <1>1, <2>1
  <2>2. CASE o \in Still(b, m.exits) /\ c = b
    <3>1. CloseReason(o, b, m.exits) = {}
      BY <2>2 DEF Still
    <3> QED
      BY <1>5, <2>2, <3>1
  <2>3. CASE o \in Still(b, m.exits) /\ c # b
    <3>1. o \in entry /\ o \in Nat
      BY <1>10, <2>3 DEF Still
    <3>2. c \in (o + 1) .. bar
      BY <1>1, <2>3, <3>1
    <3> QED
      BY <1>6, <3>1, <3>2
  <2> QED
    BY <1>1, <2>1, <2>2, <2>3
<1> QED
  BY <1>2, <1>7, <1>8, <1>9 DEF FirstTouchCloses

-----------------------------------------------------------------------------
(* Theorems *)

LEMMA WalkInvInit == EngineInit => WalkInv
BY EngineAssumption DEF EngineInit, WalkInv, OnePosition, NoEntryMissed, FirstTouchCloses, Span

\* No trade a walk returns was opened on the last bar of its window.
LEMMA NothingFresh ==
  ASSUME EngineTypeOK, FirstTouchCloses, NEW t \in trades
  PROVE  ~OpenedOnLastBar(t)
<1>1. t.opened < t.closed
  BY DEF FirstTouchCloses
<1>2. t.opened \in 1..bar /\ t.closed \in 1..bar /\ bar \in 0..n /\ n \in Nat
  BY DEF EngineTypeOK
<1> QED
  BY <1>1, <1>2 DEF OpenedOnLastBar

LEMMA WalkInvStep ==
  EngineTypeOK /\ WalkInv /\ [EngineNext]_engineVars => WalkInv' /\ live' = live
<1> SUFFICES ASSUME EngineTypeOK, WalkInv, [EngineNext]_engineVars
             PROVE  WalkInv' /\ live' = live
  OBVIOUS
<1>1. ASSUME NEW m, Walks(m)
      PROVE  WalkInv' /\ live' = live
  BY <1>1, OnePositionStep, NoEntryMissedStep, ClosesFirstStep DEF WalkInv, Walks
<1>2. ASSUME LiveTick
      PROVE  WalkInv' /\ live' = live
  <2>1. ~\E t \in trades : OpenedOnLastBar(t)
    BY NothingFresh DEF WalkInv
  <2>2. live' = live /\ bar' = 0 /\ entry' = {} /\ trades' = {}
    BY <1>2, <2>1 DEF LiveTick
  <2> QED
    BY <2>2 DEF WalkInv, OnePosition, NoEntryMissed, FirstTouchCloses
<1>3. ASSUME UNCHANGED engineVars
      PROVE  WalkInv' /\ live' = live
  BY <1>3 DEF engineVars, WalkInv, OnePosition, NoEntryMissed, FirstTouchCloses,
              Span, MustClose, HeldTooLong
<1> QED
  BY <1>1, <1>2, <1>3, WalkBarWalks DEF EngineNext

LEMMA WalkIsSound == EngineSpec => [](EngineTypeOK /\ WalkInv)
<1>1. EngineInit => EngineTypeOK /\ WalkInv
  BY EngineTypeInit, WalkInvInit
<1>2. EngineTypeOK /\ WalkInv /\ [EngineNext]_engineVars => EngineTypeOK' /\ WalkInv'
  BY EngineTypeStep, WalkInvStep
<1> QED
  BY <1>1, <1>2, PTL DEF EngineSpec

\* Only one position is open at a time.
THEOREM OneAtATime == EngineSpec => []OnePosition
<1>1. WalkInv => OnePosition
  BY DEF WalkInv
<1> QED
  BY <1>1, WalkIsSound, PTL

\* No entry signal is passed over while flat.
THEOREM EveryEntryTaken == EngineSpec => []NoEntryMissed
<1>1. WalkInv => NoEntryMissed
  BY DEF WalkInv
<1> QED
  BY <1>1, WalkIsSound, PTL

\* A trade closes at the first bar that must close it, a tie as a stop.
THEOREM ClosesAtFirstTouch == EngineSpec => []FirstTouchCloses
<1>1. WalkInv => FirstTouchCloses
  BY DEF WalkInv
<1> QED
  BY <1>1, WalkIsSound, PTL

\* The live forward test never opens a trade, whatever the strategy, the length
\* of the window and the prices: what it looks for is never in the result.
THEOREM LiveNeverOpens == EngineSpec => [](live = "none")
<1>1. EngineTypeOK /\ WalkInv /\ [EngineNext]_engineVars => live' = live
  BY WalkInvStep
<1>2. EngineInit => live = "none"
  BY DEF EngineInit
<1>3. live = "none" /\ live' = live => (live = "none")'
  OBVIOUS
<1> QED
  BY <1>1, <1>2, <1>3, WalkIsSound, PTL DEF EngineSpec

=============================================================================
