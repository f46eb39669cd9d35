--------------------------- MODULE BacktestEngine ---------------------------
(***************************************************************************)
(* runBacktest of strategy-lab/engine.ts, one step for each bar of its     *)
(* walk, and the live forward test that calls it: every tick of the job    *)
(* walks a fresh window and opens a paper trade when the walk returned a   *)
(* trade that was opened on the window's last bar.  Prices are abstracted  *)
(* to what a bar does to an open position.  Bars count from the first one  *)
(* after the warm-up.                                                      *)
(***************************************************************************)
EXTENDS Naturals

CONSTANTS
  MaxBars, \* bound on the bars of a window
  MaxHold  \* parsed.risk.maxHoldBars, 0 when it is not set

ASSUME EngineAssumption ==
  /\ MaxBars \in Nat \ {0}
  /\ MaxHold \in Nat

VARIABLES
  n,      \* bars of the window
  bar,    \* bars walked so far
  entry,  \* bar the open position was opened at, in a set of at most one
  trades, \* what is returned: closed trades only
  tape,   \* for each bar walked, what its prices and rules meet
  live    \* the strategy's paper trade: none, or opened by a tick

engineVars == <<n, bar, entry, trades, tape, live>>

-----------------------------------------------------------------------------

Touches == {"STOP", "TARGET", "EXIT_RULE"}

Reasons == Touches \union {"MAX_HOLD", "EOD"}

\* What a bar gives: the exits it meets for the position that is open, none
\* when flat, and whether the entry rule fires.
BarMeets == [exits : SUBSET Touches, fires : BOOLEAN]

HeldTooLong(o, b) == MaxHold > 0 /\ b - o >= MaxHold

\* A bug to catch: a bar that touches both ends as a win.
TargetFirst(o, b, exits) ==
  {r \in Reasons :
     \/ r = "TARGET" /\ r \in exits
     \/ r = "STOP" /\ r \in exits /\ "TARGET" \notin exits
     \/ r = "EXIT_RULE" /\ exits = {r}
     \/ r = "MAX_HOLD" /\ exits = {} /\ HeldTooLong(o, b)
     \/ r = "EOD" /\ exits = {} /\ ~HeldTooLong(o, b) /\ b = n}

\* Why a position opened at o closes at bar b; empty when it stays open.
CloseReason(o, b, exits) ==
  {r \in Reasons :
     \/ r = "STOP" /\ r \in exits
     \/ r = "TARGET" /\ r \in exits /\ "STOP" \notin exits
     \/ r = "EXIT_RULE" /\ exits = {r}
     \/ r = "MAX_HOLD" /\ exits = {} /\ HeldTooLong(o, b)
     \/ r = "EOD" /\ exits = {} /\ ~HeldTooLong(o, b) /\ b = n}

\* The trades bar b closes.
Closes(b, exits) ==
  {t \in [opened : entry, closed : {b}, reason : Reasons] :
     t.reason \in CloseReason(t.opened, b, exits)}

\* A bug to catch: a position is opened whether or not there is one.
EnterAlways(still, b, fires) == IF fires THEN still \union {b} ELSE still

\* A bug to catch: no entry on the bar that closed a position.
EnterNextBar(still, b, fires) == IF entry = {} /\ fires THEN {b} ELSE still

\* The position after bar b, when still is what its exits have left open.
EnterIfFlat(still, b, fires) == IF still = {} /\ fires THEN {b} ELSE still

MoreBars == bar < n

WalkBar ==
  /\ MoreBars
  /\ \E m \in BarMeets :
       /\ entry = {} => m.exits = {}
       /\ trades' = trades \union Closes(bar + 1, m.exits)
       /\ entry' = EnterIfFlat({o \in entry : CloseReason(o, bar + 1, m.exits) = {}},
                               bar + 1, m.fires)
       /\ tape' = [tape EXCEPT ![bar + 1] = m]
  /\ bar' = bar + 1
  /\ UNCHANGED <<n, live>>

NothingSeen == [b \in 1..MaxBars |-> [exits |-> {}, fires |-> FALSE]]

\* The freshest trade maybeOpenTrade looks for.
OpenedOnLastBar(t) == t.opened >= n

\* maybeOpenTrade, once the walk is over.  A trade that is open is not followed
\* by another; otherwise the next tick walks a window of its own.
LiveTick ==
  /\ bar = n
  /\ live = "none"
  /\ IF \E t \in trades : OpenedOnLastBar(t)
     THEN /\ live' = "open"
          /\ UNCHANGED <<n, bar, entry, trades, tape>>
     ELSE /\ n' \in 1..MaxBars
          /\ bar' = 0
          /\ entry' = {}
          /\ trades' = {}
          /\ tape' = NothingSeen
          /\ UNCHANGED live

EngineInit ==
  /\ n \in 1..MaxBars
  /\ bar = 0
  /\ entry = {}
  /\ trades = {}
  /\ tape = NothingSeen
  /\ live = "none"

EngineNext == WalkBar \/ LiveTick

EngineSpec == EngineInit /\ [][EngineNext]_engineVars

-----------------------------------------------------------------------------
(* Properties *)

\* The state of a walk is well-formed.
EngineTypeOK ==
  /\ n \in 1..MaxBars
  /\ bar \in 0..n
  /\ entry \in SUBSET (1..bar)
  /\ trades \in SUBSET [opened : 1..bar, closed : 1..bar, reason : Reasons]
  /\ tape \in [1..MaxBars -> BarMeets]
  /\ live \in {"none", "open"}

\* The bars a trade holds its position over, after each of them.
Span(t) == t.opened .. (t.closed - 1)

\* "Only one position is open at a time": no two trades of a walk overlap, and
\* none overlaps the position that is open now.
OnePosition ==
  /\ \A s, t \in trades : s # t => Span(s) \intersect Span(t) = {}
  /\ \A o \in entry : \A p \in entry : o = p
  /\ \A o \in entry : \A t \in trades : t.closed <= o

\* No entry signal is passed over while flat, the bar that closed a position
\* included: "We re-check after a possible exit on the same bar".
NoEntryMissed ==
  \A b \in 1..bar :
    tape[b].fires => \/ \E t \in trades : b \in Span(t)
                     \/ \E o \in entry : o <= b

\* Whether bar b must close a position opened at o.
MustClose(o, b) == tape[b].exits # {} \/ HeldTooLong(o, b) \/ b = n

\* A trade closes at the first bar after its entry that touches it, breaks its
\* exit rule, ends its hold or ends the data, never before and never later, and
\* a bar that reaches stop and target counts as a stop: "ties resolve as a stop
\* (conservative ...)".
FirstTouchCloses ==
  /\ \A t \in trades :
       /\ t.opened < t.closed
       /\ MustClose(t.opened, t.closed)
       /\ \A b \in (t.opened + 1) .. (t.closed - 1) : ~MustClose(t.opened, b)
       /\ t.reason = "TARGET" => "STOP" \notin tape[t.closed].exits
       /\ t.reason = "EOD" => tape[t.closed].exits = {}
  /\ \A o \in entry : \A b \in (o + 1) .. bar : ~MustClose(o, b)

\* The forward test opens a trade when the entry rule has just fired on the
\* last bar of a window while flat: "re-runs the rule evaluation on the last
\* bar to detect a fresh entry" (paper-trader.ts).  The walk keeps that
\* position to itself: only closed trades are returned, and the end-of-data
\* close comes before the entry.
FreshEntryIsOpened ==
  [][LiveTick /\ n \in entry => live' = "open"]_engineVars

=============================================================================
