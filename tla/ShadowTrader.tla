---------------------------- MODULE ShadowTrader ----------------------------
(***************************************************************************)
(* The simulated portfolio of experiments/shadow-trader.ts: signals, ticks *)
(* and closes in any order, on money.  Prices are small numbers, a         *)
(* position is one unit, slippage and commission are amounts rather than   *)
(* fractions, and where the stop and the target are is left open: a tick   *)
(* may close the position of its symbol at any price.                      *)
(***************************************************************************)
EXTENDS Integers, FiniteSets, Functions

CONSTANTS
  ShadowSymbols, \* symbols the arm's signals are about
  ShadowPrices,  \* prices
  Slippage,      \* what a fill is worse by than its price
  Commission,    \* what a fill costs
  Capital,       \* initialCapital
  MaxOpen,       \* maxOpenPositions
  MaxCloses      \* bound on the trades of a portfolio

ASSUME ShadowAssumption ==
  /\ ShadowPrices \subseteq Nat
  /\ {Slippage, Commission, Capital, MaxOpen, MaxCloses} \subseteq Nat
  /\ \A price \in ShadowPrices : Slippage <= price
  /\ IsFiniteSet(ShadowSymbols)

VARIABLES
  held,       \* symbol -> its open position, in a set of at most one
  cash,
  unrealised, \* the portfolio's sum, as of the last tick
  realised,
  peak,       \* peakEquity
  closes      \* number of closed trades

shadowVars == <<held, cash, unrealised, realised, peak, closes>>

-----------------------------------------------------------------------------

Sides == {"LONG", "SHORT"}

Sign(side) == IF side = "LONG" THEN 1 ELSE -1

Holding == {s \in ShadowSymbols : held[s] # {}}

Larger(x, y) == IF x >= y THEN x ELSE y

\* The getter: what positions cost left cash and is not added back.
Equity(c, u) == c + u

UnrealisedOf(h) ==
  SumFunction([s \in ShadowSymbols |-> SumFunction([p \in h[s] |-> p.unrealised])])

\* Fewer open positions than the limit, and none in the symbol.
MayOpen(s) == Cardinality(Holding) < MaxOpen /\ held[s] = {}

\* ingestSignal, of a signal that was not acted on.  FLAT opens a LONG whose
\* fill has the slippage of a SHORT.
IngestSignal(s, side, price, flat) ==
  LET fill == IF side = "LONG" /\ ~flat THEN price + Slippage ELSE price - Slippage
  IN /\ MayOpen(s)
     /\ flat => side = "LONG"
     /\ held' = [held EXCEPT ![s] = {[side |-> side, entry |-> fill, unrealised |-> 0]}]
     /\ cash' = cash - (fill + Commission)
     /\ UNCHANGED <<unrealised, realised, peak, closes>>

\* A bug to catch: the commission of the entry is not given back before netPnl,
\* which has it deducted, is added.
PaidBackLess(entry, net) == entry + net - Commission

\* entryNotional + netPnl + entryCommission - exitCommission.
PaidBack(entry, net) == entry + net + Commission - Commission

\* _closePosition: the portfolio's unrealised sum is the one of the last tick,
\* and peakEquity is moved by it.
ClosePosition(s, p, price) ==
  LET exit == price - Sign(p.side) * Slippage
      net  == Sign(p.side) * (exit - p.entry) - 2 * Commission
  IN /\ cash' = cash + PaidBack(p.entry, net)
     /\ realised' = realised + net
     /\ closes' = closes + 1

\* closePosition and closeAllPositions, which closes one after another.
ManualClose(s, price) ==
  /\ closes < MaxCloses
  /\ \E p \in held[s] : ClosePosition(s, p, price)
  /\ held' = [held EXCEPT ![s] = {}]
  /\ peak' = Larger(peak, Equity(cash', unrealised))
  /\ UNCHANGED unrealised

Marked(s, close) ==
  [held EXCEPT ![s] = {[p EXCEPT !.unrealised = Sign(p.side) * (close - p.entry)] : p \in @}]

\* A tick that leaves the position of its symbol open.
QuietTick(s, close) ==
  /\ held' = Marked(s, close)
  /\ unrealised' = UnrealisedOf(held')
  /\ peak' = Larger(peak, Equity(cash, unrealised'))
  /\ UNCHANGED <<cash, realised, closes>>

\* A tick whose range reaches the stop or the target, at price.
ExitTick(s, price) ==
  /\ closes < MaxCloses
  /\ \E p \in held[s] : ClosePosition(s, p, price)
  /\ held' = [held EXCEPT ![s] = {}]
  /\ unrealised' = UnrealisedOf(held')
  /\ peak' = Larger(peak, Larger(Equity(cash', unrealised), Equity(cash', unrealised')))

ShadowInit ==
  /\ held = [s \in ShadowSymbols |-> {}]
  /\ cash = Capital
  /\ unrealised = 0
  /\ realised = 0
  /\ peak = Capital
  /\ closes = 0

ShadowNext ==
  \E s \in ShadowSymbols, price \in ShadowPrices :
    \/ \E side \in Sides, flat \in BOOLEAN : IngestSignal(s, side, price, flat)
    \/ ManualClose(s, price)
    \/ QuietTick(s, price)
    \/ ExitTick(s, price)

ShadowSpec == ShadowInit /\ [][ShadowNext]_shadowVars

-----------------------------------------------------------------------------
(* Properties *)

\* An open position; its unrealised profit is as of the last tick.
Position == [side : Sides, entry : Int, unrealised : Int]

\* The portfolio is well-formed: a position for each symbol at most, and never
\* more than maxOpenPositions of them, "positions beyond maxOpenPositions are
\* silently skipped"; a drawdown from its peak is never negative.
ShadowTypeOK ==
  /\ held \in [ShadowSymbols -> SUBSET Position]
  /\ \A s \in ShadowSymbols : \A p, q \in held[s] : p = q
  /\ Cardinality(Holding) <= MaxOpen
  /\ {cash, unrealised, realised, peak} \subseteq Int
  /\ peak >= Larger(Capital, Equity(cash, unrealised))
  /\ closes \in 0..MaxCloses

CostOf(h) ==
  SumFunction([s \in ShadowSymbols |-> SumFunction([p \in h[s] |-> p.entry + Commission])])

\* Every rupee of cash is accounted for, through any sequence of signals, ticks
\* and closes: the capital and what was realised, less the cost of the open
\* positions and one commission for each closed trade.  That last term is the
\* exit commission, which _closePosition takes out of cash a second time.
CashIsExplained == cash = Capital + realised - CostOf(held) - closes * Commission

=============================================================================
