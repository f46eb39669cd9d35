--------------------------- MODULE IndiaPaperBook ---------------------------
(***************************************************************************)
(* The India paper-trade book over one trading day: the rows of PaperTrade *)
(* whose source starts with "in:", the IndiaDaySession row of the day, and *)
(* everything that writes them.                                            *)
(*                                                                         *)
(*   auto trader   opens at most MaxConcurrent positions out of a daily    *)
(*                 budget, keeps the session row, finalises it after close *)
(*   scalper       opens one trade per fresh signal, then resolves every   *)
(*                 open row against candles                                *)
(*   EOD job       closes what is still open once the session has ended    *)
(*   API requests  manual paper trade, cancel one, close all               *)
(*                                                                         *)
(* The first three are jobs of one worker process, the requests run in the *)
(* web process.  A handler is atomic only between two awaits, so each      *)
(* action below is the stretch of a handler from one database or Redis     *)
(* call to the next, and what was read earlier sits in the handler's local *)
(* state.  Any call may fail, the worker may crash between two of them.    *)
(***************************************************************************)
EXTENDS Integers, FiniteSets, Functions

CONSTANTS
  Trades,         \* identifiers a created row can get (bounds the day)
  Symbols,        \* underlyings
  AutoSources,    \* the auto trader's source tags, also used by manual trades
  ScalpSources,   \* the scalper's lanes: strategy x timeframe
  Triggers,       \* minutes at which a lane's signal may trigger
  Jobs,           \* the worker's jobs that take part, of auto, scalper, eod
  Requests,       \* API requests that may be in flight together
  MaxConcurrent,  \* MAX_CONCURRENT_TRADES
  DailyBudget,    \* DAILY_BUDGET
  TradeNotional,  \* TRADE_NOTIONAL
  PositionCap,    \* maxPositionSizePct of the capital
  ExposureCap,    \* maxPortfolioExposurePct, and dailyBudgetPct, of the capital
  RawSizes,       \* sizes the multipliers may yield before the hard caps
  MaxPerDay,      \* maxTradesPerDay
  ResolveBatch,   \* rows one resolver pass looks at
  RedisUp,        \* whether Redis answers during the day
  MaxCrashes      \* bound on worker crashes

ASSUME BudgetAssumption ==
  /\ MaxConcurrent \in Nat \ {0}
  /\ DailyBudget \in Nat
  /\ TradeNotional \in Nat \ {0}
  /\ PositionCap \in 0..TradeNotional
  /\ ExposureCap \in 0..DailyBudget
  /\ RawSizes \subseteq Nat
  /\ MaxPerDay \in Nat
  /\ ResolveBatch \in Nat \ {0}
  /\ MaxCrashes \in Nat

ASSUME IdAssumption ==
  /\ IsFiniteSet(Trades)
  /\ Triggers \subseteq Nat
  /\ AutoSources \cap ScalpSources = {}
  /\ RedisUp \in BOOLEAN

VARIABLES
  phase,    \* where the wall clock stands in the trading day
  row,      \* the PaperTrade table
  session,  \* the IndiaDaySession row; total = 0 stands for no row
  claims,   \* trade-guard keys held in Redis
  lock,     \* the EOD lock in Redis
  crashes,  \* worker crashes so far
  auto,     \* local state of the auto trader's tick
  scalp,    \* local state of the scalper's tick
  eod,      \* local state of the square-off tick
  req       \* local state of each API request

vars == <<phase, row, session, claims, lock, crashes, auto, scalp, eod, req>>

-----------------------------------------------------------------------------
(* Data *)

None == "none"
\* No property tells a WIN from a LOSS: HIT is a row closed by its price.
Closed == {"HIT", "EXPIRED", "CANCELLED"}
Sources == AutoSources \cup ScalpSources

\* A signal is one trigger of one lane on one symbol.
Signals == [sym : Symbols, src : ScalpSources, at : Triggers]

NoRow == [st |-> None]
Row == [st : {"OPEN"} \cup Closed, sym : Symbols, src : Sources,
        at : Nat, size : Nat, by : {"auto", "scalper", "manual"}]

\* Keys are bucketed to five minutes: two triggers of a lane inside one
\* bucket share the key.
GuardKey(sig) == <<sig.sym, sig.src, sig.at \div 5>>
GuardKeys == {GuardKey(sig) : sig \in Signals}

Exists(t) == row[t].st # None
IsOpen(t) == row[t].st = "OPEN"
OpenRows == {t \in Trades : IsOpen(t)}
OpenAuto == {t \in OpenRows : row[t].src \in AutoSources}
Fresh == {t \in Trades : ~Exists(t)}

NoSession == [deployed |-> 0, total |-> 0, trades |-> {}, finalised |-> FALSE]

AutoIdle == [pc |-> "idle", left |-> 0, remaining |-> 0, base |-> NoSession,
             tried |-> {}, cur |-> None, ids |-> {}, spent |-> 0, todo |-> {}]
NoSignal == [sym |-> None, src |-> None, at |-> 0]
ScalpIdle == [pc |-> "idle", sig |-> NoSignal, todo |-> {}]
EodIdle == [pc |-> "idle", todo |-> {}]
ReqIdle == [pc |-> "idle", sym |-> None, src |-> None, todo |-> {}, market |-> FALSE]

Session == [deployed : Nat, total : Nat, trades : SUBSET Trades, finalised : BOOLEAN]

\* What each handler remembers between two of its calls.
AutoState == [pc : {"idle", "open", "create", "finalise"}, left : Nat, remaining : Nat,
              base : Session, tried : SUBSET Symbols, cur : Symbols \cup {None},
              ids : SUBSET Trades, spent : Nat, todo : SUBSET Trades]
ScalpState == [pc : {"idle", "scan", "create", "resolve"}, sig : Signals \cup {NoSignal},
               todo : SUBSET Trades]
EodState == [pc : {"idle", "close"}, todo : SUBSET Trades]
ReqState == [pc : {"idle", "manual", "cancel", "closeAll"}, sym : Symbols \cup {None},
             src : AutoSources \cup {None}, todo : SUBSET Trades, market : BOOLEAN]

-----------------------------------------------------------------------------
(* The market clock *)

Phases == {"entry", "late", "after", "night"}
MarketOpen == phase \in {"entry", "late"}
CutoffForgotten == phase # "night"
BeforeCutoff == phase = "entry"
SessionEnded == phase = "after"

\* 09:15, then the 14:45 entry cutoff, the 15:30 close, and IST midnight,
\* when "today" becomes a date whose session has not ended.
Advance ==
  /\ phase # "night"
  /\ phase' = CASE phase = "entry" -> "late"
                [] phase = "late"  -> "after"
                [] phase = "after" -> "night"
  /\ UNCHANGED <<row, session, claims, lock, crashes, auto, scalp, eod, req>>

-----------------------------------------------------------------------------
(* Writes to the table *)

\* at and size are told apart only where they matter: at for the scalper's
\* rows, size for the auto trader's; they are 0 in the others.
Insert(t, sym, src, at, size, by) ==
  row' = [row EXCEPT ![t] = [st |-> "OPEN", sym |-> sym, src |-> src,
                             at |-> at, size |-> size, by |-> by]]

CloseUnlisted(t, outcome) == row' = [row EXCEPT ![t].st = "CLOSED"]

\* Every closer updates by primary key alone, whatever the status is by then.
Close(t, outcome) == row' = [row EXCEPT ![t].st = outcome]

-----------------------------------------------------------------------------
(* Auto trader *)

Lesser(a, b) == IF a < b THEN a ELSE b
Positive(a) == IF a > 0 THEN a ELSE 0

RecommendedSize(raw, deployed) ==
  Positive(Lesser(Lesser(raw, PositionCap), ExposureCap - deployed))

\* The pipeline's size, at most one and a half base notionals; the base
\* notional when the pipeline recommends nothing.
AutoSize(recommended) ==
  IF recommended > 0 THEN Lesser(recommended, (3 * TradeNotional) \div 2)
                     ELSE TradeNotional

Remaining(day) == Positive(DailyBudget - day.deployed)
SlotsOfAnEmptyBook == MaxConcurrent
SlotsLeft == MaxConcurrent - Cardinality(OpenAuto)
CanOpen(day) == Cardinality(OpenAuto) < MaxConcurrent /\ Remaining(day) >= TradeNotional
AllowNewTrades(day) == day.deployed < ExposureCap /\ day.total < MaxPerDay

\* Budget state is read once, and a session row that cannot be read counts as
\* none; the candidates are fetched, scored and ranked from it across many
\* awaits.  left bounds what is still to be tried of the ranked list, which
\* is no longer than the slots that were left.
AutoBegin(day) ==
  /\ auto.pc = "idle"
  /\ BeforeCutoff
  /\ CanOpen(day) /\ AllowNewTrades(day)
  /\ auto' = [AutoIdle EXCEPT !.pc = "open",
                              !.left = SlotsLeft,
                              !.remaining = Remaining(day),
                              !.base = day]
  /\ UNCHANGED <<phase, row, session, claims, lock, crashes, scalp, eod, req>>

BudgetIgnored == TRUE
BudgetAllows == auto.spent + TradeNotional <= auto.remaining
HeldForgotten(s) == FALSE
AlreadyHeld(s) == \E t \in OpenAuto : row[t].sym = s

\* The next ranked candidate: symbols in the list are distinct.  A symbol
\* with an open auto position is skipped.
AutoConsider(s) ==
  /\ auto.pc = "open"
  /\ auto.left > 0 /\ s \notin auto.tried
  /\ BudgetAllows
  /\ auto' = [auto EXCEPT !.left = @ - 1, !.tried = @ \cup {s},
                !.pc  = IF AlreadyHeld(s) THEN "open" ELSE "create",
                !.cur = IF AlreadyHeld(s) THEN None ELSE s]
  /\ UNCHANGED <<phase, row, session, claims, lock, crashes, scalp, eod, req>>

\* acked is false when the row commits but the call still throws: the tick
\* counts the candidate as skipped and never learns the id.
AutoCreate(t, src, raw, acked) ==
  /\ auto.pc = "create"
  /\ t \in Fresh
  /\ LET size == AutoSize(RecommendedSize(raw, auto.base.deployed))
     IN /\ Insert(t, auto.cur, src, 0, size, "auto")
        /\ auto' = [auto EXCEPT !.pc = "open", !.cur = None,
                      !.ids   = IF acked THEN @ \cup {t} ELSE @,
                      !.spent = IF acked THEN @ + size ELSE @]
  /\ UNCHANGED <<phase, session, claims, lock, crashes, scalp, eod, req>>

AutoCreateFails ==
  /\ auto.pc = "create"
  /\ auto' = [auto EXCEPT !.pc = "open", !.cur = None]
  /\ UNCHANGED <<phase, row, session, claims, lock, crashes, scalp, eod, req>>

AutoCommitOverwriting ==
  /\ auto.pc = "open"
  /\ session' = IF auto.ids = {} THEN session
                ELSE [session EXCEPT !.deployed = auto.spent,
                                     !.total    = Cardinality(auto.ids),
                                     !.trades   = auto.base.trades \cup auto.ids]
  /\ auto' = AutoIdle
  /\ UNCHANGED <<phase, row, claims, lock, crashes, scalp, eod, req>>

\* The one write of the session row a tick makes, from the copy it read at
\* the start.  The list may have been shorter than left.
AutoCommit ==
  /\ auto.pc = "open"
  /\ session' = IF auto.ids = {} THEN session
                ELSE [session EXCEPT !.deployed = auto.base.deployed + auto.spent,
                                     !.total    = auto.base.total + Cardinality(auto.ids),
                                     !.trades   = auto.base.trades \cup auto.ids]
  /\ auto' = AutoIdle
  /\ UNCHANGED <<phase, row, claims, lock, crashes, scalp, eod, req>>

\* An exception outside the create's own handler: the session write failed,
\* or a read before it.  What the tick opened stays in the table only.
AutoAbort ==
  /\ auto.pc # "idle"
  /\ auto' = AutoIdle
  /\ UNCHANGED <<phase, row, session, claims, lock, crashes, scalp, eod, req>>

\* Finalisation runs in the same job, so never beside an opening tick.
FinaliseBegin ==
  /\ auto.pc = "idle"
  /\ SessionEnded
  /\ session.total > 0 /\ ~session.finalised
  /\ auto' = [AutoIdle EXCEPT !.pc = "finalise",
                              !.todo = session.trades \cap OpenRows]
  /\ UNCHANGED <<phase, row, session, claims, lock, crashes, scalp, eod, req>>

FinaliseClose(t) ==
  /\ auto.pc = "finalise"
  /\ t \in auto.todo
  /\ Close(t, "EXPIRED")
  /\ auto' = [auto EXCEPT !.todo = @ \ {t}]
  /\ UNCHANGED <<phase, session, claims, lock, crashes, scalp, eod, req>>

FinaliseUnawaited ==
  /\ auto.pc = "finalise"
  /\ session' = [session EXCEPT !.finalised = TRUE]
  /\ auto' = AutoIdle
  /\ UNCHANGED <<phase, row, claims, lock, crashes, scalp, eod, req>>

\* The win, loss and profit statistics written with it are left out.
FinaliseCommit ==
  /\ auto.pc = "finalise"
  /\ auto.todo = {}
  /\ session' = [session EXCEPT !.finalised = TRUE]
  /\ auto' = AutoIdle
  /\ UNCHANGED <<phase, row, claims, lock, crashes, scalp, eod, req>>

-----------------------------------------------------------------------------
(* Scalper *)

ScalpBegin ==
  /\ scalp.pc = "idle"
  /\ MarketOpen
  /\ scalp' = [ScalpIdle EXCEPT !.pc = "scan"]
  /\ UNCHANGED <<phase, row, session, claims, lock, crashes, auto, eod, req>>

SameLane(t, sig) == Exists(t) /\ row[t].sym = sig.sym /\ row[t].src = sig.src
WithinAMinute(t, sig) == row[t].at - sig.at \in {-1, 0, 1}

RefusedPerLane(sig) ==
  \E t \in Trades : SameLane(t, sig) /\ (IsOpen(t) \/ WithinAMinute(t, sig))
RefusedWhileOpen(sig) == \E t \in OpenRows : row[t].sym = sig.sym

\* What refuses a signal: an open India row of the symbol, whatever its lane;
\* a row of its own lane still open; or one opened within a minute of this
\* trigger, whatever its status now.
Refused(sig) ==
  \/ \E t \in OpenRows : row[t].sym = sig.sym
  \/ \E t \in Trades : SameLane(t, sig) /\ (IsOpen(t) \/ WithinAMinute(t, sig))

\* SET NX of the guard key, then the three look-ups.  Without Redis the
\* attempt goes on unclaimed, and a claim is kept when the signal is refused.
\* Nobody but this job writes the keys or the lanes, so the calls up to the
\* look-up of open rows are one step; the create is another.  Market closed
\* and expiry-day cooldown, tested first, end the attempt with no effect.
ScalpAttempt(sig) ==
  /\ scalp.pc = "scan"
  /\ MarketOpen
  /\ RedisUp => GuardKey(sig) \notin claims
  /\ claims' = IF RedisUp THEN claims \cup {GuardKey(sig)} ELSE claims
  /\ scalp' = IF Refused(sig) THEN scalp ELSE [scalp EXCEPT !.pc = "create", !.sig = sig]
  /\ UNCHANGED <<phase, row, session, lock, crashes, auto, eod, req>>

ScalpCreate(t) ==
  /\ scalp.pc = "create"
  /\ t \in Fresh
  /\ Insert(t, scalp.sig.sym, scalp.sig.src, scalp.sig.at, 0, "scalper")
  /\ scalp' = [scalp EXCEPT !.pc = "scan", !.sig = NoSignal]
  /\ UNCHANGED <<phase, session, claims, lock, crashes, auto, eod, req>>

\* A failed call is caught per timeframe; the scan goes on with the next.
ScalpCallFails ==
  /\ scalp.pc = "create"
  /\ scalp' = [scalp EXCEPT !.pc = "scan", !.sig = NoSignal]
  /\ UNCHANGED <<phase, row, session, claims, lock, crashes, auto, eod, req>>

\* The resolver reads the open rows once, at most a batch of them.
ResolveBegin ==
  /\ scalp.pc = "scan"
  /\ \E batch \in SUBSET OpenRows :
       /\ batch = OpenRows \/ Cardinality(batch) = ResolveBatch
       /\ Cardinality(batch) <= ResolveBatch
       /\ scalp' = [scalp EXCEPT !.pc = "resolve", !.todo = batch]
  /\ UNCHANGED <<phase, row, session, claims, lock, crashes, auto, eod, req>>

\* Candles decide: stop, target, too old, or nothing yet.
ResolveClose(t, outcome) ==
  /\ scalp.pc = "resolve"
  /\ t \in scalp.todo
  /\ Close(t, outcome)
  /\ scalp' = [scalp EXCEPT !.todo = @ \ {t}]
  /\ UNCHANGED <<phase, session, claims, lock, crashes, auto, eod, req>>

\* All rows seen, or an update threw and the pass is given up.  A row no
\* candle decides yet, or whose candles cannot be fetched, is left in todo.
ResolveEnd ==
  /\ scalp.pc = "resolve"
  /\ scalp' = ScalpIdle
  /\ UNCHANGED <<phase, row, session, claims, lock, crashes, auto, eod, req>>

-----------------------------------------------------------------------------
(* EOD square-off *)

\* A failed SET NX counts as a lock held by someone else, so without Redis
\* the tick returns here.  Holding the lock, the tick reads the open rows.
EodBegin ==
  /\ eod.pc = "idle"
  /\ SessionEnded
  /\ RedisUp /\ lock = "free"
  /\ lock' = "held"
  /\ eod' = [pc |-> "close", todo |-> OpenRows]
  /\ UNCHANGED <<phase, row, session, claims, crashes, auto, scalp, req>>

EodClose(t) ==
  /\ eod.pc = "close"
  /\ t \in eod.todo
  /\ Close(t, "EXPIRED")
  /\ eod' = [eod EXCEPT !.todo = @ \ {t}]
  /\ UNCHANGED <<phase, session, claims, lock, crashes, auto, scalp, req>>

EodEndLocked ==
  /\ eod.pc = "close"
  /\ eod.todo = {}
  /\ eod' = EodIdle
  /\ UNCHANGED <<phase, row, session, claims, lock, crashes, auto, scalp, req>>

\* The finally block, after the last row.  A release that fails leaves the
\* lock to its TTL.
EodEnd ==
  /\ eod.pc = "close"
  /\ eod.todo = {}
  /\ lock' \in {"free", "orphaned"}
  /\ eod' = EodIdle
  /\ UNCHANGED <<phase, row, session, claims, crashes, auto, scalp, req>>

\* The finally block after a call that failed for good; the rows left wait
\* for the next tick.
EodAbort ==
  /\ eod.pc # "idle"
  /\ lock' \in {"free", "orphaned"}
  /\ eod' = EodIdle
  /\ UNCHANGED <<phase, row, session, claims, crashes, auto, scalp, req>>

-----------------------------------------------------------------------------
(* API requests *)

\* The open check looks at the same symbol and source only.  A second one,
\* for rows of the last five minutes, and the expiry cooldown only refuse
\* more; a refused request has no effect.
ManualBegin(r, s, src) ==
  /\ req[r].pc = "idle"
  /\ MarketOpen
  /\ ~\E t \in OpenRows : row[t].sym = s /\ row[t].src = src
  /\ req' = [req EXCEPT ![r] = [ReqIdle EXCEPT !.pc = "manual", !.sym = s, !.src = src]]
  /\ UNCHANGED <<phase, row, session, claims, lock, crashes, auto, scalp, eod>>

ManualCreate(r, t) ==
  /\ req[r].pc = "manual"
  /\ t \in Fresh
  /\ Insert(t, req[r].sym, req[r].src, 0, 0, "manual")
  /\ req' = [req EXCEPT ![r] = ReqIdle]
  /\ UNCHANGED <<phase, session, claims, lock, crashes, auto, scalp, eod>>

CancelBegin(r, t) ==
  /\ req[r].pc = "idle"
  /\ IsOpen(t)
  /\ req' = [req EXCEPT ![r] = [ReqIdle EXCEPT !.pc = "cancel", !.todo = {t}]]
  /\ UNCHANGED <<phase, row, session, claims, lock, crashes, auto, scalp, eod>>

CancelCommit(r, t) ==
  /\ req[r].pc = "cancel"
  /\ t \in req[r].todo
  /\ Close(t, "CANCELLED")
  /\ req' = [req EXCEPT ![r] = ReqIdle]
  /\ UNCHANGED <<phase, session, claims, lock, crashes, auto, scalp, eod>>

CloseAllBegin(r) ==
  /\ req[r].pc = "idle"
  /\ OpenRows # {}
  /\ req' = [req EXCEPT ![r] = [ReqIdle EXCEPT !.pc = "closeAll", !.todo = OpenRows,
                                               !.market = MarketOpen]]
  /\ UNCHANGED <<phase, row, session, claims, lock, crashes, auto, scalp, eod>>

\* WIN or LOSS by the sign of the profit when it arrived in market hours.
CloseAllClose(r, t, outcome) ==
  /\ req[r].pc = "closeAll"
  /\ t \in req[r].todo
  /\ outcome = IF req[r].market THEN "HIT" ELSE "EXPIRED"
  /\ Close(t, outcome)
  /\ req' = [req EXCEPT ![r].todo = @ \ {t}]
  /\ UNCHANGED <<phase, session, claims, lock, crashes, auto, scalp, eod>>

\* Done, or failed on the way: nothing is retried.
RequestEnd(r) ==
  /\ req[r].pc # "idle"
  /\ req' = [req EXCEPT ![r] = ReqIdle]
  /\ UNCHANGED <<phase, row, session, claims, lock, crashes, auto, scalp, eod>>

-----------------------------------------------------------------------------
(* The worker process and Redis *)

\* A worker that is down is one whose jobs take no step, so a crash and the
\* restart that follows are one step: every tick in flight is forgotten.
WorkerCrash ==
  /\ crashes < MaxCrashes
  /\ crashes' = crashes + 1
  /\ auto' = AutoIdle /\ scalp' = ScalpIdle /\ eod' = EodIdle
  /\ lock' = IF lock = "held" THEN "orphaned" ELSE lock
  /\ UNCHANGED <<phase, row, session, claims, req>>

\* The lock a dead worker, or a failed release, left behind goes with its
\* 20-minute TTL.
LockExpires ==
  /\ lock = "orphaned"
  /\ lock' = "free"
  /\ UNCHANGED <<phase, row, session, claims, crashes, auto, scalp, eod, req>>

ClaimExpires(k) ==
  /\ k \in claims
  /\ claims' = claims \ {k}
  /\ UNCHANGED <<phase, row, session, lock, crashes, auto, scalp, eod, req>>

-----------------------------------------------------------------------------

Init ==
  /\ phase = "entry"
  /\ row = [t \in Trades |-> NoRow]
  /\ session = NoSession
  /\ claims = {}
  /\ lock = "free"
  /\ crashes = 0
  /\ auto = AutoIdle
  /\ scalp = ScalpIdle
  /\ eod = EodIdle
  /\ req = [r \in Requests |-> ReqIdle]

AutoNext ==
  \/ \E day \in {session, NoSession} : AutoBegin(day)
  \/ \E s \in Symbols : AutoConsider(s)
  \/ \E t \in Trades, src \in AutoSources, raw \in RawSizes, acked \in BOOLEAN :
       AutoCreate(t, src, raw, acked)
  \/ AutoCreateFails
  \/ AutoCommit
  \/ AutoAbort
  \/ FinaliseBegin
  \/ \E t \in Trades : FinaliseClose(t)
  \/ FinaliseCommit

ScalpNext ==
  \/ ScalpBegin
  \/ \E sig \in Signals : ScalpAttempt(sig)
  \/ \E t \in Trades : ScalpCreate(t)
  \/ ScalpCallFails
  \/ ResolveBegin
  \/ \E t \in Trades, outcome \in {"HIT", "EXPIRED"} : ResolveClose(t, outcome)
  \/ ResolveEnd

EodNext ==
  \/ EodBegin
  \/ \E t \in Trades : EodClose(t)
  \/ EodEnd
  \/ EodAbort

RequestNext ==
  \E r \in Requests :
    \/ \E s \in Symbols, src \in AutoSources : ManualBegin(r, s, src)
    \/ \E t \in Trades : ManualCreate(r, t)
    \/ \E t \in Trades : CancelBegin(r, t)
    \/ \E t \in Trades : CancelCommit(r, t)
    \/ CloseAllBegin(r)
    \/ \E t \in Trades, outcome \in Closed : CloseAllClose(r, t, outcome)
    \/ RequestEnd(r)

EnvNext ==
  \/ Advance
  \/ WorkerCrash
  \/ LockExpires
  \/ \E k \in GuardKeys : ClaimExpires(k)

Next ==
  \/ "auto" \in Jobs /\ AutoNext
  \/ "scalper" \in Jobs /\ ScalpNext
  \/ "eod" \in Jobs /\ EodNext
  \/ RequestNext
  \/ EnvNext

Spec == Init /\ [][Next]_vars

\* The process manager restarts the worker and the EOD job keeps ticking; a
\* database call does not fail every time it is made; a TTL runs out.
FairSpec ==
  /\ Spec
  /\ WF_vars(EodBegin) /\ WF_vars(EodEnd) /\ WF_vars(LockExpires)
  /\ \A t \in Trades : SF_vars(EodClose(t))

-----------------------------------------------------------------------------
(* Properties *)

\* Table, session row, Redis keys and what each handler remembers are
\* well-formed: no interleaving of the updates makes a row that is neither
\* absent, open nor closed with an outcome PaperTrade.status knows.
TypeOK ==
  /\ phase \in Phases
  /\ row \in [Trades -> Row \cup {NoRow}]
  /\ session \in Session
  /\ claims \subseteq GuardKeys
  /\ lock \in {"free", "held", "orphaned"}
  /\ crashes \in 0..MaxCrashes
  /\ auto \in AutoState
  /\ scalp \in ScalpState
  /\ eod \in EodState
  /\ req \in [Requests -> ReqState]

OpenBy(who) == {t \in OpenRows : row[t].by = who}

\* MAX_CONCURRENT_TRADES: the auto trader never holds more positions of its
\* own than the cap, although it counts them once per tick, manual trades are
\* opened beside it and a crashed tick forgets what it opened.
AutoPositionCap == Cardinality(OpenBy("auto")) <= MaxConcurrent

\* The session row runAutoTradeTick keeps never records more than
\* DAILY_BUDGET, also counting what the tick in flight has already spent.
BudgetKept ==
  /\ session.deployed <= DailyBudget
  /\ auto.base.deployed + auto.spent <= DailyBudget

SizesOf(trades) == SumFunction([t \in trades |-> row[t].size])

\* The session row is a true account of the rows in its tradeIds: totalTrades
\* their number, deployed the sum of their notionals, although create and
\* upsertSession fail independently and the row read may have been missing.
LedgerMatchesRows ==
  /\ session.total = Cardinality(session.trades)
  /\ session.deployed = SizesOf(session.trades)

\* runAutoTradeTick never holds two positions of its own on one symbol,
\* although its duplicate check and its create are separate calls.
AutoOnePerSymbol ==
  \A t, u \in OpenBy("auto") : row[t].sym = row[u].sym => t = u

\* A session finaliseAutoTradingSession has finalised lists no open trade:
\* its statistics count every trade of it.
FinalisedIsClosed ==
  session.finalised => \A t \in session.trades : ~IsOpen(t)

\* Once finalised, the session row is not written again: not by a tick that
\* began before the cutoff and was still opening at the close.
FinalisedIsFrozen == [][session.finalised => session' = session]_vars

\* DUP-001 in openIndiaPaperTrade: across strategies and timeframes the
\* scalper holds one open trade per symbol.
ScalpOnePerSymbol ==
  \A t, u \in OpenBy("scalper") : row[t].sym = row[u].sym => t = u

\* openIndiaPaperTrade opens one trade per signal for ever: also after the
\* trade has closed, the claim has expired, or the worker has restarted.
SignalOpensOnce ==
  \A t, u \in {v \in Trades : Exists(v) /\ row[v].by = "scalper"} :
    /\ row[t].sym = row[u].sym /\ row[t].src = row[u].src
    /\ row[t].at - row[u].at \in {-1, 0, 1}
    => t = u

\* The scalper's rows as a book of trades whose slots are the symbols.
TradeOf(r) ==
  IF r.st = None \/ r.by # "scalper"
  THEN [st |-> "none"]
  ELSE [st |-> IF r.st = "OPEN" THEN "open" ELSE "closed",
        slot |-> r.sym, lane |-> <<r.sym, r.src>>, at |-> r.at]

RowBook == [t \in Trades |-> TradeOf(row[t])]

Book == INSTANCE AtomicBook WITH
          Ids <- Trades, Slots <- Symbols, Lanes <- Symbols \X ScalpSources,
          Times <- Triggers, book <- RowBook

\* The scalper opens trades as if it claimed, looked and created in one step,
\* whatever the other jobs and requests open and close meanwhile, and however
\* often one trade is closed.
OpensAtomically == Book!BookSpec

\* The square-off job clears the book after the close, whatever was still
\* being opened at 15:30 and wherever a tick failed or the worker died,
\* unless midnight comes first.
SquaredOff == SessionEnded ~> (OpenRows = {} \/ phase = "night")

\* What the EOD job's header calls no duplicate close: a closed trade keeps
\* the outcome it was closed with.
ClosedForGood ==
  [][\A t \in Trades : row[t].st \in Closed => row'[t].st = row[t].st]_vars
=============================================================================
