------------------------ MODULE IndiaPaperBookProofs ------------------------
(***************************************************************************)
(* Theorems about the India paper-trade book, for every set of trades,     *)
(* symbols, lanes and requests and every budget.                           *)
(***************************************************************************)
EXTENDS IndiaPaperBook, SumLemmas

-----------------------------------------------------------------------------
(* Types *)

\* What a handler has set out to close is in the table, and what it has set
\* out to create is fully described: without this no write keeps its type.
WritesAreSound ==
  /\ auto.pc = "create" => auto.cur \in Symbols
  /\ scalp.pc = "create" => scalp.sig \in Signals
  /\ \A t \in auto.todo \cup scalp.todo \cup eod.todo : Exists(t)
  /\ \A r \in Requests :
       /\ req[r].pc = "manual" => req[r].sym \in Symbols /\ req[r].src \in AutoSources
       /\ \A t \in req[r].todo : Exists(t)

TypeInv == TypeOK /\ WritesAreSound

\* A new row is a row, and nobody's work list loses its rows.
LEMMA InsertType ==
  ASSUME TypeInv, NEW t \in Trades, ~Exists(t), NEW sym \in Symbols, NEW src \in Sources,
         NEW at \in Nat, NEW size \in Nat, NEW by \in {"auto", "scalper", "manual"},
         Insert(t, sym, src, at, size, by)
  PROVE  /\ row' \in [Trades -> Row \cup {NoRow}]
         /\ \A u \in Trades : Exists(u) => Exists(u)'
  BY DEF TypeInv, TypeOK, Row, Insert, Exists, None

\* So does a close, provided the row exists.
LEMMA CloseType ==
  ASSUME TypeInv, NEW t \in Trades, Exists(t), NEW outcome \in Closed, Close(t, outcome)
  PROVE  /\ row' \in [Trades -> Row \cup {NoRow}]
         /\ \A u \in Trades : Exists(u) => Exists(u)'
<1>1. row[t] \in Row
  BY DEF TypeInv, TypeOK, Exists, NoRow
<1>2. [row[t] EXCEPT !.st = outcome] \in Row
  BY <1>1 DEF Row
<1>3. row' = [row EXCEPT ![t] = [row[t] EXCEPT !.st = outcome]]
  BY <1>1 DEF Close, TypeInv, TypeOK
<1>4. outcome # None
  BY DEF Closed, None
<1>5. ([row[t] EXCEPT !.st = outcome]).st = outcome
  BY <1>1 DEF Row
<1> QED
  BY <1>2, <1>3, <1>4, <1>5 DEF TypeInv, TypeOK, Exists

\* The auto trader's arithmetic stays within the natural numbers.
LEMMA AutoSizeBound ==
  ASSUME NEW raw \in Nat, NEW deployed \in Nat
  PROVE  AutoSize(RecommendedSize(raw, deployed)) \in 0..TradeNotional
<1>1. RecommendedSize(raw, deployed) \in 0..PositionCap
  BY BudgetAssumption DEF RecommendedSize, Lesser, Positive
<1> QED
  BY <1>1, BudgetAssumption DEF AutoSize, Lesser

\* The count behind getDailyBudgetState is a number, and a tick that may open
\* has slots left.
LEMMA SlotsType ==
  ASSUME TypeInv
  PROVE  /\ IsFiniteSet(OpenAuto) /\ Cardinality(OpenAuto) \in Nat
         /\ (\E day : CanOpen(day)) => SlotsLeft \in Nat
<1>1. IsFiniteSet(OpenAuto)
  BY IdAssumption, FS_Subset, OpenAuto \subseteq Trades DEF OpenAuto, OpenRows
<1>2. Cardinality(OpenAuto) \in Nat
  BY <1>1, FS_CardinalityType
<1> QED
  BY <1>1, <1>2, BudgetAssumption DEF CanOpen, SlotsLeft

\* An empty table and idle handlers are well-formed.
LEMMA TypeInit == Init => TypeInv
BY BudgetAssumption
   DEF Init, TypeInv, TypeOK, WritesAreSound, Phases, NoSession, Session, AutoIdle, AutoState,
       ScalpIdle, ScalpState, NoSignal, EodIdle, EodState, ReqIdle, ReqState, NoRow, None

\* No call of a job or a request, no crash and no expiry breaks a type.
LEMMA TypeStep == TypeInv /\ [Next]_vars => TypeInv'
<1> SUFFICES ASSUME TypeInv, [Next]_vars PROVE TypeInv'
  OBVIOUS
<1> USE DEF TypeInv
<1>1. CASE AutoNext
  <2>1. ASSUME NEW day \in {session, NoSession}, AutoBegin(day) PROVE TypeInv'
    <3>1. day \in Session
      <4>1. NoSession \in Session
        BY DEF Session, NoSession
      <4> QED
        BY <4>1 DEF TypeOK
    <3>2. SlotsLeft \in Nat /\ Remaining(day) \in Nat
      BY <2>1, <3>1, SlotsType, BudgetAssumption DEF AutoBegin, Remaining, Positive, Session
    <3>3. auto' = [AutoIdle EXCEPT !.pc = "open", !.left = SlotsLeft,
                                   !.remaining = Remaining(day), !.base = day]
      BY <2>1 DEF AutoBegin
    <3>4. auto' \in AutoState /\ auto'.pc = "open" /\ auto'.todo = {}
      BY <3>1, <3>2, <3>3 DEF AutoState, AutoIdle
    <3> QED
      BY <2>1, <3>4 DEF AutoBegin, TypeOK, WritesAreSound, Exists
  <2>2. ASSUME NEW s \in Symbols, AutoConsider(s) PROVE TypeInv'
    <3>0. auto.left - 1 \in Nat /\ auto.tried \cup {s} \in SUBSET Symbols
      BY <2>2 DEF AutoConsider, TypeOK, AutoState
    <3>1. /\ auto' \in AutoState /\ auto'.pc \in {"open", "create"}
          /\ auto'.pc = "create" => auto'.cur \in Symbols
          /\ auto'.todo = auto.todo
      <4>1. CASE AlreadyHeld(s)
        <5>1. auto' = [auto EXCEPT !.left = @ - 1, !.tried = @ \cup {s}, !.pc = "open", !.cur = None]
          BY <2>2, <4>1 DEF AutoConsider
        <5> QED
          BY <3>0, <5>1 DEF TypeOK, AutoState
      <4>2. CASE ~AlreadyHeld(s)
        <5>1. auto' = [auto EXCEPT !.left = @ - 1, !.tried = @ \cup {s}, !.pc = "create", !.cur = s]
          BY <2>2, <4>2 DEF AutoConsider
        <5> QED
          BY <3>0, <5>1 DEF TypeOK, AutoState
      <4> QED
        BY <4>1, <4>2
    <3> QED
      BY <2>2, <3>1 DEF AutoConsider, TypeOK, WritesAreSound, Exists
  <2>3. ASSUME NEW t \in Trades, NEW src \in AutoSources, NEW raw \in RawSizes,
             NEW acked \in BOOLEAN, AutoCreate(t, src, raw, acked) PROVE TypeInv'
    <3> DEFINE size == AutoSize(RecommendedSize(raw, auto.base.deployed))
    <3>1. size \in Nat
      <4>1. raw \in Nat /\ auto.base.deployed \in Nat
        BY BudgetAssumption DEF TypeOK, AutoState, Session
      <4>2. size \in 0..TradeNotional
        BY <4>1, AutoSizeBound
      <4> QED
        BY <4>2, BudgetAssumption
    <3>2. /\ auto.cur \in Symbols /\ src \in Sources /\ ~Exists(t)
          /\ Insert(t, auto.cur, src, 0, size, "auto")
      BY <2>3 DEF AutoCreate, Fresh, WritesAreSound, Sources
    <3>3. /\ row' \in [Trades -> Row \cup {NoRow}]
          /\ \A u \in Trades : Exists(u) => Exists(u)'
      BY <3>1, <3>2, InsertType
    <3> HIDE DEF size
    <3>4. auto' = [auto EXCEPT !.pc = "open", !.cur = None,
                     !.ids   = IF acked THEN @ \cup {t} ELSE @,
                     !.spent = IF acked THEN @ + size ELSE @]
      BY <2>3 DEF AutoCreate, size
    <3>5. auto' \in AutoState /\ auto'.pc = "open" /\ auto'.todo = auto.todo
      <4>1. CASE acked
        <5>1. auto' = [auto EXCEPT !.pc = "open", !.cur = None, !.ids = @ \cup {t},
                                   !.spent = @ + size]
          BY <3>4, <4>1
        <5>2. auto.spent + size \in Nat /\ auto.ids \cup {t} \in SUBSET Trades
          BY <3>1 DEF TypeOK, AutoState
        <5> QED
          BY <5>1, <5>2 DEF TypeOK, AutoState
      <4>2. CASE ~acked
        BY <3>4, <4>2 DEF TypeOK, AutoState
      <4> QED
        BY <4>1, <4>2
    <3> QED
      BY <2>3, <3>3, <3>5 DEF AutoCreate, TypeOK, WritesAreSound, Exists, AutoState, ScalpState,
                                 EodState, ReqState
  <2>4. CASE AutoCreateFails
    BY <2>4 DEF TypeOK, WritesAreSound, AutoCreateFails, AutoState, AutoIdle, Session,
       NoSession, None, Exists
  <2>5. CASE AutoCommit
    <3>1. session' \in Session
      <4>1. Cardinality(auto.ids) \in Nat
        BY IdAssumption, FS_Subset, FS_CardinalityType DEF TypeOK, AutoState
      <4>2. CASE auto.ids = {}
        BY <2>5, <4>2 DEF AutoCommit, TypeOK
      <4>3. CASE auto.ids # {}
        <5>1. session' = [session EXCEPT !.deployed = auto.base.deployed + auto.spent,
                            !.total  = auto.base.total + Cardinality(auto.ids),
                            !.trades = auto.base.trades \cup auto.ids]
          BY <2>5, <4>3 DEF AutoCommit
        <5>2. /\ auto.base.deployed + auto.spent \in Nat
              /\ auto.base.total + Cardinality(auto.ids) \in Nat
              /\ auto.base.trades \cup auto.ids \in SUBSET Trades
          BY <4>1 DEF TypeOK, AutoState, Session
        <5> QED
          BY <5>1, <5>2 DEF TypeOK, Session
      <4> QED
        BY <4>2, <4>3
    <3> QED
      BY <2>5, <3>1 DEF AutoCommit, TypeOK, WritesAreSound, AutoState, AutoIdle, NoSession, Session, None, Exists
  <2>6. CASE AutoAbort
    BY <2>6 DEF TypeOK, WritesAreSound, AutoAbort, AutoState, AutoIdle, Session,
       NoSession, None, Exists
  <2>7. CASE FinaliseBegin
    BY <2>7 DEF TypeOK, WritesAreSound, FinaliseBegin, OpenRows, IsOpen, AutoState,
       AutoIdle, Session, NoSession, None, Exists
  <2>8. ASSUME NEW t \in Trades, FinaliseClose(t) PROVE TypeInv'
    <3>1. Exists(t) /\ Close(t, "EXPIRED") /\ "EXPIRED" \in Closed
      BY <2>8 DEF FinaliseClose, TypeOK, WritesAreSound, Closed, AutoState
    <3>2. /\ row' \in [Trades -> Row \cup {NoRow}]
          /\ \A u \in Trades : Exists(u) => Exists(u)'
      BY <3>1, CloseType
    <3>3. auto' \in AutoState /\ auto'.pc = "finalise" /\ auto'.todo \subseteq auto.todo
      BY <2>8 DEF FinaliseClose, TypeOK, AutoState
    <3>4. TypeOK'
      BY <2>8, <3>2, <3>3 DEF FinaliseClose, TypeOK
    <3>5. WritesAreSound'
      BY <2>8, <3>2, <3>3 DEF FinaliseClose, TypeOK, WritesAreSound, Exists, AutoState, ScalpState, EodState, ReqState
    <3> QED
      BY <3>4, <3>5
  <2>9. CASE FinaliseCommit
    BY <2>9 DEF TypeOK, WritesAreSound, FinaliseCommit, AutoState, AutoIdle, Session,
       NoSession, None, Exists
  <2> QED
    BY <1>1, <2>1, <2>2, <2>3, <2>4, <2>5, <2>6, <2>7, <2>8, <2>9 DEF AutoNext
<1>2. CASE ScalpNext
  <2>1. CASE ScalpBegin
    BY <2>1 DEF TypeOK, WritesAreSound, ScalpBegin, ScalpState, ScalpIdle, NoSignal,
       Exists
  <2>2. ASSUME NEW sig \in Signals, ScalpAttempt(sig) PROVE TypeInv'
    BY <2>2 DEF TypeOK, WritesAreSound, ScalpAttempt, GuardKeys, ScalpState,
       ScalpIdle, NoSignal, Exists
  <2>3. ASSUME NEW t \in Trades, ScalpCreate(t) PROVE TypeInv'
    <3>1. /\ ~Exists(t) /\ scalp.sig.sym \in Symbols /\ scalp.sig.src \in Sources
          /\ scalp.sig.at \in Nat
          /\ Insert(t, scalp.sig.sym, scalp.sig.src, scalp.sig.at, 0, "scalper")
      BY <2>3, IdAssumption DEF ScalpCreate, Fresh, WritesAreSound, Signals, Sources
    <3>2. /\ row' \in [Trades -> Row \cup {NoRow}]
          /\ \A u \in Trades : Exists(u) => Exists(u)'
      BY <3>1, InsertType
    <3>3. scalp' \in ScalpState /\ scalp'.pc = "scan" /\ scalp'.todo = scalp.todo
      BY <2>3 DEF ScalpCreate, TypeOK, ScalpState, NoSignal
    <3>4. TypeOK'
      BY <2>3, <3>2, <3>3 DEF ScalpCreate, TypeOK
    <3>5. WritesAreSound'
      BY <2>3, <3>2, <3>3 DEF ScalpCreate, TypeOK, WritesAreSound, Exists, AutoState,
                            ScalpState, EodState, ReqState
    <3> QED
      BY <3>4, <3>5
  <2>4. CASE ScalpCallFails
    BY <2>4 DEF TypeOK, WritesAreSound, ScalpCallFails, ScalpState, ScalpIdle,
       NoSignal, Exists
  <2>5. CASE ResolveBegin
    BY <2>5 DEF TypeOK, WritesAreSound, ResolveBegin, OpenRows, IsOpen, None,
       ScalpState, ScalpIdle, NoSignal, Exists
  <2>6. ASSUME NEW t \in Trades, NEW outcome \in {"HIT", "EXPIRED"}, ResolveClose(t, outcome) PROVE TypeInv'
    <3>1. Exists(t) /\ Close(t, outcome) /\ outcome \in Closed
      BY <2>6 DEF ResolveClose, TypeOK, WritesAreSound, Closed, ScalpState
    <3>2. /\ row' \in [Trades -> Row \cup {NoRow}]
          /\ \A u \in Trades : Exists(u) => Exists(u)'
      BY <3>1, CloseType
    <3>3. scalp' \in ScalpState /\ scalp'.pc = "resolve" /\ scalp'.todo \subseteq scalp.todo
      BY <2>6 DEF ResolveClose, TypeOK, ScalpState
    <3>4. TypeOK'
      BY <2>6, <3>2, <3>3 DEF ResolveClose, TypeOK
    <3>5. WritesAreSound'
      BY <2>6, <3>2, <3>3 DEF ResolveClose, TypeOK, WritesAreSound, Exists, AutoState, ScalpState, EodState, ReqState
    <3> QED
      BY <3>4, <3>5
  <2>7. CASE ResolveEnd
    BY <2>7 DEF TypeOK, WritesAreSound, ResolveEnd, ScalpState, ScalpIdle, NoSignal,
       Exists
  <2> QED
    BY <1>2, <2>1, <2>2, <2>3, <2>4, <2>5, <2>6, <2>7 DEF ScalpNext
<1>3. CASE EodNext
  <2>1. CASE EodBegin
    BY <2>1 DEF TypeOK, WritesAreSound, EodBegin, OpenRows, IsOpen, None, EodState,
       EodIdle, Exists
  <2>2. ASSUME NEW t \in Trades, EodClose(t) PROVE TypeInv'
    <3>1. Exists(t) /\ Close(t, "EXPIRED") /\ "EXPIRED" \in Closed
      BY <2>2 DEF EodClose, TypeOK, WritesAreSound, Closed, EodState
    <3>2. /\ row' \in [Trades -> Row \cup {NoRow}]
          /\ \A u \in Trades : Exists(u) => Exists(u)'
      BY <3>1, CloseType
    <3>3. eod' \in EodState /\ eod'.todo \subseteq eod.todo
      BY <2>2 DEF EodClose, TypeOK, EodState
    <3>4. TypeOK'
      BY <2>2, <3>2, <3>3 DEF EodClose, TypeOK
    <3>5. WritesAreSound'
      BY <2>2, <3>2, <3>3 DEF EodClose, TypeOK, WritesAreSound, Exists, AutoState, ScalpState, EodState, ReqState
    <3> QED
      BY <3>4, <3>5
  <2>3. CASE EodEnd
    BY <2>3 DEF TypeOK, WritesAreSound, EodEnd, EodState, EodIdle, Exists
  <2>4. CASE EodAbort
    BY <2>4 DEF TypeOK, WritesAreSound, EodAbort, EodState, EodIdle, Exists
  <2> QED
    BY <1>3, <2>1, <2>2, <2>3, <2>4 DEF EodNext
<1>4. CASE RequestNext
  <2>1. ASSUME NEW r \in Requests, NEW s \in Symbols, NEW src \in AutoSources, 
             ManualBegin(r, s, src) PROVE TypeInv'
    BY <2>1 DEF TypeOK, WritesAreSound, ManualBegin, ReqState, ReqIdle, Exists
  <2>2. ASSUME NEW r \in Requests, NEW t \in Trades, ManualCreate(r, t) PROVE TypeInv'
    <3>1. /\ ~Exists(t) /\ req[r].sym \in Symbols /\ req[r].src \in Sources
          /\ Insert(t, req[r].sym, req[r].src, 0, 0, "manual")
      BY <2>2 DEF ManualCreate, Fresh, WritesAreSound, Sources
    <3>2. /\ row' \in [Trades -> Row \cup {NoRow}]
          /\ \A u \in Trades : Exists(u) => Exists(u)'
      BY <3>1, InsertType
    <3>3. /\ req' \in [Requests -> ReqState]
          /\ \A q \in Requests : /\ req'[q].pc = "manual" => req'[q] = req[q]
                               /\ req'[q].todo \subseteq req[q].todo
      BY <2>2 DEF ManualCreate, TypeOK, ReqState, ReqIdle
    <3>4. TypeOK'
      BY <2>2, <3>2, <3>3 DEF ManualCreate, TypeOK
    <3>5. WritesAreSound'
      BY <2>2, <3>2, <3>3 DEF ManualCreate, TypeOK, WritesAreSound, Exists, AutoState,
                            ScalpState, EodState, ReqState
    <3> QED
      BY <3>4, <3>5
  <2>3. ASSUME NEW r \in Requests, NEW t \in Trades, CancelBegin(r, t) PROVE TypeInv'
    BY <2>3 DEF TypeOK, WritesAreSound, CancelBegin, IsOpen, None, ReqState, ReqIdle,
       Exists
  <2>4. ASSUME NEW r \in Requests, NEW t \in Trades, CancelCommit(r, t) PROVE TypeInv'
    <3>1. Exists(t) /\ Close(t, "CANCELLED") /\ "CANCELLED" \in Closed
      BY <2>4 DEF CancelCommit, TypeOK, WritesAreSound, Closed, ReqState
    <3>2. /\ row' \in [Trades -> Row \cup {NoRow}]
          /\ \A u \in Trades : Exists(u) => Exists(u)'
      BY <3>1, CloseType
    <3>3. /\ req' \in [Requests -> ReqState]
          /\ \A q \in Requests : /\ req'[q].pc = "manual" => req'[q] = req[q]
                               /\ req'[q].todo \subseteq req[q].todo
      BY <2>4 DEF CancelCommit, TypeOK, ReqState, ReqIdle
    <3>4. TypeOK'
      BY <2>4, <3>2, <3>3 DEF CancelCommit, TypeOK
    <3>5. WritesAreSound'
      BY <2>4, <3>2, <3>3 DEF CancelCommit, TypeOK, WritesAreSound, Exists, AutoState, ScalpState, EodState, ReqState
    <3> QED
      BY <3>4, <3>5
  <2>5. ASSUME NEW r \in Requests, CloseAllBegin(r) PROVE TypeInv'
    <3>1. OpenRows \in SUBSET Trades /\ (\A t \in OpenRows : Exists(t)) /\ MarketOpen \in BOOLEAN
      BY DEF OpenRows, IsOpen, Exists, None, MarketOpen
    <3>2. [ReqIdle EXCEPT !.pc = "closeAll", !.todo = OpenRows, !.market = MarketOpen] \in ReqState
      BY <3>1 DEF ReqIdle, ReqState
    <3> HIDE DEF OpenRows, MarketOpen
    <3> QED
      BY <2>5, <3>1, <3>2 DEF CloseAllBegin, TypeOK, WritesAreSound, Exists, ReqIdle
  <2>6. ASSUME NEW r \in Requests, NEW t \in Trades, NEW outcome \in Closed, 
             CloseAllClose(r, t, outcome) PROVE TypeInv'
    <3>1. Exists(t) /\ Close(t, outcome) /\ outcome \in Closed
      BY <2>6 DEF CloseAllClose, TypeOK, WritesAreSound, Closed, ReqState
    <3>2. /\ row' \in [Trades -> Row \cup {NoRow}]
          /\ \A u \in Trades : Exists(u) => Exists(u)'
      BY <3>1, CloseType
    <3>3. /\ req' \in [Requests -> ReqState]
          /\ \A q \in Requests : /\ req'[q].pc = "manual" => req'[q] = req[q]
                               /\ req'[q].todo \subseteq req[q].todo
      BY <2>6 DEF CloseAllClose, TypeOK, ReqState
    <3>4. TypeOK'
      BY <2>6, <3>2, <3>3 DEF CloseAllClose, TypeOK
    <3>5. WritesAreSound'
      BY <2>6, <3>2, <3>3 DEF CloseAllClose, TypeOK, WritesAreSound, Exists, AutoState, ScalpState, EodState, ReqState
    <3> QED
      BY <3>4, <3>5
  <2>7. ASSUME NEW r \in Requests, RequestEnd(r) PROVE TypeInv'
    BY <2>7 DEF TypeOK, WritesAreSound, RequestEnd, ReqState, ReqIdle, Exists
  <2> QED
    BY <1>4, <2>1, <2>2, <2>3, <2>4, <2>5, <2>6, <2>7 DEF RequestNext
<1>5. CASE EnvNext
  <2>1. CASE Advance
    BY <2>1 DEF TypeOK, WritesAreSound, Advance, Phases, Exists
  <2>2. CASE WorkerCrash
    BY <2>2, BudgetAssumption DEF TypeOK, WritesAreSound, WorkerCrash, AutoIdle,
       AutoState, Session, NoSession, None, ScalpState, ScalpIdle, NoSignal, EodState,
       EodIdle, Exists
  <2>3. CASE LockExpires
    BY <2>3 DEF TypeOK, WritesAreSound, LockExpires, Exists
  <2>4. ASSUME NEW k \in GuardKeys, ClaimExpires(k) PROVE TypeInv'
    BY <2>4 DEF TypeOK, WritesAreSound, ClaimExpires, Exists
  <2> QED
    BY <1>5, <2>1, <2>2, <2>3, <2>4 DEF EnvNext
<1>6. CASE UNCHANGED vars
  BY <1>6 DEF vars, TypeOK, WritesAreSound, Exists
<1> QED
  BY <1>1, <1>2, <1>3, <1>4, <1>5, <1>6 DEF Next

\* Types and work lists are sound in every reachable state.
LEMMA TypeAlways == Spec => []TypeInv
BY TypeInit, TypeStep, PTL DEF Spec

\* Type correctness: no interleaving of the jobs, the requests and a crash
\* makes the table, the session row or a work list ill-formed.
THEOREM TypeCorrect == Spec => []TypeOK
<1>1. TypeInv => TypeOK
  BY DEF TypeInv
<1> QED
  BY <1>1, TypeAlways, PTL

-----------------------------------------------------------------------------
(* The budget *)

\* The copy of the session row a tick works from is the row itself, because
\* only the tick's own job writes it, or the empty row where the read failed;
\* a create is under way only when a whole base notional is left, and no size
\* exceeds that.
BudgetInv ==
  /\ session.deployed <= DailyBudget
  /\ auto.pc \in {"open", "create"} =>
       /\ auto.base \in {session, NoSession}
       /\ auto.remaining = Remaining(auto.base) /\ auto.spent <= auto.remaining
  /\ auto.pc = "create" => auto.spent + TradeNotional <= auto.remaining
  /\ auto.pc \in {"idle", "finalise"} => auto.base = NoSession /\ auto.spent = 0

\* The session row and the tick's local state are the auto trader's alone,
\* but for a crash.
LEMMA OthersLeaveAuto ==
  ASSUME TypeInv, [Next]_vars, ~AutoNext
  PROVE  session' = session /\ (auto' = auto \/ auto' = AutoIdle)
BY DEF Next, ScalpNext, EodNext, RequestNext, EnvNext, vars,
       ScalpBegin, ScalpAttempt, ScalpCreate, ScalpCallFails, ResolveBegin, ResolveClose, ResolveEnd,
       EodBegin, EodClose, EodEnd, EodAbort, ManualBegin, ManualCreate, CancelBegin,
       CancelCommit, CloseAllBegin, CloseAllClose, RequestEnd, Advance, WorkerCrash,
       LockExpires, ClaimExpires

\* Every step keeps the account of the budget.
LEMMA BudgetStep == TypeInv /\ BudgetInv /\ [Next]_vars => BudgetInv'
<1> SUFFICES ASSUME TypeInv, BudgetInv, [Next]_vars PROVE BudgetInv'
  OBVIOUS
<1> USE BudgetAssumption DEF TypeInv, TypeOK, BudgetInv, AutoState, Session, Remaining, Positive
<1>1. CASE ~AutoNext
  <2>1. session' = session /\ (auto' = auto \/ auto' = AutoIdle)
    BY <1>1, OthersLeaveAuto
  <2>2. CASE auto' = auto
    BY <2>1, <2>2
  <2>3. CASE auto' = AutoIdle
    BY <2>1, <2>3 DEF AutoIdle
  <2> QED
    BY <2>1, <2>2, <2>3
<1>2. ASSUME NEW day \in {session, NoSession}, AutoBegin(day) PROVE BudgetInv'
  BY <1>2 DEF AutoBegin, AutoIdle, NoSession
<1>3. ASSUME NEW s \in Symbols, AutoConsider(s) PROVE BudgetInv'
  <2>1. /\ auto'.pc \in {"open", "create"} /\ auto'.base = auto.base
        /\ auto'.remaining = auto.remaining /\ auto'.spent = auto.spent
    BY <1>3 DEF AutoConsider
  <2> QED
    BY <1>3, <2>1 DEF AutoConsider, BudgetAllows
<1>4. ASSUME NEW t \in Trades, NEW src \in AutoSources, NEW raw \in RawSizes,
             NEW acked \in BOOLEAN, AutoCreate(t, src, raw, acked) PROVE BudgetInv'
  <2> DEFINE size == AutoSize(RecommendedSize(raw, auto.base.deployed))
  <2>1. size \in 0..TradeNotional
    BY AutoSizeBound
  <2> HIDE DEF size
  <2>2. /\ auto'.pc = "open" /\ auto'.base = auto.base /\ auto'.remaining = auto.remaining
        /\ auto'.spent = IF acked THEN auto.spent + size ELSE auto.spent
    BY <1>4 DEF AutoCreate, size
  <2> QED
    BY <1>4, <2>1, <2>2 DEF AutoCreate
<1>5. CASE AutoCreateFails
  BY <1>5 DEF AutoCreateFails
<1>6. CASE AutoCommit
  <2>1. auto.base.deployed + auto.spent <= DailyBudget
    <3>1. auto.base.deployed <= DailyBudget /\ auto.remaining = DailyBudget - auto.base.deployed
      BY <1>6 DEF AutoCommit, NoSession
    <3> QED
      BY <1>6, <3>1 DEF AutoCommit
  <2>2. session'.deployed <= DailyBudget
    BY <1>6, <2>1 DEF AutoCommit
  <2> QED
    BY <1>6, <2>2 DEF AutoCommit, AutoIdle
<1>7. CASE AutoAbort
  BY <1>7 DEF AutoAbort, AutoIdle
<1>8. CASE FinaliseBegin
  BY <1>8 DEF FinaliseBegin, AutoIdle
<1>9. ASSUME NEW t \in Trades, FinaliseClose(t) PROVE BudgetInv'
  BY <1>9 DEF FinaliseClose
<1>10. CASE FinaliseCommit
  BY <1>10 DEF FinaliseCommit, AutoIdle
<1> QED
  BY <1>1, <1>2, <1>3, <1>4, <1>5, <1>6, <1>7, <1>8, <1>9, <1>10 DEF AutoNext

\* The session row never records more than DAILY_BUDGET, whatever the sizes
\* the pipeline recommends and wherever a tick fails.
THEOREM BudgetIsKept == Spec => []BudgetKept
<1>1. Init => BudgetInv
  BY BudgetAssumption DEF Init, BudgetInv, NoSession, AutoIdle
<1>2. TypeInv /\ BudgetInv => BudgetKept
  BY BudgetAssumption
     DEF TypeInv, TypeOK, BudgetInv, BudgetKept, AutoState, Session, Remaining, Positive, NoSession
<1> QED
  BY <1>1, <1>2, TypeAlways, BudgetStep, PTL DEF Spec

-----------------------------------------------------------------------------
(* How the table changes *)

\* Whatever a step does, the rows there stay, keep all but their status, and
\* none opens again.
KeepsRows ==
  \A t \in Trades : row[t].st # None =>
    /\ row'[t].st # None
    /\ row'[t].st = "OPEN" => row[t].st = "OPEN"
    /\ row'[t].sym = row[t].sym /\ row'[t].src = row[t].src /\ row'[t].at = row[t].at
    /\ row'[t].by = row[t].by /\ row'[t].size = row[t].size

\* A row that appears is the only one, it is open, and its creator had set out
\* to create it.
CreatedBySetOut(t) ==
  /\ row'[t].st = "OPEN"
  /\ \A u \in Trades \ {t} : row'[u] = row[u]
  /\ \/ /\ row'[t].by = "auto" /\ row'[t].sym = auto.cur /\ row'[t].src \in AutoSources
        /\ auto.pc = "create" /\ auto'.pc = "open" /\ auto'.left = auto.left
        /\ scalp' = scalp
     \/ /\ row'[t].by = "scalper"
        /\ row'[t].sym = scalp.sig.sym /\ row'[t].src = scalp.sig.src /\ row'[t].at = scalp.sig.at
        /\ scalp.pc = "create" /\ scalp'.pc = "scan" /\ auto' = auto
     \/ row'[t].by = "manual" /\ auto' = auto /\ scalp' = scalp

OneRowChanges ==
  row' = row \/ \E t \in Trades : \A u \in Trades \ {t} : row'[u] = row[u]

RowsAreSound ==
  /\ KeepsRows
  /\ OneRowChanges
  /\ \A t \in Trades : row[t].st = None /\ row'[t].st # None => CreatedBySetOut(t)

\* A close touches one row and leaves it there, closed.
LEMMA CloseKeeps ==
  ASSUME TypeInv, NEW t \in Trades, Exists(t), NEW outcome \in Closed, Close(t, outcome)
  PROVE  RowsAreSound
<1>1. row[t] \in Row
  BY DEF TypeInv, TypeOK, Exists, NoRow
<1>2. row' = [row EXCEPT ![t] = [row[t] EXCEPT !.st = outcome]]
  BY <1>1 DEF Close, TypeInv, TypeOK
<1>3. outcome # None /\ outcome # "OPEN"
  BY DEF Closed, None
<1>4. \A u \in Trades \ {t} : row'[u] = row[u]
  BY <1>2 DEF TypeInv, TypeOK
<1>5. row'[t] = [row[t] EXCEPT !.st = outcome]
  BY <1>2 DEF TypeInv, TypeOK
<1> QED
  BY <1>1, <1>3, <1>4, <1>5 DEF RowsAreSound, KeepsRows, OneRowChanges, Exists, Row

\* A create adds one row and touches no other.
LEMMA InsertKeeps ==
  ASSUME TypeInv, NEW t \in Trades, ~Exists(t), NEW sym, NEW src, NEW at, NEW size, NEW by,
         Insert(t, sym, src, at, size, by)
  PROVE  /\ KeepsRows
         /\ \A u \in Trades \ {t} : row'[u] = row[u]
         /\ row'[t].st = "OPEN"
         /\ row'[t].sym = sym /\ row'[t].src = src /\ row'[t].at = at /\ row'[t].by = by
<1>1. /\ \A u \in Trades \ {t} : row'[u] = row[u]
      /\ row'[t] = [st |-> "OPEN", sym |-> sym, src |-> src, at |-> at, size |-> size, by |-> by]
  BY DEF Insert, TypeInv, TypeOK
<1> QED
  BY <1>1 DEF KeepsRows, Exists

\* Whatever job or request takes a step, the table changes soundly.
LEMMA RowStep == TypeInv /\ [Next]_vars => RowsAreSound
<1> SUFFICES ASSUME TypeInv, [Next]_vars PROVE RowsAreSound
  OBVIOUS
<1> USE DEF TypeInv
<1>1. ASSUME row' = row PROVE RowsAreSound
  BY <1>1 DEF RowsAreSound, KeepsRows, OneRowChanges
<1>2. ASSUME NEW t \in Trades, NEW src \in AutoSources, NEW raw \in RawSizes,
             NEW acked \in BOOLEAN, AutoCreate(t, src, raw, acked) PROVE RowsAreSound
  <2>1. /\ KeepsRows
        /\ row'[t].st = "OPEN" /\ \A u \in Trades \ {t} : row'[u] = row[u]
        /\ row'[t].sym = auto.cur /\ row'[t].src = src /\ row'[t].by = "auto"
    BY <1>2, InsertKeeps DEF AutoCreate, Fresh
  <2>2. /\ auto.pc = "create" /\ auto'.pc = "open" /\ auto'.left = auto.left /\ scalp' = scalp
    BY <1>2 DEF AutoCreate, TypeOK, AutoState
  <2> QED
    BY <2>1, <2>2 DEF RowsAreSound, OneRowChanges, CreatedBySetOut
<1>3. ASSUME NEW t \in Trades, ScalpCreate(t) PROVE RowsAreSound
  <2>1. /\ KeepsRows
        /\ row'[t].st = "OPEN" /\ \A u \in Trades \ {t} : row'[u] = row[u]
        /\ row'[t].sym = scalp.sig.sym /\ row'[t].src = scalp.sig.src
        /\ row'[t].at = scalp.sig.at /\ row'[t].by = "scalper"
    BY <1>3, InsertKeeps DEF ScalpCreate, Fresh
  <2>2. scalp.pc = "create" /\ scalp'.pc = "scan" /\ auto' = auto
    BY <1>3 DEF ScalpCreate, TypeOK, ScalpState
  <2> QED
    BY <2>1, <2>2 DEF RowsAreSound, OneRowChanges, CreatedBySetOut
<1>4. ASSUME NEW r \in Requests, NEW t \in Trades, ManualCreate(r, t) PROVE RowsAreSound
  <2>1. /\ KeepsRows
        /\ row'[t].st = "OPEN" /\ \A u \in Trades \ {t} : row'[u] = row[u]
        /\ row'[t].by = "manual" /\ auto' = auto /\ scalp' = scalp
    BY <1>4, InsertKeeps DEF ManualCreate, Fresh
  <2> QED
    BY <2>1 DEF RowsAreSound, OneRowChanges, CreatedBySetOut
<1>5. ASSUME NEW t \in Trades, NEW outcome \in {"HIT", "EXPIRED"},
             FinaliseClose(t) \/ ResolveClose(t, outcome) \/ EodClose(t) PROVE RowsAreSound
  <2>1. Exists(t) /\ "EXPIRED" \in Closed /\ outcome \in Closed
    BY <1>5 DEF FinaliseClose, ResolveClose, EodClose, WritesAreSound, Closed
  <2> QED
    BY <1>5, <2>1, CloseKeeps DEF FinaliseClose, ResolveClose, EodClose
<1>6. ASSUME NEW r \in Requests, NEW t \in Trades, NEW outcome \in Closed,
             CancelCommit(r, t) \/ CloseAllClose(r, t, outcome) PROVE RowsAreSound
  <2>1. Exists(t) /\ "CANCELLED" \in Closed
    BY <1>6 DEF CancelCommit, CloseAllClose, WritesAreSound, Closed
  <2> QED
    BY <1>6, <2>1, CloseKeeps DEF CancelCommit, CloseAllClose
<1>7. CASE AutoNext
  <2>1. (\E day : AutoBegin(day)) \/ (\E s \in Symbols : AutoConsider(s)) \/ AutoCreateFails \/ AutoCommit
          \/ AutoAbort \/ FinaliseBegin \/ FinaliseCommit => row' = row
    BY DEF AutoBegin, AutoConsider, AutoCreateFails, AutoCommit, AutoAbort, FinaliseBegin,
           FinaliseCommit
  <2> QED
    BY <1>7, <2>1, <1>1, <1>2, <1>5 DEF AutoNext
<1>8. CASE ScalpNext
  <2>1. ScalpBegin \/ (\E sig \in Signals : ScalpAttempt(sig)) \/ ScalpCallFails \/ ResolveBegin
          \/ ResolveEnd => row' = row
    BY DEF ScalpBegin, ScalpAttempt, ScalpCallFails, ResolveBegin, ResolveEnd
  <2> QED
    BY <1>8, <2>1, <1>1, <1>3, <1>5 DEF ScalpNext
<1>9. CASE EodNext
  BY <1>9, <1>1, <1>5 DEF EodNext, EodBegin, EodEnd, EodAbort
<1>10. CASE RequestNext
  <2> PICK r \in Requests :
         \/ \E s \in Symbols, src \in AutoSources : ManualBegin(r, s, src)
         \/ \E t \in Trades : ManualCreate(r, t)
         \/ \E t \in Trades : CancelBegin(r, t)
         \/ \E t \in Trades : CancelCommit(r, t)
         \/ CloseAllBegin(r)
         \/ \E t \in Trades, outcome \in Closed : CloseAllClose(r, t, outcome)
         \/ RequestEnd(r)
    BY <1>10 DEF RequestNext
  <2>1. (\E s \in Symbols, src \in AutoSources : ManualBegin(r, s, src))
          \/ (\E t \in Trades : CancelBegin(r, t)) \/ CloseAllBegin(r) \/ RequestEnd(r)
        => row' = row
    BY DEF ManualBegin, CancelBegin, CloseAllBegin, RequestEnd
  <2>2. "CANCELLED" \in Closed
    BY DEF Closed
  <2> QED
    BY <2>1, <2>2, <1>1, <1>4, <1>6
<1>11. CASE EnvNext
  BY <1>11, <1>1 DEF EnvNext, Advance, WorkerCrash, LockExpires, ClaimExpires
<1>12. CASE UNCHANGED vars
  BY <1>12, <1>1 DEF vars
<1> QED
  BY <1>7, <1>8, <1>9, <1>10, <1>11, <1>12 DEF Next

-----------------------------------------------------------------------------
(* The session row against the table *)

\* The sum of the notionals that table r has for the rows T.
SizesIn(r, T) == SumFunction([t \in T |-> r[t].size])

\* A session row, or a tick's copy of it, accounts for rows that are there.
Accounts(r, day) ==
  /\ \A t \in day.trades : r[t].st # None
  /\ day.total = Cardinality(day.trades)
  /\ day.deployed = SizesIn(r, day.trades)

\* The tick's copy is a true account too, the empty one if the read failed;
\* what the tick has opened since is not in it, and spent is what that cost.
LedgerInv ==
  /\ Accounts(row, session)
  /\ Accounts(row, auto.base)
  /\ \A t \in auto.ids : row[t].st # None /\ t \notin auto.base.trades
  /\ auto.spent = SizesIn(row, auto.ids)

\* A table restricted to rows that are there.
Filled(r, T) == T \in SUBSET Trades /\ \A t \in T : r[t] \in Row

LEMMA SizeType ==
  ASSUME NEW r, NEW T, Filled(r, T)
  PROVE  IsFiniteSet(T) /\ \A t \in T : r[t].size \in Int
BY IdAssumption, FS_Subset DEF Filled, Row

LEMMA NoSizes == ASSUME NEW r PROVE SizesIn(r, {}) = 0 /\ Accounts(r, NoSession)
<1>1. SizesIn(r, {}) = 0
  BY SumEmpty DEF SizesIn, SumFunction
<1> QED
  BY <1>1, FS_EmptySet DEF Accounts, NoSession

\* Sums over two lists of rows with none in common add up.
LEMMA SizesUnion ==
  ASSUME NEW r, NEW T, NEW U, Filled(r, T), Filled(r, U), T \cap U = {}
  PROVE  /\ SizesIn(r, T \cup U) = SizesIn(r, T) + SizesIn(r, U)
         /\ Cardinality(T \cup U) = Cardinality(T) + Cardinality(U)
<1> DEFINE f == [t \in T \cup U |-> r[t].size]
<1>1. IsFiniteSet(T) /\ IsFiniteSet(U) /\ \A t \in T \cup U : f[t] \in Int
  BY SizeType
<1>2. SizesIn(r, T \cup U) = SumFunctionOnSet(f, T) + SumFunctionOnSet(f, U)
  BY <1>1, SumUnion DEF SizesIn, SumFunction
<1>3. SizesIn(r, T) = SumFunctionOnSet(f, T)
  BY <1>1, SumSame DEF SizesIn, SumFunction
<1>4. SizesIn(r, U) = SumFunctionOnSet(f, U)
  BY <1>1, SumSame DEF SizesIn, SumFunction
<1>5. Cardinality(T \cup U) = Cardinality(T) + Cardinality(U)
  <2>1. Cardinality(T \cup U) = Cardinality(T) + Cardinality(U) - Cardinality(T \cap U)
    BY <1>1, FS_Union
  <2>2. Cardinality(T \cap U) = 0
    BY FS_EmptySet
  <2> QED
    BY <1>1, <2>1, <2>2, FS_CardinalityType
<1> QED
  BY <1>2, <1>3, <1>4, <1>5

LEMMA SizesOfOne ==
  ASSUME NEW r, NEW t, r[t].size \in Int
  PROVE  SizesIn(r, {t}) = r[t].size
<1> DEFINE f == [u \in {t} |-> r[u].size]
<1>1. IsFiniteSet({t}) /\ {t} \ {t} = {}
  BY FS_Singleton
<1>2. SumFunctionOnSet(f, {t}) = f[t] + SumFunctionOnSet(f, {})
  <2>1. SumFunctionOnSet(f, {t}) = f[t] + SumFunctionOnSet(f, {t} \ {t})
    BY <1>1, SumRemove
  <2> QED
    BY <1>1, <2>1
<1>3. SumFunctionOnSet(f, {}) = 0
  BY SumEmpty
<1>4. SizesIn(r, {t}) = SumFunctionOnSet(f, {t}) /\ f[t] = r[t].size
  BY DEF SizesIn, SumFunction
<1> HIDE DEF f
<1> QED
  BY <1>2, <1>3, <1>4

\* Whatever a step does, rows that are there keep their notionals, so that an
\* account of them stays true.
LEMMA AccountsKept ==
  ASSUME TypeInv, [Next]_vars
  PROVE  /\ \A T \in SUBSET Trades : (\A t \in T : row[t].st # None) =>
              (\A t \in T : row'[t].st # None) /\ SizesIn(row', T) = SizesIn(row, T)
         /\ \A day \in Session : Accounts(row, day) => Accounts(row', day)
<1>1. \A t \in Trades : row[t].st # None => row'[t].st # None /\ row'[t].size = row[t].size
  BY RowStep DEF RowsAreSound, KeepsRows
<1>2. ASSUME NEW T \in SUBSET Trades, \A t \in T : row[t].st # None
      PROVE  (\A t \in T : row'[t].st # None) /\ SizesIn(row', T) = SizesIn(row, T)
  <2>1. [t \in T |-> row'[t].size] = [t \in T |-> row[t].size]
    BY <1>1, <1>2
  <2> QED
    BY <1>1, <1>2, <2>1 DEF SizesIn
<1>3. ASSUME NEW day \in Session, Accounts(row, day) PROVE Accounts(row', day)
  <2>1. day.trades \in SUBSET Trades
    BY DEF Session
  <2> QED
    BY <1>2, <1>3, <2>1 DEF Accounts
<1> QED
  BY <1>2, <1>3

\* A step that leaves the session row alone keeps the account if it forgets
\* the tick or leaves its sums alone.
LEMMA LedgerFrame ==
  ASSUME TypeInv, LedgerInv, [Next]_vars, session' = session,
         \/ auto' = AutoIdle
         \/ auto'.base = auto.base /\ auto'.ids = auto.ids /\ auto'.spent = auto.spent
  PROVE  LedgerInv'
<1>1. session \in Session /\ auto.base \in Session /\ auto.ids \in SUBSET Trades
  BY DEF TypeInv, TypeOK, AutoState
<1>2. Accounts(row', session) /\ Accounts(row', auto.base)
  BY <1>1, AccountsKept DEF LedgerInv
<1>3. (\A t \in auto.ids : row'[t].st # None) /\ SizesIn(row', auto.ids) = auto.spent
  BY <1>1, AccountsKept DEF LedgerInv
<1>4. CASE auto' = AutoIdle
  BY <1>2, <1>4, NoSizes DEF LedgerInv, AutoIdle
<1>5. CASE auto'.base = auto.base /\ auto'.ids = auto.ids /\ auto'.spent = auto.spent
  BY <1>2, <1>3, <1>5 DEF LedgerInv
<1> QED
  BY <1>4, <1>5

\* A create adds its size to the tick's sum when its row is acknowledged; an
\* unacknowledged row is in no account.
LEMMA LedgerCreate ==
  ASSUME TypeInv, TypeInv', LedgerInv, [Next]_vars,
         NEW t \in Trades, NEW src \in AutoSources, NEW raw \in RawSizes,
         NEW acked \in BOOLEAN, AutoCreate(t, src, raw, acked)
  PROVE  LedgerInv'
<1> DEFINE size == AutoSize(RecommendedSize(raw, auto.base.deployed))
<1>1. auto \in AutoState /\ session \in Session /\ auto.base \in Session
      /\ auto.ids \in SUBSET Trades /\ auto.base.deployed \in Nat
  BY DEF TypeInv, TypeOK, AutoState, Session
<1>2. row[t].st = None /\ row'[t].st # None /\ row'[t].size = size
  BY DEF AutoCreate, Fresh, Insert, Exists, None, TypeInv, TypeOK
<1>3. size \in Nat
  <2>1. raw \in Nat /\ TradeNotional \in Nat
    BY BudgetAssumption
  <2>2. size \in 0..TradeNotional
    BY <1>1, <2>1, AutoSizeBound
  <2> HIDE DEF size
  <2> QED
    BY <2>1, <2>2
<1> HIDE DEF size
<1>4. /\ session' = session /\ auto'.base = auto.base
      /\ auto'.ids = IF acked THEN auto.ids \cup {t} ELSE auto.ids
      /\ auto'.spent = IF acked THEN auto.spent + size ELSE auto.spent
  BY <1>1 DEF AutoCreate, AutoState, size
<1>5. CASE ~acked
  BY <1>4, <1>5, LedgerFrame
<1>6. CASE acked
  <2>1. Accounts(row', session) /\ Accounts(row', auto.base)
    BY <1>1, AccountsKept DEF LedgerInv
  <2>2. t \notin auto.base.trades /\ t \notin auto.ids
    BY <1>2 DEF LedgerInv, Accounts
  <2>3. (\A u \in auto.ids : row'[u].st # None) /\ SizesIn(row', auto.ids) = auto.spent
    BY <1>1, AccountsKept DEF LedgerInv
  <2>4. \A u \in Trades : row'[u].st # None => row'[u] \in Row
    BY DEF TypeInv, TypeOK, NoRow
  <2>5. Filled(row', auto.ids) /\ Filled(row', {t})
    BY <1>1, <1>2, <2>3, <2>4 DEF Filled
  <2>6. SizesIn(row', auto.ids \cup {t}) = auto.spent + size
    <3>1. SizesIn(row', {t}) = size
      <4>1. row'[t].size \in Int
        BY <1>2, <1>3
      <4>2. SizesIn(row', {t}) = row'[t].size
        BY <4>1, SizesOfOne
      <4> QED
        BY <1>2, <4>2
    <3>2. auto.ids \cap {t} = {}
      BY <2>2
    <3>3. SizesIn(row', auto.ids \cup {t}) = SizesIn(row', auto.ids) + SizesIn(row', {t})
      BY <2>5, <3>2, SizesUnion
    <3> QED
      BY <2>3, <3>1, <3>3
  <2> QED
    BY <1>2, <1>4, <1>6, <2>1, <2>2, <2>3, <2>6 DEF LedgerInv
<1> QED
  BY <1>5, <1>6

\* upsertSession adds what the tick opened to its copy.
LEMMA LedgerCommit ==
  ASSUME TypeInv, LedgerInv, [Next]_vars, AutoCommit
  PROVE  LedgerInv'
<1>1. auto \in AutoState /\ session \in Session /\ auto.base \in Session
      /\ auto.ids \in SUBSET Trades /\ auto.base.trades \in SUBSET Trades
  BY DEF TypeInv, TypeOK, AutoState, Session
<1>2. row' = row /\ auto' = AutoIdle
  BY DEF AutoCommit
<1>3. CASE auto.ids = {}
  BY <1>2, <1>3, LedgerFrame DEF AutoCommit
<1>4. CASE auto.ids # {}
  <2>1. /\ session'.trades = auto.base.trades \cup auto.ids
        /\ session'.total = auto.base.total + Cardinality(auto.ids)
        /\ session'.deployed = auto.base.deployed + auto.spent
    BY <1>1, <1>4 DEF AutoCommit, Session
  <2>2. \A u \in Trades : row[u].st # None => row[u] \in Row
    BY DEF TypeInv, TypeOK, NoRow
  <2>3. /\ Filled(row, auto.ids) /\ Filled(row, auto.base.trades)
        /\ auto.base.trades \cap auto.ids = {}
    BY <1>1, <2>2 DEF Filled, LedgerInv, Accounts
  <2>4. /\ SizesIn(row, auto.base.trades \cup auto.ids) = auto.base.deployed + auto.spent
        /\ Cardinality(auto.base.trades \cup auto.ids)
             = auto.base.total + Cardinality(auto.ids)
    <3>1. /\ auto.base.deployed = SizesIn(row, auto.base.trades)
          /\ auto.base.total = Cardinality(auto.base.trades)
          /\ auto.spent = SizesIn(row, auto.ids)
      BY DEF LedgerInv, Accounts
    <3> QED
      BY <2>3, <3>1, SizesUnion
  <2>5. Accounts(row, session')
    BY <2>1, <2>4 DEF LedgerInv, Accounts
  <2> QED
    BY <1>2, <2>5, NoSizes DEF LedgerInv, AutoIdle
<1> QED
  BY <1>3, <1>4

LEMMA LedgerStep == TypeInv /\ TypeInv' /\ LedgerInv /\ [Next]_vars => LedgerInv'
<1> SUFFICES ASSUME TypeInv, TypeInv', LedgerInv, [Next]_vars PROVE LedgerInv'
  OBVIOUS
<1>1. CASE ~AutoNext
  BY <1>1, OthersLeaveAuto, LedgerFrame
<1>2. ASSUME NEW day \in {session, NoSession}, AutoBegin(day) PROVE LedgerInv'
  <2>1. row' = row /\ session' = session
    BY <1>2 DEF AutoBegin
  <2>2. auto'.base = day /\ auto'.ids = {} /\ auto'.spent = 0
    BY <1>2 DEF AutoBegin, AutoIdle
  <2> QED
    BY <2>1, <2>2, NoSizes DEF LedgerInv
<1>3. ASSUME \/ \E s \in Symbols : AutoConsider(s)
             \/ AutoCreateFails \/ AutoAbort \/ FinaliseBegin
             \/ \E t \in Trades : FinaliseClose(t)
      PROVE LedgerInv'
  <2>1. session' = session
    BY <1>3 DEF AutoConsider, AutoCreateFails, AutoAbort, FinaliseBegin, FinaliseClose
  <2>2. CASE FinaliseBegin
    BY <2>1, <2>2, NoSizes, AccountsKept DEF FinaliseBegin, AutoIdle, LedgerInv
  <2>3. CASE ~FinaliseBegin
    <3>1. auto \in AutoState
      BY DEF TypeInv, TypeOK
    <3>2. \/ auto' = AutoIdle
          \/ auto'.base = auto.base /\ auto'.ids = auto.ids /\ auto'.spent = auto.spent
      BY <1>3, <2>3, <3>1 DEF AutoConsider, AutoCreateFails, AutoAbort, FinaliseClose, AutoState
    <3> QED
      BY <2>1, <3>2, LedgerFrame
  <2> QED
    BY <2>2, <2>3
<1>4. CASE FinaliseCommit
  <2>1. /\ row' = row /\ auto' = AutoIdle /\ session'.trades = session.trades
        /\ session'.total = session.total /\ session'.deployed = session.deployed
    BY <1>4 DEF FinaliseCommit, TypeInv, TypeOK, Session
  <2> QED
    BY <2>1, NoSizes DEF LedgerInv, Accounts, AutoIdle
<1> QED
  BY <1>1, <1>2, <1>3, <1>4, LedgerCreate, LedgerCommit DEF AutoNext

\* The session row is a true account of the rows it lists, wherever a tick
\* failed and whichever read of the row went missing.
THEOREM LedgerIsTrue == Spec => []LedgerMatchesRows
<1>1. Init => LedgerInv
  BY NoSizes DEF Init, LedgerInv, AutoIdle
<1>2. LedgerInv => LedgerMatchesRows
  BY DEF LedgerInv, Accounts, LedgerMatchesRows, SizesOf, SizesIn
<1> QED
  BY <1>1, <1>2, TypeAlways, LedgerStep, PTL DEF Spec

-----------------------------------------------------------------------------
(* One position per symbol, and no more than the cap *)

\* Only the auto trader creates rows of its own, under its own source tags,
\* and it looked for an open one of the symbol before setting out to create.
SymbolInv ==
  /\ \A t \in OpenBy("auto") : row[t].src \in AutoSources
  /\ \A t, u \in OpenBy("auto") : row[t].sym = row[u].sym => t = u
  /\ auto.pc = "create" => \A t \in OpenBy("auto") : row[t].sym # auto.cur

\* The candidates still to be tried, and the one being created, fit in what
\* the cap leaves beside the positions the auto trader holds.
Pending == IF auto.pc = "create" THEN 1 ELSE 0
CapInv == Cardinality(OpenBy("auto")) + auto.left + Pending <= MaxConcurrent

\* The signal about to open a trade was refused by no row of the table.
ScalpInv ==
  /\ ScalpOnePerSymbol
  /\ SignalOpensOnce
  /\ scalp.pc = "create" =>
       /\ \A t \in OpenBy("scalper") : row[t].sym # scalp.sig.sym
       /\ \A t \in Trades : row[t].by = "scalper" =>
            ~(SameLane(t, scalp.sig) /\ WithinAMinute(t, scalp.sig))

\* A tick that may still open has not been followed by finalisation, and
\* what the finaliser has not closed yet it still has to close.
FinalInv ==
  /\ \A t \in session.trades \cup auto.ids : Exists(t)
  /\ session.finalised => phase \in {"after", "night"} /\ auto.pc \in {"idle", "finalise"}
  /\ auto.pc = "finalise" =>
       /\ phase \in {"after", "night"}
       /\ ~session.finalised
       /\ \A t \in session.trades : IsOpen(t) => t \in auto.todo
  /\ FinalisedIsClosed

\* A create is set out to by considering a symbol not held, or already was.
LEMMA AutoSetsOut ==
  ASSUME TypeInv, [Next]_vars, auto'.pc = "create"
  PROVE  \/ /\ auto.pc = "create" /\ auto'.cur = auto.cur
         \/ \E s \in Symbols : ~AlreadyHeld(s) /\ auto'.cur = s /\ row' = row
<1> USE DEF TypeInv, TypeOK, AutoState
<1>1. CASE ~AutoNext
  BY <1>1, OthersLeaveAuto DEF AutoIdle
<1>2. ASSUME NEW s \in Symbols, AutoConsider(s)
      PROVE  ~AlreadyHeld(s) /\ auto'.cur = s /\ row' = row
  BY <1>2 DEF AutoConsider
<1>3. ASSUME NEW t \in Trades, NEW src \in AutoSources, NEW raw \in RawSizes,
             NEW acked \in BOOLEAN, AutoCreate(t, src, raw, acked)
      PROVE  FALSE
  BY <1>3 DEF AutoCreate
<1>4. ASSUME NEW t \in Trades, FinaliseClose(t) PROVE FALSE
  BY <1>4 DEF FinaliseClose
<1>5. (\A day : ~AutoBegin(day)) /\ ~FinaliseBegin /\ ~AutoCreateFails
  BY DEF AutoBegin, FinaliseBegin, AutoCreateFails, AutoIdle
<1>6. ~AutoCommit /\ ~AutoAbort /\ ~FinaliseCommit
  BY DEF AutoCommit, AutoAbort, FinaliseCommit, AutoIdle
<1> QED
  BY <1>1, <1>2, <1>3, <1>4, <1>5, <1>6 DEF AutoNext

\* The auto trader's open rows after a step are those before it, or one more
\* that it had set out to create.
LEMMA AutoRowsStep ==
  ASSUME TypeInv, [Next]_vars
  PROVE  \A t \in OpenBy("auto")' :
           \/ t \in OpenBy("auto") /\ row'[t].sym = row[t].sym /\ row'[t].src = row[t].src
           \/ /\ row[t].st = None /\ row'[t].sym = auto.cur /\ row'[t].src \in AutoSources
              /\ auto.pc = "create" /\ auto'.pc = "open" /\ auto'.left = auto.left
              /\ \A u \in Trades \ {t} : row'[u] = row[u]
<1> SUFFICES ASSUME NEW t \in Trades, row'[t].st = "OPEN", row'[t].by = "auto"
             PROVE  \/ t \in OpenBy("auto") /\ row'[t].sym = row[t].sym /\ row'[t].src = row[t].src
                    \/ /\ row[t].st = None /\ row'[t].sym = auto.cur /\ row'[t].src \in AutoSources
                       /\ auto.pc = "create" /\ auto'.pc = "open" /\ auto'.left = auto.left
                       /\ \A u \in Trades \ {t} : row'[u] = row[u]
  BY DEF OpenBy, OpenRows, IsOpen
<1>1. RowsAreSound
  BY RowStep
<1>2. CASE row[t].st # None
  BY <1>1, <1>2 DEF RowsAreSound, KeepsRows, OpenBy, OpenRows, IsOpen
<1>3. CASE row[t].st = None
  <2>1. CreatedBySetOut(t)
    BY <1>1, <1>3 DEF RowsAreSound, None
  <2> QED
    BY <1>3, <2>1 DEF CreatedBySetOut
<1> QED
  BY <1>2, <1>3

\* Every step keeps the auto trader's symbols apart.
LEMMA SymbolStep == TypeInv /\ SymbolInv /\ [Next]_vars => SymbolInv'
<1> SUFFICES ASSUME TypeInv, SymbolInv, [Next]_vars PROVE SymbolInv'
  OBVIOUS
<1>1. CASE OpenBy("auto")' \subseteq OpenBy("auto")
  <2>1. \A t \in OpenBy("auto") : row[t].st # None
    BY DEF OpenBy, OpenRows, IsOpen, None
  <2>2. \A t \in OpenBy("auto")' : row'[t].sym = row[t].sym /\ row'[t].src = row[t].src
    BY <1>1, <2>1, AutoRowsStep
  <2>3. ASSUME auto'.pc = "create", NEW t \in OpenBy("auto")' PROVE row'[t].sym # auto'.cur
    <3>1. CASE auto.pc = "create" /\ auto'.cur = auto.cur
      BY <1>1, <2>2, <3>1, <2>3 DEF SymbolInv
    <3>2. ASSUME NEW s \in Symbols, ~AlreadyHeld(s), auto'.cur = s PROVE row'[t].sym # auto'.cur
      BY <1>1, <2>2, <2>3, <3>2 DEF SymbolInv, AlreadyHeld, OpenAuto, OpenBy
    <3> QED
      BY <2>3, <3>1, <3>2, AutoSetsOut
  <2> QED
    BY <1>1, <2>2, <2>3 DEF SymbolInv
<1>2. ASSUME NEW t \in OpenBy("auto")', t \notin OpenBy("auto") PROVE SymbolInv'
  <2>1. /\ row'[t].sym = auto.cur /\ row'[t].src \in AutoSources
        /\ auto.pc = "create" /\ auto'.pc = "open"
        /\ \A u \in Trades \ {t} : row'[u] = row[u]
    BY <1>2, AutoRowsStep
  <2>2. \A u \in OpenBy("auto")' : u # t => u \in OpenBy("auto") /\ row'[u] = row[u]
    BY <2>1 DEF OpenBy, OpenRows, IsOpen
  <2>3. \A u \in OpenBy("auto")' : u # t => row'[u].sym # auto.cur /\ row'[u].src \in AutoSources
    BY <2>1, <2>2 DEF SymbolInv
  <2>4. \A u, v \in OpenBy("auto")' : row'[u].sym = row'[v].sym => u = v
    BY <2>1, <2>2, <2>3 DEF SymbolInv
  <2> QED
    BY <2>1, <2>3, <2>4 DEF SymbolInv
<1> QED
  BY <1>1, <1>2

\* The auto trader holds one position per symbol, although manual requests
\* and the other jobs write the table between its duplicate check and its
\* create.
THEOREM AutoSymbolsDistinct == Spec => []AutoOnePerSymbol
<1>1. Init => SymbolInv
  BY DEF Init, SymbolInv, OpenBy, OpenRows, IsOpen, NoRow, None, AutoIdle
<1>2. SymbolInv => AutoOnePerSymbol
  BY DEF SymbolInv, AutoOnePerSymbol
<1> QED
  BY <1>1, <1>2, TypeAlways, SymbolStep, PTL DEF Spec

-----------------------------------------------------------------------------
(* The cap on positions *)

\* What is still to be tried only shrinks, except when a tick begins.
LEMMA LeftShrinks ==
  ASSUME TypeInv, [Next]_vars, \A day \in {session, NoSession} : ~AutoBegin(day)
  PROVE  auto'.left + Pending' <= auto.left + Pending
<1> USE DEF TypeInv, TypeOK, AutoState, Pending
<1>1. CASE ~AutoNext
  BY <1>1, OthersLeaveAuto DEF AutoIdle
<1>2. ASSUME NEW s \in Symbols, AutoConsider(s) PROVE auto'.left + Pending' <= auto.left + Pending
  <2>1. auto.pc = "open" /\ auto'.left = auto.left - 1 /\ auto.left \in Nat
    BY <1>2 DEF AutoConsider
  <2> QED
    BY <2>1
<1>3. ASSUME NEW t \in Trades, NEW src \in AutoSources, NEW raw \in RawSizes,
             NEW acked \in BOOLEAN, AutoCreate(t, src, raw, acked)
      PROVE  auto'.left + Pending' <= auto.left + Pending
  <2>1. auto.pc = "create" /\ auto'.pc = "open" /\ auto'.left = auto.left /\ auto.left \in Nat
    BY <1>3 DEF AutoCreate
  <2> QED
    BY <2>1
<1>4. ASSUME NEW t \in Trades, FinaliseClose(t) PROVE auto'.left + Pending' <= auto.left + Pending
  BY <1>4 DEF FinaliseClose
<1>5. CASE AutoCreateFails
  BY <1>5 DEF AutoCreateFails
<1>6. CASE AutoCommit \/ AutoAbort \/ FinaliseCommit
  BY <1>6 DEF AutoCommit, AutoAbort, FinaliseCommit, AutoIdle
<1>7. CASE FinaliseBegin
  BY <1>7 DEF FinaliseBegin, AutoIdle
<1> QED
  BY <1>1, <1>2, <1>3, <1>4, <1>5, <1>6, <1>7 DEF AutoNext

\* The open rows of a creator can be counted.
LEMMA OpenFinite == \A who : IsFiniteSet(OpenBy(who)) /\ Cardinality(OpenBy(who)) \in Nat
<1> TAKE who
<1>1. IsFiniteSet(OpenBy(who))
  BY IdAssumption, FS_Subset, OpenBy(who) \subseteq Trades DEF OpenBy, OpenRows
<1> QED
  BY <1>1, FS_CardinalityType

\* Every step keeps the positions held and those still to come under the cap.
LEMMA CapStep == TypeInv /\ SymbolInv /\ CapInv /\ [Next]_vars => CapInv'
<1> SUFFICES ASSUME TypeInv, SymbolInv, CapInv, [Next]_vars PROVE CapInv'
  OBVIOUS
<1> DEFINE mine == OpenBy("auto")
<1> DEFINE minep == OpenBy("auto")'
<1>1. IsFiniteSet(mine) /\ Cardinality(mine) \in Nat
  BY OpenFinite
<1>2. auto.left \in Nat /\ Pending \in Nat /\ auto'.left \in Nat /\ Pending' \in Nat
  BY TypeStep DEF TypeInv, TypeOK, AutoState, Pending
<1>3. ASSUME NEW day \in {session, NoSession}, AutoBegin(day) PROVE CapInv'
  <2>1. /\ minep = mine /\ Pending' = 0
        /\ auto'.left = MaxConcurrent - Cardinality(OpenAuto)
    BY <1>3 DEF AutoBegin, OpenBy, OpenRows, IsOpen, Pending, AutoIdle, SlotsLeft
  <2>2. mine \subseteq OpenAuto
    BY DEF SymbolInv, OpenBy, OpenAuto
  <2>3. Cardinality(mine) <= Cardinality(OpenAuto) /\ Cardinality(OpenAuto) \in Nat
    BY <2>2, SlotsType, FS_Subset
  <2>4. CapInv' <=> Cardinality(minep) + auto'.left + Pending' <= MaxConcurrent
    BY DEF CapInv
  <2> HIDE DEF mine, minep
  <2> QED
    BY <2>1, <2>3, <2>4, <1>1, <1>2, BudgetAssumption
<1>4. CASE (\A day \in {session, NoSession} : ~AutoBegin(day)) /\ minep \subseteq mine
  <2>1. Cardinality(minep) <= Cardinality(mine) /\ Cardinality(minep) \in Nat
    BY <1>1, <1>4, FS_Subset, FS_CardinalityType
  <2>2. auto'.left + Pending' <= auto.left + Pending
    BY <1>4, LeftShrinks
  <2>3. CapInv' <=> Cardinality(minep) + auto'.left + Pending' <= MaxConcurrent
    BY DEF CapInv
  <2>4. Cardinality(mine) + auto.left + Pending <= MaxConcurrent
    BY DEF CapInv
  <2> HIDE DEF mine, minep
  <2> QED
    BY <2>1, <2>2, <2>3, <2>4, <1>1, <1>2, BudgetAssumption
<1>5. ASSUME NEW t \in minep, t \notin mine PROVE CapInv'
  <2>1. /\ auto.pc = "create" /\ auto'.pc = "open" /\ auto'.left = auto.left
        /\ \A u \in Trades \ {t} : row'[u] = row[u]
    BY <1>5, AutoRowsStep
  <2>2. minep \subseteq mine \cup {t}
    BY <2>1 DEF OpenBy, OpenRows, IsOpen
  <2>3. Pending = 1 /\ Pending' = 0
    BY <2>1 DEF Pending
  <2>4. CapInv' <=> Cardinality(minep) + auto'.left + Pending' <= MaxConcurrent
    BY DEF CapInv
  <2>5. Cardinality(mine) + auto.left + Pending <= MaxConcurrent
    BY DEF CapInv
  <2> HIDE DEF mine, minep
  <2>6. IsFiniteSet(mine \cup {t}) /\ Cardinality(mine \cup {t}) = Cardinality(mine) + 1
    BY <1>1, <1>5, FS_AddElement
  <2>7. IsFiniteSet(minep) /\ Cardinality(minep) <= Cardinality(mine) + 1
    BY <2>2, <2>6, FS_Subset
  <2>8. Cardinality(minep) \in Nat
    BY <2>7, FS_CardinalityType
  <2> QED
    BY <2>1, <2>3, <2>4, <2>5, <2>7, <2>8, <1>1, <1>2, BudgetAssumption
<1> QED
  BY <1>3, <1>4, <1>5

\* MAX_CONCURRENT_TRADES holds of the auto trader's own positions, although
\* it counts them once per tick and creates them one call at a time.
THEOREM CapIsKept == Spec => []AutoPositionCap
<1>1. Init => SymbolInv /\ CapInv
  <2>1. Init => SymbolInv /\ OpenBy("auto") = {}
    BY DEF Init, SymbolInv, OpenBy, OpenRows, IsOpen, NoRow, None, AutoIdle
  <2> QED
    BY <2>1, FS_EmptySet, BudgetAssumption DEF Init, CapInv, Pending, AutoIdle
<1>2. TypeInv /\ CapInv => AutoPositionCap
  BY OpenFinite, BudgetAssumption DEF TypeInv, TypeOK, AutoState, CapInv, Pending, AutoPositionCap
<1> QED
  BY <1>1, <1>2, TypeAlways, SymbolStep, CapStep, PTL DEF Spec

-----------------------------------------------------------------------------
(* One trade per signal *)

\* What the scalper is about to create is a signal it has just found free.
LEMMA ScalpSetsOut ==
  ASSUME TypeInv, [Next]_vars, scalp'.pc = "create"
  PROVE  \/ scalp.pc = "create" /\ scalp'.sig = scalp.sig
         \/ ~Refused(scalp'.sig) /\ row' = row
<1> USE DEF TypeInv, TypeOK, ScalpState
<1>1. ASSUME NEW sig \in Signals, ScalpAttempt(sig) PROVE ~Refused(scalp'.sig) /\ row' = row
  <2>1. ~Refused(sig) /\ scalp' = [scalp EXCEPT !.pc = "create", !.sig = sig] /\ row' = row
    BY <1>1 DEF ScalpAttempt
  <2> QED
    BY <2>1
<1>2. ASSUME NEW t \in Trades, ScalpCreate(t) PROVE FALSE
  BY <1>2 DEF ScalpCreate
<1>3. ASSUME NEW t \in Trades, NEW outcome \in {"HIT", "EXPIRED"}, ResolveClose(t, outcome)
      PROVE  FALSE
  BY <1>3 DEF ResolveClose
<1>4. ~ScalpBegin /\ ~ScalpCallFails /\ ~ResolveBegin /\ ~ResolveEnd
  <2>1. ~ResolveBegin
    BY DEF ResolveBegin
  <2>2. ~ScalpCallFails
    BY DEF ScalpCallFails
  <2>3. ~ScalpBegin /\ ~ResolveEnd
    BY DEF ScalpBegin, ResolveEnd, ScalpIdle
  <2> QED
    BY <2>1, <2>2, <2>3
<1>5. CASE ~ScalpNext
  <2>1. scalp' = scalp \/ scalp' = ScalpIdle
    BY <1>5 DEF Next, AutoNext, EodNext, RequestNext, EnvNext, vars, AutoBegin, AutoConsider,
           AutoCreate, AutoCreateFails, AutoCommit, AutoAbort, FinaliseBegin, FinaliseClose,
           FinaliseCommit, EodBegin, EodClose, EodEnd, EodAbort, ManualBegin, ManualCreate,
           CancelBegin, CancelCommit, CloseAllBegin, CloseAllClose, RequestEnd, Advance,
           WorkerCrash, LockExpires, ClaimExpires
  <2> QED
    BY <2>1 DEF ScalpIdle
<1> QED
  BY <1>1, <1>2, <1>3, <1>4, <1>5 DEF ScalpNext


\* The scalper's rows after a step are those before it, or one more: the
\* signal it had set out to trade.
LEMMA ScalpRowsStep ==
  ASSUME TypeInv, [Next]_vars, NEW t \in Trades, Exists(t)', row'[t].by = "scalper"
  PROVE  \/ /\ row[t].st # None /\ row[t].by = "scalper" /\ row'[t].sym = row[t].sym
            /\ row'[t].src = row[t].src /\ row'[t].at = row[t].at
            /\ IsOpen(t)' => IsOpen(t)
         \/ /\ row[t].st = None
            /\ row'[t].sym = scalp.sig.sym /\ row'[t].src = scalp.sig.src
            /\ row'[t].at = scalp.sig.at
            /\ scalp.pc = "create" /\ scalp'.pc = "scan"
            /\ \A u \in Trades \ {t} : row'[u] = row[u]
<1>1. RowsAreSound
  BY RowStep
<1>2. CASE row[t].st # None
  BY <1>1, <1>2 DEF RowsAreSound, KeepsRows, IsOpen
<1>3. CASE row[t].st = None
  <2>1. CreatedBySetOut(t)
    BY <1>1, <1>3 DEF RowsAreSound, Exists
  <2> QED
    BY <1>3, <2>1 DEF CreatedBySetOut
<1> QED
  BY <1>2, <1>3

\* Every step keeps the scalper's signals and symbols apart.
LEMMA ScalpStep == TypeInv /\ ScalpInv /\ [Next]_vars => ScalpInv'
<1> SUFFICES ASSUME TypeInv, ScalpInv, [Next]_vars PROVE ScalpInv'
  OBVIOUS
<1> DEFINE Mine(t) == row[t].st # None /\ row[t].by = "scalper"
<1> DEFINE MineNow(t) == row'[t].st # None /\ row'[t].by = "scalper"
<1> DEFINE SameSignal(a, b) == a.sym = b.sym /\ a.src = b.src /\ a.at - b.at \in {-1, 0, 1}
<1>1. /\ \A t, u \in Trades : Mine(t) /\ Mine(u) =>
           /\ IsOpen(t) /\ IsOpen(u) /\ row[t].sym = row[u].sym => t = u
           /\ SameSignal(row[t], row[u]) => t = u
      /\ scalp.pc = "create" => \A t \in Trades : Mine(t) =>
           /\ IsOpen(t) => row[t].sym # scalp.sig.sym
           /\ ~SameSignal(row[t], scalp.sig)
  <2>1. \A t \in Trades : IsOpen(t) => row[t].st # None
    BY DEF IsOpen, None
  <2> QED
    BY <2>1 DEF ScalpInv, ScalpOnePerSymbol, SignalOpensOnce, OpenBy, OpenRows, Exists, SameLane,
           WithinAMinute
<1>2. SUFFICES
        /\ \A t, u \in Trades : MineNow(t) /\ MineNow(u) =>
             /\ IsOpen(t)' /\ IsOpen(u)' /\ row'[t].sym = row'[u].sym => t = u
             /\ SameSignal(row'[t], row'[u]) => t = u
        /\ scalp'.pc = "create" => \A t \in Trades : MineNow(t) =>
             /\ IsOpen(t)' => row'[t].sym # scalp'.sig.sym
             /\ ~SameSignal(row'[t], scalp'.sig)
  BY DEF ScalpInv, ScalpOnePerSymbol, SignalOpensOnce, OpenBy, OpenRows, Exists, SameLane,
         WithinAMinute, IsOpen, None
<1>3. \A t \in Trades : MineNow(t) =>
        \/ /\ Mine(t) /\ row'[t].sym = row[t].sym /\ row'[t].src = row[t].src
           /\ row'[t].at = row[t].at /\ (IsOpen(t)' => IsOpen(t))
        \/ /\ row[t].st = None
           /\ row'[t].sym = scalp.sig.sym /\ row'[t].src = scalp.sig.src
           /\ row'[t].at = scalp.sig.at
           /\ scalp.pc = "create" /\ scalp'.pc = "scan"
           /\ \A u \in Trades \ {t} : row'[u] = row[u]
  BY ScalpRowsStep DEF Exists
<1>4. /\ \A t \in Trades : Mine(t) => row[t].at \in Nat
      /\ scalp.pc = "create" => scalp.sig.at \in Nat
  <2>1. \A t \in Trades : row[t].st # None => row[t] \in Row
    BY DEF TypeInv, TypeOK, NoRow
  <2>2. scalp.pc = "create" => scalp.sig \in Signals
    BY DEF TypeInv, WritesAreSound
  <2> QED
    BY <2>1, <2>2, IdAssumption DEF Row, Signals
<1>5. CASE \A t \in Trades : MineNow(t) => Mine(t)
  <2>1. ASSUME scalp'.pc = "create", NEW t \in Trades, MineNow(t)
        PROVE  (IsOpen(t)' => row'[t].sym # scalp'.sig.sym) /\ ~SameSignal(row'[t], scalp'.sig)
    <3>1. CASE scalp.pc = "create" /\ scalp'.sig = scalp.sig
      BY <1>1, <1>3, <1>5, <2>1, <3>1
    <3>2. CASE ~Refused(scalp'.sig) /\ row' = row
      BY <2>1, <3>2 DEF Refused, OpenRows, SameLane, WithinAMinute, Exists, IsOpen
    <3> QED
      BY <2>1, <3>1, <3>2, ScalpSetsOut
  <2> QED
    BY <1>1, <1>3, <1>5, <2>1
<1>6. ASSUME NEW n \in Trades, MineNow(n), ~Mine(n)
      PROVE  /\ \A t, u \in Trades : MineNow(t) /\ MineNow(u) =>
                  /\ IsOpen(t)' /\ IsOpen(u)' /\ row'[t].sym = row'[u].sym => t = u
                  /\ SameSignal(row'[t], row'[u]) => t = u
             /\ scalp'.pc # "create"
  <2>1. /\ row'[n].sym = scalp.sig.sym /\ row'[n].src = scalp.sig.src
        /\ row'[n].at = scalp.sig.at
        /\ scalp.pc = "create" /\ scalp'.pc = "scan"
        /\ \A u \in Trades \ {n} : row'[u] = row[u]
    BY <1>3, <1>6
  <2>2. \A t \in Trades \ {n} : MineNow(t) =>
          /\ Mine(t) /\ row'[t] = row[t] /\ (IsOpen(t)' => IsOpen(t))
          /\ IsOpen(t)' => row'[t].sym # row'[n].sym
          /\ ~SameSignal(row'[t], row'[n]) /\ ~SameSignal(row'[n], row'[t])
    BY <1>1, <1>4, <2>1 DEF IsOpen
  <2> QED
    BY <1>1, <2>1, <2>2
<1> QED
  BY <1>5, <1>6

LEMMA ScalpInit == Init => ScalpInv
BY DEF Init, ScalpInv, ScalpOnePerSymbol, SignalOpensOnce, OpenBy, OpenRows, IsOpen, Exists,
       NoRow, None, ScalpIdle

\* One signal opens one trade for ever and, across its lanes, the scalper
\* holds one open trade per symbol: also when Redis is down, when a claim has
\* expired, and across a crash.
THEOREM ScalperOpensOnce == Spec => [](ScalpOnePerSymbol /\ SignalOpensOnce)
<1>1. Init => ScalpInv
  BY ScalpInit
<1>2. ScalpInv => ScalpOnePerSymbol /\ SignalOpensOnce
  BY DEF ScalpInv
<1> QED
  BY <1>1, <1>2, TypeAlways, ScalpStep, PTL DEF Spec

\* The part of it that a trader sees: openIndiaPaperTrade never holds two open
\* trades on one symbol, whatever lanes its signals come from.
THEOREM ScalperHoldsOne == Spec => []ScalpOnePerSymbol
  BY ScalperOpensOnce, PTL

-----------------------------------------------------------------------------
(* The scalper as a single step *)

\* What the book shows of a row.
LEMMA BookShows ==
  ASSUME NEW t \in Trades
  PROVE  /\ RowBook[t] = TradeOf(row[t])
         /\ RowBook[t].st # "none" <=> row[t].st # None /\ row[t].by = "scalper"
         /\ RowBook[t].st # "none" =>
              /\ RowBook[t].st = "open" => row[t].st = "OPEN"
              /\ RowBook[t].slot = row[t].sym
              /\ RowBook[t].lane = <<row[t].sym, row[t].src>>
              /\ RowBook[t].at = row[t].at
<1>1. RowBook[t] = TradeOf(row[t])
  BY DEF RowBook
<1>2. CASE row[t].st = None \/ row[t].by # "scalper"
  BY <1>1, <1>2 DEF TradeOf
<1>3. CASE row[t].st # None /\ row[t].by = "scalper"
  <2>1. RowBook[t] = [st |-> IF row[t].st = "OPEN" THEN "open" ELSE "closed",
                      slot |-> row[t].sym, lane |-> <<row[t].sym, row[t].src>>,
                      at |-> row[t].at]
    BY <1>1, <1>3 DEF TradeOf
  <2>2. /\ RowBook[t].st = IF row[t].st = "OPEN" THEN "open" ELSE "closed"
        /\ RowBook[t].slot = row[t].sym /\ RowBook[t].at = row[t].at
        /\ RowBook[t].lane = <<row[t].sym, row[t].src>>
    BY <2>1
  <2>3. RowBook[t].st # "none" /\ (RowBook[t].st = "open" => row[t].st = "OPEN")
    BY <2>2
  <2> QED
    BY <1>1, <1>3, <2>2, <2>3, Zenon
<1> QED
  BY <1>1, <1>2, <1>3

\* A step that changes one row changes one trade of the book.
LEMMA BookChanges ==
  ASSUME NEW t \in Trades, \A u \in Trades \ {t} : row'[u] = row[u]
  PROVE  RowBook' = [RowBook EXCEPT ![t] = TradeOf(row'[t])]
<1>1. \A u \in Trades : RowBook'[u] = IF u = t THEN TradeOf(row'[t]) ELSE RowBook[u]
  BY DEF RowBook
<1> QED
  BY <1>1 DEF RowBook

\* The scalper's new row fits into the book.
LEMMA InsertOpens ==
  ASSUME TypeInv, ScalpInv, [Next]_vars, NEW t \in Trades, row[t].st = None,
         row'[t].st # None, row'[t].by = "scalper"
  PROVE  Book!BookOpens(t)
<1> DEFINE sig == scalp.sig
           new == [st |-> "open", slot |-> sig.sym, lane |-> <<sig.sym, sig.src>>, at |-> sig.at]
<1>1. CreatedBySetOut(t)
  BY RowStep DEF RowsAreSound
<1>2. /\ row'[t].st = "OPEN" /\ \A u \in Trades \ {t} : row'[u] = row[u]
      /\ row'[t].sym = sig.sym /\ row'[t].src = sig.src /\ row'[t].at = sig.at
      /\ scalp.pc = "create"
  BY <1>1 DEF CreatedBySetOut
<1>3. sig \in Signals
  BY <1>2 DEF TypeInv, WritesAreSound
<1>4. new \in Book!OpenTrade
  BY <1>3 DEF Book!OpenTrade, Signals
<1>5. Book!Fits(new)
  <2>1. ASSUME NEW u \in Trades, RowBook[u].st # "none"
        PROVE  /\ RowBook[u].st = "open" => RowBook[u].slot # new.slot
               /\ RowBook[u].lane = new.lane => RowBook[u].at - new.at \notin {-1, 0, 1}
    <3>1. row[u].st # None /\ row[u].by = "scalper"
      BY <2>1, BookShows
    <3>2. /\ RowBook[u].st = "open" => row[u].st = "OPEN"
          /\ RowBook[u].slot = row[u].sym /\ RowBook[u].lane = <<row[u].sym, row[u].src>>
          /\ RowBook[u].at = row[u].at
      BY <2>1, BookShows
    <3>3. RowBook[u].st = "open" => row[u].sym # sig.sym
      BY <1>2, <3>1, <3>2 DEF ScalpInv, OpenBy, OpenRows, IsOpen
    <3>4. row[u].sym = sig.sym /\ row[u].src = sig.src => row[u].at - sig.at \notin {-1, 0, 1}
      BY <1>2, <3>1 DEF ScalpInv, SameLane, WithinAMinute, Exists
    <3> QED
      BY <3>2, <3>3, <3>4
  <2> HIDE DEF new
  <2> QED
    BY <2>1 DEF Book!Fits
<1>6. TradeOf(row'[t]) = new
  BY <1>2 DEF TradeOf, None
<1>7. RowBook' = [RowBook EXCEPT ![t] = new]
  BY <1>2, <1>6, BookChanges
<1>8. RowBook[t].st = "none"
  BY BookShows
<1> HIDE DEF new
<1> QED
  BY <1>4, <1>5, <1>7, <1>8 DEF Book!BookOpens

\* A row of the scalper that was there stays what it was, or is closed.
LEMMA RowStaysOrCloses ==
  ASSUME TypeInv, [Next]_vars, NEW t \in Trades, row[t].st # None,
         \A u \in Trades \ {t} : row'[u] = row[u]
  PROVE  Book!BookCloses(t) \/ UNCHANGED RowBook
<1>1. /\ row'[t].st # None /\ (row'[t].st = "OPEN" => row[t].st = "OPEN")
      /\ row'[t].sym = row[t].sym /\ row'[t].src = row[t].src /\ row'[t].at = row[t].at
      /\ row'[t].by = row[t].by
  BY RowStep DEF RowsAreSound, KeepsRows
<1>2. RowBook' = [RowBook EXCEPT ![t] = TradeOf(row'[t])]
  BY BookChanges
<1>3. RowBook[t] = TradeOf(row[t])
  BY BookShows
<1>4. CASE TradeOf(row'[t]) = TradeOf(row[t])
  BY <1>2, <1>3, <1>4 DEF RowBook
<1>5. CASE TradeOf(row'[t]) # TradeOf(row[t])
  <2>1. row[t].by = "scalper" /\ row[t].st = "OPEN" /\ row'[t].st # "OPEN"
    BY <1>1, <1>5 DEF TradeOf
  <2>2. /\ RowBook[t] = [st |-> "open", slot |-> row[t].sym, lane |-> <<row[t].sym, row[t].src>>,
                         at |-> row[t].at]
        /\ TradeOf(row'[t]) = [st |-> "closed", slot |-> row[t].sym,
                               lane |-> <<row[t].sym, row[t].src>>, at |-> row[t].at]
    BY <1>1, <1>3, <2>1 DEF TradeOf
  <2>3. TradeOf(row'[t]) = [RowBook[t] EXCEPT !.st = "closed"] /\ RowBook[t].st = "open"
    BY <2>2
  <2>4. RowBook' = [RowBook EXCEPT ![t].st = "closed"]
    BY <1>2, <2>3
  <2> QED
    BY <2>3, <2>4 DEF Book!BookCloses
<1> QED
  BY <1>4, <1>5

LEMMA BookSteps ==
  TypeInv /\ ScalpInv /\ [Next]_vars => Book!BookNext \/ UNCHANGED RowBook
<1> SUFFICES ASSUME TypeInv, ScalpInv, [Next]_vars
             PROVE  Book!BookNext \/ UNCHANGED RowBook
  OBVIOUS
<1>1. OneRowChanges
  BY RowStep DEF RowsAreSound
<1>2. CASE row' = row
  BY <1>2 DEF RowBook
<1>3. ASSUME NEW t \in Trades, \A u \in Trades \ {t} : row'[u] = row[u]
      PROVE  Book!BookNext \/ UNCHANGED RowBook
  <2>1. CASE row[t].st # None
    BY <1>3, <2>1, RowStaysOrCloses DEF Book!BookNext
  <2>2. CASE row[t].st = None /\ row'[t].st # None /\ row'[t].by = "scalper"
    BY <2>2, InsertOpens DEF Book!BookNext
  <2>3. CASE row[t].st = None /\ (row'[t].st = None \/ row'[t].by # "scalper")
    <3>1. TradeOf(row'[t]) = RowBook[t]
      BY <2>3, BookShows DEF TradeOf
    <3>2. RowBook' = [RowBook EXCEPT ![t] = TradeOf(row'[t])]
      BY <1>3, BookChanges
    <3> QED
      BY <3>1, <3>2 DEF RowBook
  <2> QED
    BY <2>1, <2>2, <2>3
<1> QED
  BY <1>1, <1>2, <1>3 DEF OneRowChanges

\* The scalper implements the atomic book: beside the auto trader, the
\* square-off and the requests, it opens its trades as if it claimed, looked
\* and created in one step; a trade that is closed twice stays closed.
THEOREM ScalperIsAtomic == Spec => OpensAtomically
<1>1. Init => Book!BookInit
  <2> SUFFICES ASSUME Init
               PROVE  Book!BookInit
    OBVIOUS
  <2>1. \A t \in Trades : TradeOf(row[t]) = [st |-> "none"]
    BY DEF Init, TradeOf, NoRow
  <2> QED
    BY <2>1 DEF Book!BookInit, Book!NoTrade, RowBook
<1>2. TypeInv /\ ScalpInv /\ [Next]_vars => [Book!BookNext]_RowBook
  BY BookSteps
<1>3. Init => ScalpInv
  BY ScalpInit
<1> QED
  BY <1>1, <1>2, <1>3, TypeAlways, ScalpStep, PTL DEF Spec, OpensAtomically, Book!BookSpec

-----------------------------------------------------------------------------
(* Finalisation *)

\* After the close it stays after the close.
LEMMA ClosedForTheDay ==
  ASSUME TypeInv, [Next]_vars, phase \in {"after", "night"}
  PROVE  phase' \in {"after", "night"}
<1>1. CASE Advance
  BY <1>1 DEF Advance
<1>2. CASE ~Advance
  BY <1>2 DEF Next, AutoNext, ScalpNext, EodNext, RequestNext, EnvNext, vars,
       AutoBegin, AutoConsider, AutoCreate, AutoCreateFails, AutoCommit, AutoAbort, FinaliseBegin,
       FinaliseClose, FinaliseCommit, ScalpBegin, ScalpAttempt, ScalpCreate, ScalpCallFails,
       ResolveBegin, ResolveClose, ResolveEnd, EodBegin, EodClose, EodEnd, EodAbort, ManualBegin,
       ManualCreate, CancelBegin, CancelCommit, CloseAllBegin, CloseAllClose, RequestEnd,
       WorkerCrash, LockExpires, ClaimExpires
<1> QED
  BY <1>1, <1>2

\* Every step keeps a finalised session closed.
LEMMA FinalStep == TypeInv /\ BudgetInv /\ FinalInv /\ [Next]_vars => FinalInv'
<1> SUFFICES ASSUME TypeInv, BudgetInv, FinalInv, [Next]_vars PROVE FinalInv'
  OBVIOUS
<1> USE DEF TypeInv
<1>1. /\ \A t \in Trades : Exists(t) => Exists(t)'
      /\ \A t \in Trades : Exists(t) => (IsOpen(t)' => IsOpen(t))
  BY RowStep DEF RowsAreSound, KeepsRows, Exists, IsOpen
<1>2. session.trades \subseteq Trades /\ auto.ids \subseteq Trades /\ auto.base \in Session
  BY DEF TypeOK, Session, AutoState
<1>3. phase \in {"after", "night"} => phase' \in {"after", "night"}
  BY ClosedForTheDay
<1>4. CASE ~AutoNext
  <2>1. session' = session /\ (auto' = auto \/ auto' = AutoIdle)
    BY <1>4, OthersLeaveAuto
  <2>2. /\ auto'.ids \subseteq auto.ids
        /\ (auto'.pc = auto.pc /\ auto'.todo = auto.todo) \/ auto'.pc = "idle"
    BY <2>1 DEF AutoIdle
  <2> QED
    BY <2>1, <2>2, <1>1, <1>2, <1>3 DEF FinalInv, FinalisedIsClosed
<1>5. ASSUME session' = session, auto'.ids \subseteq auto.ids, auto.pc \in {"open", "create"},
             auto'.pc # "finalise"
      PROVE  FinalInv'
  BY <1>5, <1>1, <1>2, <1>3 DEF FinalInv, FinalisedIsClosed
<1>6. ASSUME NEW day \in {session, NoSession}, AutoBegin(day) PROVE FinalInv'
  BY <1>6, <1>1, <1>2 DEF AutoBegin, BeforeCutoff, AutoIdle, FinalInv, FinalisedIsClosed
<1>7. ASSUME NEW s \in Symbols, AutoConsider(s) PROVE FinalInv'
  <2>1. auto'.ids = auto.ids /\ auto'.pc # "finalise"
    BY <1>7 DEF AutoConsider, TypeOK, AutoState
  <2> QED
    BY <1>5, <1>7, <2>1 DEF AutoConsider
<1>8. ASSUME NEW t \in Trades, NEW src \in AutoSources, NEW raw \in RawSizes,
             NEW acked \in BOOLEAN, AutoCreate(t, src, raw, acked) PROVE FinalInv'
  <2>1. /\ auto.pc = "create" /\ auto'.pc = "open" /\ session' = session
        /\ auto'.ids \subseteq auto.ids \cup {t}
    BY <1>8 DEF AutoCreate, TypeOK, AutoState
  <2>2. Exists(t)'
    BY <1>8 DEF AutoCreate, Insert, Exists, None, TypeOK
  <2> QED
    BY <2>1, <2>2, <1>1, <1>2 DEF FinalInv, FinalisedIsClosed
<1>9. CASE AutoCreateFails
  <2>1. auto'.ids = auto.ids /\ auto'.pc = "open"
    BY <1>9 DEF AutoCreateFails, TypeOK, AutoState
  <2> QED
    BY <1>5, <1>9, <2>1 DEF AutoCreateFails
<1>10. CASE AutoCommit
  <2>1. auto.pc = "open" /\ auto.base \in {session, NoSession} /\ ~session.finalised
    BY <1>10 DEF AutoCommit, BudgetInv, FinalInv
  <2>2. /\ session'.finalised = FALSE /\ session'.trades \subseteq session.trades \cup auto.ids
        /\ auto'.pc = "idle" /\ auto'.ids = {}
    BY <1>10, <2>1 DEF AutoCommit, TypeOK, Session, NoSession, AutoIdle
  <2> QED
    BY <2>2, <1>1, <1>2 DEF FinalInv, FinalisedIsClosed
<1>11. CASE AutoAbort
  BY <1>11, <1>1, <1>2, <1>3 DEF AutoAbort, AutoIdle, FinalInv, FinalisedIsClosed
<1>12. CASE FinaliseBegin
  <2>1. /\ session' = session /\ row' = row /\ phase' = phase /\ ~session.finalised
        /\ phase = "after" /\ auto'.pc = "finalise" /\ auto'.ids = {}
        /\ auto'.todo = session.trades \cap OpenRows
    BY <1>12 DEF FinaliseBegin, AutoIdle, SessionEnded
  <2> QED
    BY <2>1, <1>1, <1>2 DEF FinalInv, FinalisedIsClosed, OpenRows, IsOpen
<1>13. ASSUME NEW t \in Trades, FinaliseClose(t) PROVE FinalInv'
  <2>1. /\ session' = session /\ phase' = phase /\ auto.pc = "finalise" /\ auto'.pc = "finalise"
        /\ auto'.ids = auto.ids /\ auto'.todo = auto.todo \ {t} /\ Exists(t)
    BY <1>13 DEF FinaliseClose, TypeOK, AutoState, WritesAreSound
  <2>2. row'[t].st = "EXPIRED"
    <3>1. row[t] \in Row
      BY <2>1 DEF Exists, TypeOK, NoRow
    <3> QED
      BY <1>13, <3>1 DEF FinaliseClose, Close, TypeOK, Row
  <2> QED
    BY <2>1, <2>2, <1>1, <1>2 DEF FinalInv, FinalisedIsClosed, IsOpen
<1>14. CASE FinaliseCommit
  <2>1. /\ auto.pc = "finalise" /\ auto.todo = {} /\ row' = row /\ phase' = phase
        /\ session'.trades = session.trades /\ auto'.pc = "idle" /\ auto'.ids = {}
    BY <1>14 DEF FinaliseCommit, AutoIdle, TypeOK, Session
  <2> QED
    BY <2>1, <1>1, <1>2 DEF FinalInv, FinalisedIsClosed, IsOpen
<1> QED
  BY <1>4, <1>6, <1>7, <1>8, <1>9, <1>10, <1>11, <1>12, <1>13, <1>14 DEF AutoNext

\* The finalisation invariant and what it rests on hold throughout.
LEMMA FinalAlways == Spec => [](TypeInv /\ BudgetInv /\ FinalInv)
<1>1. Init => BudgetInv /\ FinalInv
  BY BudgetAssumption DEF Init, BudgetInv, FinalInv, FinalisedIsClosed, NoSession, AutoIdle
<1> QED
  BY <1>1, TypeAlways, BudgetStep, FinalStep, PTL DEF Spec

\* A finalised session lists no open trade: rows closed by others meanwhile
\* stay closed, and none is opened into a session being finalised.
THEOREM FinalisedStaysClosed == Spec => []FinalisedIsClosed
<1>1. FinalInv => FinalisedIsClosed
  BY DEF FinalInv
<1> QED
  BY <1>1, FinalAlways, PTL

\* No tick that was still opening at the close writes a session that has been
\* finalised.
THEOREM FinalisedStaysFrozen == Spec => FinalisedIsFrozen
<1>1. TypeInv /\ BudgetInv /\ FinalInv /\ [Next]_vars => (session.finalised => session' = session)
  <2> SUFFICES ASSUME TypeInv, BudgetInv, FinalInv, [Next]_vars, session.finalised
               PROVE  session' = session
    OBVIOUS
  <2>1. auto.pc \in {"idle", "finalise"} /\ auto.pc # "finalise"
    BY DEF FinalInv
  <2>2. CASE AutoNext
    BY <2>1, <2>2 DEF AutoNext, AutoBegin, AutoConsider, AutoCreate, AutoCreateFails, AutoCommit,
                      AutoAbort, FinaliseBegin, FinaliseClose, FinaliseCommit
  <2> QED
    BY <2>2, OthersLeaveAuto
<1> QED
  BY <1>1, FinalAlways, PTL DEF Spec, FinalisedIsFrozen

=============================================================================
