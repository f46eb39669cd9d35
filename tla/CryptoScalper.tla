---------------------------- MODULE CryptoScalper ----------------------------
(***************************************************************************)
(* The crypto scalper job: one tick after another, each of which reads the *)
(* checkpoint a dead tick may have left, replays the writes that failed in *)
(* earlier ticks, opens a paper trade for every fresh signal of every lane *)
(* (strategy, timeframe and symbol) and resolves the open trades.          *)
(*                                                                         *)
(* Rows are in Postgres; the checkpoint and the trade guard are in Redis,  *)
(* where every call is best effort: each may fail without stopping the     *)
(* tick.  The dead letter queue is in the worker's memory and dies with    *)
(* it.  An action is the stretch of the tick up to its next database call. *)
(* Time is counted in minutes: bars close on minutes.                      *)
(***************************************************************************)
EXTENDS Integers, Sequences, Functions

CONSTANTS
  Symbols,     \* TRACKED_SYMBOLS
  Strategies,  \* the registered strategies
  Timeframes,  \* TIMEFRAMES, each given by its minutes, in the order scanned
  Rows,        \* identifiers a created row can get (bounds the run)
  LastMinute,  \* bound on the clock
  MaxAttempts, \* maxAttempts of withDbRetry
  MaxEntries,  \* maxEntries of the dead letter queue
  MaxAge,      \* maxAgeMs of the dead letter queue, in minutes
  MaxCrashes   \* bound on worker crashes

ASSUME ScalperAssumption ==
  /\ Timeframes \in Seq(Nat \ {0})
  /\ LastMinute \in Nat
  /\ MaxAttempts \in Nat \ {0}
  /\ MaxEntries \in Nat \ {0}
  /\ MaxAge \in Nat
  /\ MaxCrashes \in Nat

VARIABLES
  now,         \* the minute it is
  row,         \* the PaperTrade rows of the crypto lanes
  guard,       \* trade:guard keys held in Redis
  checkpoint,  \* worker:checkpoint:scalper in Redis
  dlq,         \* paperTradeDLQ, oldest entry first
  crashes,     \* worker crashes so far
  tick         \* local state of the tick

vars == <<now, row, guard, checkpoint, dlq, crashes, tick>>

-----------------------------------------------------------------------------
(* Data *)

None == "none"

\* A signal: a lane and the minute at which its trigger bar closed.
Signals == [sym : Symbols, strategy : Strategies, tf : Range(Timeframes), at : 0..LastMinute]
NoSignal == [sym |-> None, strategy |-> None, tf |-> 0, at |-> 0]

SameLane(a, b) == a.sym = b.sym /\ a.strategy = b.strategy /\ a.tf = b.tf

\* What a tick calls an item.  Strategies are not told apart.
ItemId(sig) == <<sig.sym, sig.tf, sig.at>>
Items == {ItemId(sig) : sig \in Signals}

\* The guard's sixty-second bucket is the minute itself.
GuardKey(sig) == <<sig.strategy, sig.tf, sig.sym, sig.at>>

\* WIN, LOSS, EXPIRED and CANCELLED are not told apart.
NoRow == [st |-> None]
Row == [st : {"OPEN", "CLOSED"}, sig : Signals]
Exists(t) == row[t].st # None
IsOpen(t) == row[t].st = "OPEN"

NoCheckpoint == [found |-> FALSE, items |-> {}]
Checkpoint == [found : BOOLEAN, items : SUBSET Items]

Entry == [sig : Signals, at : 0..LastMinute]

\* prior is priorCheckpoint, items the completedItems of the tick in memory,
\* flushing whether sig comes from the queue, replay what is left of a flush.
TickIdle == [pc |-> "idle", tfs |-> <<>>, todo |-> {}, sig |-> NoSignal,
             attempt |-> 1, opened |-> FALSE, items |-> {}, prior |-> {},
             flushing |-> FALSE, replay |-> <<>>, since |-> 0]

Tick == [pc : {"idle", "flush", "scan", "look", "create", "settle", "resolve"},
         tfs : Seq(Range(Timeframes)), todo : SUBSET Signals,
         sig : Signals \cup {NoSignal}, attempt : 1..MaxAttempts,
         opened : BOOLEAN, items : SUBSET Items, prior : SUBSET Items,
         flushing : BOOLEAN, replay : Seq(Entry), since : 0..LastMinute]

-----------------------------------------------------------------------------
(* Redis, best effort *)

\* A set that may fail and leave what was there.
Persist(items) == checkpoint' \in {checkpoint, [found |-> TRUE, items |-> items]}
Guarded(sig) == GuardKey(sig) \in guard
SetGuard(sig) == guard' \in {guard, guard \cup {GuardKey(sig)}}

\* A checkpoint runs out, or is too old when it is loaded.
CheckpointExpires ==
  /\ checkpoint.found
  /\ checkpoint' = NoCheckpoint
  /\ UNCHANGED <<now, row, guard, dlq, crashes, tick>>

GuardExpires(key) ==
  /\ key \in guard
  /\ guard' = guard \ {key}
  /\ UNCHANGED <<now, row, checkpoint, dlq, crashes, tick>>

-----------------------------------------------------------------------------
(* The dead letter queue *)

EnqueueUnbounded(q, e) == Append(q, e)
\* A full queue drops its oldest entry.
Enqueue(q, e) == Append(IF Len(q) < MaxEntries THEN q ELSE Tail(q), e)

\* Ages are taken when the flush begins.
TooOld(e) == tick.since - e.at > MaxAge

-----------------------------------------------------------------------------
(* The beginning of a tick: load, start, and take the queue *)

\* start replaces what load returned, in memory and in Redis.
TickBegin ==
  /\ tick.pc = "idle"
  /\ \E loaded \in {checkpoint, NoCheckpoint} :
       tick' = [TickIdle EXCEPT !.pc = "flush", !.tfs = Timeframes, !.replay = dlq,
                                !.since = now, !.prior = loaded.items]
  /\ Persist({})
  /\ dlq' = <<>>
  /\ UNCHANGED <<now, row, guard, crashes>>

FlushDrop ==
  /\ tick.pc = "flush" /\ tick.replay # <<>>
  /\ TooOld(Head(tick.replay))
  /\ tick' = [tick EXCEPT !.replay = Tail(@)]
  /\ UNCHANGED <<now, row, guard, checkpoint, dlq, crashes>>

FlushNext ==
  /\ tick.pc = "flush" /\ tick.replay # <<>>
  /\ ~TooOld(Head(tick.replay))
  /\ tick' = [tick EXCEPT !.pc = "look", !.sig = Head(tick.replay).sig, !.flushing = TRUE]
  /\ UNCHANGED <<now, row, guard, checkpoint, dlq, crashes>>

FlushEnd ==
  /\ tick.pc = "flush" /\ tick.replay = <<>>
  /\ tick' = [tick EXCEPT !.pc = "scan", !.since = 0]
  /\ UNCHANGED <<now, row, guard, checkpoint, dlq, crashes>>

-----------------------------------------------------------------------------
(* The scan: signals of one timeframe after another *)

\* Strategies look at the last closed bar only, so all of them trigger at the
\* same minute.  No signal stands for a fetch that failed as well.
LastClose(tf) == {m \in 0..now : m % tf = 0 /\ now - m < tf}

FetchSignals ==
  /\ tick.pc = "scan" /\ tick.todo = {} /\ tick.tfs # <<>>
  /\ LET tf == Head(tick.tfs)
         fresh == [sym : Symbols, strategy : Strategies, tf : {tf}, at : LastClose(tf)]
     IN \E fired \in SUBSET fresh :
          tick' = [tick EXCEPT !.todo = fired, !.tfs = Tail(@)]
  /\ UNCHANGED <<now, row, guard, checkpoint, dlq, crashes>>

SkipCompleted(sig) ==
  /\ tick.pc = "scan" /\ sig \in tick.todo
  /\ ItemId(sig) \in tick.items
  /\ tick' = [tick EXCEPT !.todo = @ \ {sig}]
  /\ UNCHANGED <<now, row, guard, checkpoint, dlq, crashes>>

\* The tick with the local variables of one signal or entry out of scope.
Between(pc) == [tick EXCEPT !.pc = pc, !.sig = NoSignal, !.attempt = 1,
                            !.opened = FALSE, !.flushing = FALSE]

MarkCompleted(sig) ==
  /\ tick' = [Between("scan") EXCEPT !.todo = @ \ {sig}, !.items = @ \cup {ItemId(sig)}]
  /\ Persist(tick.items \cup {ItemId(sig)})

Suppress(sig) ==
  /\ tick.pc = "scan" /\ sig \in tick.todo
  /\ ItemId(sig) \notin tick.items
  /\ Guarded(sig)
  /\ MarkCompleted(sig)
  /\ UNCHANGED <<now, row, guard, dlq, crashes>>

\* The guard is free, or Redis does not answer and the rows must decide.
Claim(sig) ==
  /\ tick.pc = "scan" /\ sig \in tick.todo
  /\ ItemId(sig) \notin tick.items
  /\ SetGuard(sig)
  /\ tick' = [tick EXCEPT !.pc = "look", !.sig = sig]
  /\ UNCHANGED <<now, row, checkpoint, dlq, crashes>>

-----------------------------------------------------------------------------
(* openPaperTrade, called by the flush and, with retries, by the scan *)

LaneOpen(sig) == \E t \in Rows : IsOpen(t) /\ SameLane(row[t].sig, sig)

TriggerTaken(sig) ==
  \E t \in Rows : /\ Exists(t) /\ SameLane(row[t].sig, sig)
                  /\ row[t].sig.at \in (sig.at - 1)..(sig.at + 1)

RefusedNearby(sig) == TriggerTaken(sig)
RefusedWhileOpen(sig) == LaneOpen(sig)
Refused(sig) == LaneOpen(sig) \/ TriggerTaken(sig)

\* The call returned: the next entry, or what is left to do for the signal.
Returned(opened) ==
  tick' = IF tick.flushing
          THEN [Between("flush") EXCEPT !.replay = Tail(@)]
          ELSE [tick EXCEPT !.pc = "settle", !.opened = opened]

ReplayForgotten ==
  /\ tick.flushing
  /\ tick' = [Between("flush") EXCEPT !.replay = Tail(@)]
  /\ UNCHANGED dlq

\* The call threw in a flush: the entry goes back to the end of the queue.
ReplayFailed ==
  /\ tick.flushing
  /\ tick' = [Between("flush") EXCEPT !.replay = Tail(@)]
  /\ dlq' = Append(dlq, Head(tick.replay))

\* It threw in the scan with an error that is retried, attempts permitting.
Retry ==
  /\ ~tick.flushing
  /\ tick.attempt < MaxAttempts
  /\ tick' = [tick EXCEPT !.pc = "look", !.attempt = @ + 1]
  /\ UNCHANGED dlq

\* Or with one that is not, or for the last time: the item stays unmarked.
GiveUp ==
  /\ ~tick.flushing
  /\ tick' = [Between("scan") EXCEPT !.todo = @ \ {tick.sig}]
  /\ dlq' = Enqueue(dlq, [sig |-> tick.sig, at |-> now])

Threw == ReplayFailed \/ Retry \/ GiveUp

Look ==
  /\ tick.pc = "look"
  /\ IF Refused(tick.sig)
     THEN Returned(FALSE)
     ELSE tick' = [tick EXCEPT !.pc = "create"]
  /\ UNCHANGED <<now, row, guard, checkpoint, dlq, crashes>>

Insert(t, sig) == row' = [row EXCEPT ![t] = [st |-> "OPEN", sig |-> sig]]

Create(t) ==
  /\ tick.pc = "create" /\ ~Exists(t)
  /\ Insert(t, tick.sig)
  /\ Returned(TRUE)
  /\ UNCHANGED <<now, guard, checkpoint, dlq, crashes>>

\* The row is there but the answer was lost.
CreateUnanswered(t) ==
  /\ tick.pc = "create" /\ ~Exists(t)
  /\ Insert(t, tick.sig)
  /\ Threw
  /\ UNCHANGED <<now, guard, checkpoint, crashes>>

CallFails ==
  /\ tick.pc \in {"look", "create"}
  /\ Threw
  /\ UNCHANGED <<now, row, guard, checkpoint, crashes>>

\* A trade that was opened is registered with the guard; a key that is held,
\* as the claim's own is, is left as it is.
Settle ==
  /\ tick.pc = "settle"
  /\ IF tick.opened THEN SetGuard(tick.sig) ELSE UNCHANGED guard
  /\ MarkCompleted(tick.sig)
  /\ UNCHANGED <<now, row, dlq, crashes>>

-----------------------------------------------------------------------------
(* The end of a tick, and other closers *)

ScanEnd ==
  /\ tick.pc = "scan" /\ tick.todo = {} /\ tick.tfs = <<>>
  /\ tick' = [tick EXCEPT !.pc = "resolve"]
  /\ Persist(tick.items)
  /\ UNCHANGED <<now, row, guard, dlq, crashes>>

Close(t) == row' = [row EXCEPT ![t].st = "CLOSED"]

ResolveTrade(t) ==
  /\ tick.pc = "resolve" /\ IsOpen(t)
  /\ Close(t)
  /\ UNCHANGED <<now, guard, checkpoint, dlq, crashes, tick>>

\* clear is best effort too.
TickEnd ==
  /\ tick.pc = "resolve"
  /\ tick' = TickIdle
  /\ checkpoint' \in {checkpoint, NoCheckpoint}
  /\ UNCHANGED <<now, row, guard, dlq, crashes>>

\* A cancel request in the web process, at any moment.
CancelTrade(t) ==
  /\ IsOpen(t)
  /\ Close(t)
  /\ UNCHANGED <<now, guard, checkpoint, dlq, crashes, tick>>

WorkerCrash ==
  /\ crashes < MaxCrashes
  /\ crashes' = crashes + 1
  /\ tick' = TickIdle
  /\ dlq' = <<>>
  /\ UNCHANGED <<now, row, guard, checkpoint>>

Minute ==
  /\ now < LastMinute
  /\ now' = now + 1
  /\ UNCHANGED <<row, guard, checkpoint, dlq, crashes, tick>>

-----------------------------------------------------------------------------
Init ==
  /\ now = 0
  /\ row = [t \in Rows |-> NoRow]
  /\ guard = {}
  /\ checkpoint = NoCheckpoint
  /\ dlq = <<>>
  /\ crashes = 0
  /\ tick = TickIdle

\* Steps of the tick that only the job's own code decides on.
TickStep ==
  \/ TickBegin \/ FlushDrop \/ FlushNext \/ FlushEnd \/ FetchSignals
  \/ \E sig \in tick.todo : SkipCompleted(sig) \/ Suppress(sig) \/ Claim(sig)
  \/ Look \/ CallFails \/ Settle \/ ScanEnd \/ TickEnd
  \/ \E t \in Rows : Create(t) \/ CreateUnanswered(t)

Environment ==
  \/ \E t \in Rows : ResolveTrade(t) \/ CancelTrade(t)
  \/ \E key \in guard : GuardExpires(key)
  \/ CheckpointExpires \/ WorkerCrash \/ Minute

Next == TickStep \/ Environment

Spec == Init /\ [][Next]_vars

-----------------------------------------------------------------------------
(* Properties *)

\* The shape of the state; the dead letter queue, with what a flush has
\* taken out of it, never holds more than maxEntries.
TypeOK ==
  /\ now \in 0..LastMinute
  /\ row \in [Rows -> Row \cup {NoRow}]
  /\ checkpoint \in Checkpoint
  /\ dlq \in Seq(Entry)
  /\ Len(dlq) + Len(tick.replay) <= MaxEntries
  /\ crashes \in Nat
  /\ tick \in Tick

\* A lane never has two open trades: openPaperTrade looks for an open row and
\* creates later, a create whose answer is lost is repeated at once and
\* replayed in a later tick, and a restarted worker scans the same bar again.
OnePerLane ==
  \A t, u \in Rows :
    IsOpen(t) /\ IsOpen(u) /\ SameLane(row[t].sig, row[u].sig) => t = u

\* A trigger is traded at most once, for ever: no two rows of a lane were
\* opened by triggers within a minute, though the signal returns on every
\* tick of its bar, its guard may be lost and its write be replayed up to an
\* hour later, after the first trade has closed.
TriggerOpensOnce ==
  \A t, u \in Rows :
    /\ Exists(t) /\ Exists(u) /\ SameLane(row[t].sig, row[u].sig)
    /\ row[t].sig.at \in (row[u].sig.at - 1)..(row[u].sig.at + 1)
    => t = u

\* The table as a book of trades whose slots are the lanes.
LaneOf(sig) == <<sig.sym, sig.strategy, sig.tf>>
TradeOf(r) ==
  IF r.st = None
  THEN [st |-> "none"]
  ELSE [st |-> IF r.st = "OPEN" THEN "open" ELSE "closed",
        slot |-> LaneOf(r.sig), lane |-> LaneOf(r.sig), at |-> r.sig.at]

RowBook == [t \in Rows |-> TradeOf(row[t])]
LaneNames == {LaneOf(sig) : sig \in Signals}

Book == INSTANCE AtomicBook WITH
          Ids <- Rows, Slots <- LaneNames, Lanes <- LaneNames, Times <- 0..LastMinute,
          book <- RowBook

\* The job opens trades as if it looked and created in one step: retries,
\* replays, lost answers, crashes and closers beside it never show.
OpensAtomically == Book!BookSpec

Served(sig) == LaneOpen(sig) \/ TriggerTaken(sig)
Waiting == Range(dlq) \cup Range(tick.replay)

\* A failed write is not dropped silently: it leaves the dead letter queue
\* only when its lane holds a trade, when it is too old, when the queue
\* overflows, or with the process (DbDeadLetterQueue: "no silent data loss").
WritesAreKept ==
  [][\A e \in Waiting : e \in Waiting' \/ Served(e.sig)' \/ TooOld(e)
                        \/ Len(dlq) = MaxEntries \/ crashes' # crashes]_vars

\* What the header of the job says of its lanes, one per symbol, strategy and
\* timeframe: a signal is passed over as completed only if its own lane has
\* been dealt with.  It is not so: an item does not name the strategy.
LanesAreSeparate ==
  [][\A sig \in tick.todo : SkipCompleted(sig) => Served(sig) \/ Guarded(sig)]_vars
==============================================================================
