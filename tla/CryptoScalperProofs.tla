------------------------- MODULE CryptoScalperProofs -------------------------
(***************************************************************************)
(* Theorems about CryptoScalper, for every number of lanes, rows, retries, *)
(* crashes and queue entries.                                              *)
(***************************************************************************)
EXTENDS CryptoScalper, SequenceTheorems, TLAPS

-----------------------------------------------------------------------------
(* Sequences, as the dead letter queue uses them *)

\* Taking the head of a sequence leaves everything else in the tail.
LEMMA TailKeeps ==
  ASSUME NEW S, NEW q \in Seq(S), q # <<>>
  PROVE  /\ Head(q) \in S
         /\ Tail(q) \in Seq(S)
         /\ Len(Tail(q)) = Len(q) - 1
         /\ \A e \in Range(q) : e = Head(q) \/ e \in Range(Tail(q))
         /\ Head(q) \in Range(q)
<1>1. /\ Head(q) \in S /\ Tail(q) \in Seq(S) /\ Len(Tail(q)) = Len(q) - 1
      /\ Len(q) \in Nat \ {0}
  OBVIOUS
<1>2. ASSUME NEW e \in Range(q) PROVE e = Head(q) \/ e \in Range(Tail(q))
  <2>1. PICK i \in 1..Len(q) : e = q[i]
    BY <1>2 DEF Range
  <2>2. CASE i = 1
    BY <2>1, <2>2
  <2>3. CASE i # 1
    <3>1. i - 1 \in 1..Len(Tail(q)) /\ Tail(q)[i - 1] = q[i]
      BY <1>1, <2>1, <2>3
    <3>2. i - 1 \in DOMAIN Tail(q)
      BY <1>1, <3>1
    <3> QED BY <2>1, <3>1, <3>2 DEF Range
  <2> QED BY <2>2, <2>3
<1>3. Head(q) \in Range(q)
  BY <1>1 DEF Range
<1> QED BY <1>1, <1>2, <1>3

\* Appending to a sequence keeps what it holds and adds the element.
LEMMA AppendKeeps ==
  ASSUME NEW S, NEW q \in Seq(S), NEW x \in S
  PROVE  /\ Append(q, x) \in Seq(S)
         /\ Len(Append(q, x)) = Len(q) + 1
         /\ \A e \in Range(q) : e \in Range(Append(q, x))
         /\ x \in Range(Append(q, x))
<1>1. /\ Append(q, x) \in Seq(S) /\ Len(Append(q, x)) = Len(q) + 1
      /\ Len(q) \in Nat
  OBVIOUS
<1>2. ASSUME NEW e \in Range(q) PROVE e \in Range(Append(q, x))
  <2>1. PICK i \in 1..Len(q) : e = q[i]
    BY <1>2 DEF Range
  <2>2. i \in DOMAIN Append(q, x) /\ Append(q, x)[i] = q[i]
    BY <1>1, <2>1
  <2> QED BY <2>1, <2>2 DEF Range
<1>3. x \in Range(Append(q, x))
  <2>1. Len(q) + 1 \in DOMAIN Append(q, x) /\ Append(q, x)[Len(q) + 1] = x
    BY <1>1
  <2> QED BY <2>1 DEF Range
<1> QED BY <1>1, <1>2, <1>3

\* A queue that is not full grows; a full one loses its oldest entry only.
LEMMA EnqueueBounded ==
  ASSUME NEW q \in Seq(Entry), NEW x \in Entry, Len(q) <= MaxEntries
  PROVE  /\ Enqueue(q, x) \in Seq(Entry)
         /\ Len(Enqueue(q, x)) <= MaxEntries
         /\ Len(q) # MaxEntries => \A e \in Range(q) : e \in Range(Enqueue(q, x))
<1>1. Len(q) \in Nat /\ MaxEntries \in Nat \ {0}
  BY ScalperAssumption
<1>2. CASE Len(q) < MaxEntries
  BY <1>1, <1>2, AppendKeeps DEF Enqueue
<1>3. CASE Len(q) = MaxEntries
  <2>1. q # <<>>
    BY <1>1, <1>3
  <2>2. Tail(q) \in Seq(Entry) /\ Len(Tail(q)) = Len(q) - 1
    BY <2>1, TailKeeps
  <2> QED BY <1>1, <1>3, <2>2, AppendKeeps DEF Enqueue
<1> QED BY <1>1, <1>2, <1>3

-----------------------------------------------------------------------------
(* Type correctness *)

\* What the tick remembers between two calls: a call is made for a signal, in
\* a flush for the entry at the head of what is left, and only a flush has
\* entries left.
TickInv ==
  /\ tick.pc \in {"look", "create", "settle"} => tick.sig \in Signals
  /\ tick.flushing => /\ tick.pc \in {"look", "create"}
                      /\ tick.replay # <<>>
                      /\ tick.sig = Head(tick.replay).sig
  /\ ~tick.flushing /\ tick.pc # "flush" => tick.replay = <<>>

TypeInv == TypeOK /\ TickInv

USE ScalperAssumption

LEMMA IdleTyped == TickIdle \in Tick /\ TickIdle.pc = "idle" /\ ~TickIdle.flushing
                   /\ TickIdle.replay = <<>>
BY DEF TickIdle, Tick

LEMMA TypeInit == Init => TypeInv
<1> SUFFICES ASSUME Init PROVE TypeInv
  OBVIOUS
<1>1. TickIdle \in Tick
  BY IdleTyped
<1>2. NoCheckpoint \in Checkpoint
  BY DEF NoCheckpoint, Checkpoint
<1>3. TypeOK
  BY <1>1, <1>2 DEF Init, TypeOK, TickIdle
<1>4. TickInv
  BY DEF Init, TickInv, TickIdle
<1> QED BY <1>3, <1>4 DEF TypeInv

\* The checkpoint stays well-formed when a set of items is persisted or not.
LEMMA PersistTyped ==
  ASSUME TypeOK, NEW items \in SUBSET Items, Persist(items)
  PROVE  checkpoint' \in Checkpoint
<1>1. [found |-> TRUE, items |-> items] \in Checkpoint
  BY DEF Checkpoint
<1> QED BY <1>1 DEF TypeOK, Persist

\* The fields of a well-formed tick.
LEMMA TickFields ==
  ASSUME tick \in Tick
  PROVE  /\ tick.pc \in {"idle", "flush", "scan", "look", "create", "settle", "resolve"}
         /\ tick.tfs \in Seq(Range(Timeframes)) /\ tick.todo \subseteq Signals
         /\ tick.sig \in Signals \cup {NoSignal} /\ tick.attempt \in 1..MaxAttempts
         /\ tick.opened \in BOOLEAN /\ tick.items \subseteq Items
         /\ tick.prior \subseteq Items /\ tick.flushing \in BOOLEAN
         /\ tick.replay \in Seq(Entry) /\ tick.since \in 0..LastMinute
BY DEF Tick

\* Between two signals or entries the tick is well-formed and remembers none.
LEMMA BetweenTyped ==
  ASSUME tick \in Tick, NEW pc \in {"scan", "flush"}
  PROVE  /\ Between(pc) \in Tick
         /\ Between(pc).pc = pc /\ ~Between(pc).flushing
         /\ Between(pc).replay = tick.replay
         /\ Between(pc).todo = tick.todo /\ Between(pc).items = tick.items
<1>1. 1 \in 1..MaxAttempts /\ FALSE \in BOOLEAN /\ NoSignal \in Signals \cup {NoSignal}
  OBVIOUS
<1>2. Between(pc) \in Tick
  BY <1>1 DEF Between, Tick
<1>3. /\ Between(pc).pc = pc /\ ~Between(pc).flushing
      /\ Between(pc).replay = tick.replay
      /\ Between(pc).todo = tick.todo /\ Between(pc).items = tick.items
  BY DEF Between, Tick
<1> QED BY <1>2, <1>3

LEMMA MarkTyped ==
  ASSUME TypeInv, NEW sig \in Signals, ~tick.flushing, tick.pc # "flush",
         MarkCompleted(sig), UNCHANGED <<now, row, dlq, crashes>>
  PROVE  TypeInv'
<1> USE DEF TypeInv
<1>1. ItemId(sig) \in Items
  BY DEF Items
<1>2. tick.todo \ {sig} \subseteq Signals /\ tick.items \cup {ItemId(sig)} \subseteq Items
  BY <1>1, TickFields DEF TypeOK
<1>3. /\ tick' \in Tick
      /\ tick'.pc = "scan" /\ ~tick'.flushing /\ tick'.replay = tick.replay
  BY <1>2, BetweenTyped DEF MarkCompleted, TypeOK, Tick
<1>4. checkpoint' \in Checkpoint
  BY <1>2, PersistTyped DEF MarkCompleted
<1>5. TypeOK'
  BY <1>3, <1>4 DEF TypeOK
<1>6. TickInv'
  BY <1>3 DEF TickInv
<1> QED BY <1>5, <1>6

\* An entry of the queue can be replayed: its signal is one.
LEMMA HeadEntry ==
  ASSUME tick \in Tick, tick.replay # <<>>
  PROVE  /\ Head(tick.replay) \in Entry /\ Head(tick.replay).sig \in Signals
         /\ Tail(tick.replay) \in Seq(Entry)
         /\ Len(Tail(tick.replay)) = Len(tick.replay) - 1
         /\ Len(tick.replay) \in Nat
<1>1. tick.replay \in Seq(Entry)
  BY TickFields
<1>2. Head(tick.replay) \in Entry
  BY <1>1, TailKeeps
<1>3. Head(tick.replay).sig \in Signals
  BY <1>2 DEF Entry
<1> QED BY <1>1, <1>2, <1>3, TailKeeps

LEMMA TypeTickBegin ==
  ASSUME TypeInv, TickBegin
  PROVE  TypeInv'
<1> USE DEF TypeInv
<1>1. PICK loaded \in {checkpoint, NoCheckpoint} :
        tick' = [TickIdle EXCEPT !.pc = "flush", !.tfs = Timeframes, !.replay = dlq,
                                 !.since = now, !.prior = loaded.items]
  BY DEF TickBegin
<1>2. loaded.items \subseteq Items
  BY DEF TypeOK, Checkpoint, NoCheckpoint
<1>3. Timeframes \in Seq(Range(Timeframes))
  <2>1. Len(Timeframes) \in Nat /\ Timeframes \in [1..Len(Timeframes) -> Range(Timeframes)]
    BY LenProperties DEF Range
  <2> QED BY <2>1, SeqDef
<1>4. /\ tick' \in Tick /\ tick'.pc = "flush" /\ tick'.replay = dlq /\ ~tick'.flushing
  <2>1. dlq \in Seq(Entry) /\ now \in 0..LastMinute
    BY DEF TypeOK
  <2>2. TickIdle \in Tick /\ ~TickIdle.flushing
    BY IdleTyped
  <2> QED BY <1>1, <1>2, <1>3, <2>1, <2>2 DEF Tick
<1>5. checkpoint' \in Checkpoint
  BY PersistTyped DEF TickBegin
<1>6. /\ dlq' = <<>> /\ UNCHANGED <<now, row, crashes>>
      /\ Len(dlq) + Len(tick.replay) <= MaxEntries /\ tick.replay = <<>>
  BY DEF TickBegin, TypeOK, TickInv
<1>7. TypeOK'
  BY <1>4, <1>5, <1>6 DEF TypeOK
<1>8. TickInv'
  BY <1>4 DEF TickInv
<1> QED BY <1>7, <1>8

\* The steps that take an entry out of the flush, and change nothing else.
LEMMA TypeFlush ==
  ASSUME TypeInv, FlushDrop \/ FlushNext \/ FlushEnd
  PROVE  TypeInv'
<1> USE DEF TypeInv
<1>1. /\ tick \in Tick /\ tick.pc = "flush" /\ ~tick.flushing
      /\ UNCHANGED <<now, row, checkpoint, dlq, crashes>>
  BY TickFields DEF FlushDrop, FlushNext, FlushEnd, TypeOK, TickInv
<1>2. CASE FlushDrop
  <2>1. /\ tick' \in Tick /\ tick'.pc = "flush" /\ ~tick'.flushing
        /\ Len(tick'.replay) = Len(tick.replay) - 1 /\ Len(tick.replay) \in Nat
    BY <1>1, <1>2, HeadEntry DEF FlushDrop, Tick
  <2>2. TypeOK'
    BY <1>1, <2>1 DEF TypeOK
  <2> QED BY <2>1, <2>2 DEF TickInv
<1>3. CASE FlushNext
  <2>1. /\ tick' \in Tick /\ tick'.pc = "look" /\ tick'.flushing
        /\ tick'.replay = tick.replay /\ tick.replay # <<>>
        /\ tick'.sig = Head(tick.replay).sig /\ tick'.sig \in Signals
    BY <1>1, <1>3, HeadEntry DEF FlushNext, Tick
  <2>2. TypeOK'
    BY <1>1, <2>1 DEF TypeOK
  <2> QED BY <2>1, <2>2 DEF TickInv
<1>4. CASE FlushEnd
  <2>1. /\ tick' \in Tick /\ tick'.pc = "scan" /\ ~tick'.flushing
        /\ tick'.replay = tick.replay /\ tick.replay = <<>>
    <3>1. 0 \in 0..LastMinute
      OBVIOUS
    <3> QED BY <1>1, <1>4, <3>1 DEF FlushEnd, Tick
  <2>2. TypeOK'
    BY <1>1, <2>1 DEF TypeOK
  <2> QED BY <2>1, <2>2 DEF TickInv
<1> QED BY <1>2, <1>3, <1>4

\* The steps of the scan, up to the call.
LEMMA TypeScan ==
  ASSUME TypeInv,
         \/ FetchSignals \/ ScanEnd
         \/ \E sig \in tick.todo : SkipCompleted(sig) \/ Suppress(sig) \/ Claim(sig)
  PROVE  TypeInv'
<1> USE DEF TypeInv
<1>1. /\ tick \in Tick /\ tick.pc = "scan" /\ ~tick.flushing /\ tick.replay = <<>>
      /\ tick.todo \subseteq Signals /\ tick.items \subseteq Items
      /\ UNCHANGED <<now, row, dlq, crashes>>
  BY TickFields DEF FetchSignals, ScanEnd, SkipCompleted, Suppress, Claim, TypeOK, TickInv
<1>2. CASE FetchSignals
  <2> DEFINE tf == Head(tick.tfs)
  <2>1. tf \in Range(Timeframes) /\ Tail(tick.tfs) \in Seq(Range(Timeframes))
    BY <1>1, <1>2, TickFields, TailKeeps DEF FetchSignals
  <2>2. PICK fired \in SUBSET [sym : Symbols, strategy : Strategies, tf : {tf},
                               at : LastClose(tf)] :
          tick' = [tick EXCEPT !.todo = fired, !.tfs = Tail(@)]
    BY <1>2 DEF FetchSignals
  <2>3. LastClose(tf) \subseteq 0..LastMinute
    BY DEF LastClose, TypeOK
  <2>4. fired \subseteq Signals
    BY <2>1, <2>2, <2>3 DEF Signals
  <2>5. /\ tick' \in Tick /\ tick'.pc = "scan" /\ ~tick'.flushing
        /\ tick'.replay = tick.replay
    BY <1>1, <2>1, <2>2, <2>4 DEF Tick
  <2>6. TypeOK'
    BY <1>1, <1>2, <2>5 DEF TypeOK, FetchSignals
  <2> QED BY <1>1, <2>5, <2>6 DEF TickInv
<1>3. CASE ScanEnd
  <2>1. /\ tick' \in Tick /\ tick'.pc = "resolve" /\ ~tick'.flushing
        /\ tick'.replay = tick.replay
    BY <1>1, <1>3 DEF ScanEnd, Tick
  <2>2. checkpoint' \in Checkpoint
    BY <1>1, <1>3, PersistTyped DEF ScanEnd
  <2>3. TypeOK'
    BY <1>1, <2>1, <2>2 DEF TypeOK
  <2> QED BY <1>1, <2>1, <2>3 DEF TickInv
<1>4. ASSUME NEW sig \in tick.todo, SkipCompleted(sig) PROVE TypeInv'
  <2>1. /\ tick' \in Tick /\ tick'.pc = "scan" /\ ~tick'.flushing
        /\ tick'.replay = tick.replay
    BY <1>1, <1>4 DEF SkipCompleted, Tick
  <2>2. TypeOK'
    BY <1>1, <1>4, <2>1 DEF TypeOK, SkipCompleted
  <2> QED BY <1>1, <2>1, <2>2 DEF TickInv
<1>5. ASSUME NEW sig \in tick.todo, Suppress(sig) PROVE TypeInv'
  BY <1>1, <1>5, MarkTyped DEF Suppress
<1>6. ASSUME NEW sig \in tick.todo, Claim(sig) PROVE TypeInv'
  <2>1. /\ tick' \in Tick /\ tick'.pc = "look" /\ ~tick'.flushing
        /\ tick'.replay = tick.replay /\ tick'.sig \in Signals
    BY <1>1, <1>6 DEF Claim, Tick
  <2>2. TypeOK'
    BY <1>1, <1>6, <2>1 DEF TypeOK, Claim
  <2> QED BY <1>1, <2>1, <2>2 DEF TickInv
<1> QED BY <1>2, <1>3, <1>4, <1>5, <1>6

\* The steps of openPaperTrade and what follows it.
LEMMA TypeReturned ==
  ASSUME TypeInv, tick.pc \in {"look", "create"}, NEW opened \in BOOLEAN,
         Returned(opened), UNCHANGED dlq
  PROVE  /\ tick' \in Tick /\ TickInv' /\ Len(dlq') + Len(tick'.replay) <= MaxEntries
<1> USE DEF TypeInv
<1>1. tick \in Tick /\ Len(dlq) \in Nat /\ Len(dlq) + Len(tick.replay) <= MaxEntries
  BY DEF TypeOK
<1>2. CASE tick.flushing
  <2>1. tick.replay # <<>>
    BY <1>2 DEF TickInv
  <2>2. /\ tick' \in Tick /\ tick'.pc = "flush" /\ ~tick'.flushing
        /\ tick'.replay = Tail(tick.replay)
    BY <1>1, <1>2, <2>1, HeadEntry, BetweenTyped DEF Returned, Tick
  <2> QED BY <1>1, <2>1, <2>2, HeadEntry DEF TickInv
<1>3. CASE ~tick.flushing
  <2>1. /\ tick' \in Tick /\ tick'.pc = "settle" /\ ~tick'.flushing
        /\ tick'.replay = tick.replay /\ tick'.sig = tick.sig
    BY <1>1, <1>3 DEF Returned, Tick
  <2> QED BY <1>1, <1>3, <2>1 DEF TickInv
<1> QED BY <1>2, <1>3

LEMMA TypeThrew ==
  ASSUME TypeInv, tick.pc \in {"look", "create"}, Threw
  PROVE  /\ tick' \in Tick /\ TickInv' /\ dlq' \in Seq(Entry)
         /\ Len(dlq') + Len(tick'.replay) <= MaxEntries
<1> USE DEF TypeInv
<1>1. /\ tick \in Tick /\ dlq \in Seq(Entry) /\ Len(dlq) \in Nat
      /\ Len(dlq) + Len(tick.replay) <= MaxEntries
  BY DEF TypeOK
<1>2. CASE ReplayFailed
  <2>1. tick.replay # <<>>
    BY <1>2 DEF ReplayFailed, TickInv
  <2>2. /\ tick' \in Tick /\ tick'.pc = "flush" /\ ~tick'.flushing
        /\ tick'.replay = Tail(tick.replay)
    BY <1>1, <1>2, <2>1, HeadEntry, BetweenTyped DEF ReplayFailed, Tick
  <2>3. dlq' \in Seq(Entry) /\ Len(dlq') = Len(dlq) + 1
    BY <1>1, <1>2, <2>1, HeadEntry, AppendKeeps DEF ReplayFailed
  <2>4. Len(tick'.replay) = Len(tick.replay) - 1 /\ Len(tick.replay) \in Nat
    BY <1>1, <2>1, <2>2, HeadEntry
  <2>5. TickInv'
    BY <2>2 DEF TickInv
  <2>6. Len(dlq') + Len(tick'.replay) <= MaxEntries
    <3>1. \A a, b \in Nat : a + b <= MaxEntries => (a + 1) + (b - 1) <= MaxEntries
      OBVIOUS
    <3> QED BY <1>1, <2>3, <2>4, <3>1, Zenon
  <2> QED BY <2>2, <2>3, <2>5, <2>6
<1>3. CASE Retry
  <2>1. tick.attempt + 1 \in 1..MaxAttempts
    <3>1. tick.attempt \in 1..MaxAttempts /\ tick.attempt < MaxAttempts
      BY <1>1, <1>3, TickFields DEF Retry
    <3> QED BY <3>1
  <2>2. /\ tick' \in Tick /\ tick'.pc = "look" /\ ~tick'.flushing
        /\ tick'.replay = tick.replay /\ tick'.sig = tick.sig
    BY <1>1, <1>3, <2>1 DEF Retry, Tick
  <2> QED BY <1>1, <1>3, <2>2 DEF TickInv, Retry
<1>4. CASE GiveUp
  <2>1. tick.replay = <<>> /\ tick.sig \in Signals
    BY <1>4 DEF GiveUp, TickInv
  <2>2. /\ tick' \in Tick /\ tick'.pc = "scan" /\ ~tick'.flushing
        /\ tick'.replay = tick.replay
    BY <1>1, <1>4, BetweenTyped DEF GiveUp, Tick
  <2>3. [sig |-> tick.sig, at |-> now] \in Entry
    BY <2>1 DEF Entry, TypeOK
  <2>4. dlq' \in Seq(Entry) /\ Len(dlq') <= MaxEntries
    BY <1>1, <1>4, <2>1, <2>3, EnqueueBounded DEF GiveUp
  <2> QED BY <2>1, <2>2, <2>4 DEF TickInv
<1> QED BY <1>2, <1>3, <1>4 DEF Threw

LEMMA TypeInsert ==
  ASSUME TypeOK, NEW t \in Rows, NEW sig \in Signals, Insert(t, sig)
  PROVE  row' \in [Rows -> Row \cup {NoRow}]
<1>1. [st |-> "OPEN", sig |-> sig] \in Row
  BY DEF Row
<1> QED BY <1>1 DEF Insert, TypeOK

LEMMA TypeCall ==
  ASSUME TypeInv,
         Look \/ CallFails \/ \E t \in Rows : Create(t) \/ CreateUnanswered(t)
  PROVE  TypeInv'
<1> USE DEF TypeInv
<1>1. /\ tick.pc \in {"look", "create"} /\ tick \in Tick /\ tick.sig \in Signals
      /\ UNCHANGED <<now, checkpoint, crashes>>
  BY DEF Look, CallFails, Create, CreateUnanswered, TypeOK, TickInv
<1>2. ASSUME Look PROVE TypeInv'
  <2>1. CASE Refused(tick.sig)
    BY <1>1, <1>2, <2>1, TypeReturned DEF Look, TypeOK
  <2>2. CASE ~Refused(tick.sig)
    <3>1. tick' \in Tick /\ tick' = [tick EXCEPT !.pc = "create"]
      BY <1>1, <1>2, <2>2 DEF Look, Tick
    <3>2. /\ tick'.pc = "create" /\ tick'.flushing = tick.flushing
          /\ tick'.replay = tick.replay /\ tick'.sig = tick.sig
      BY <1>1, <3>1 DEF Tick
    <3>3. TypeOK'
      BY <1>2, <3>1, <3>2 DEF Look, TypeOK
    <3> QED BY <1>1, <3>2, <3>3 DEF TickInv
  <2> QED BY <2>1, <2>2
<1>3. ASSUME CallFails PROVE TypeInv'
  BY <1>1, <1>3, TypeThrew DEF CallFails, TypeOK
<1>4. ASSUME NEW t \in Rows, Create(t) PROVE TypeInv'
  <2>1. row' \in [Rows -> Row \cup {NoRow}]
    BY <1>1, <1>4, TypeInsert DEF Create
  <2> QED BY <1>1, <1>4, <2>1, TypeReturned DEF Create, TypeOK
<1>5. ASSUME NEW t \in Rows, CreateUnanswered(t) PROVE TypeInv'
  <2>1. row' \in [Rows -> Row \cup {NoRow}]
    BY <1>1, <1>5, TypeInsert DEF CreateUnanswered
  <2> QED BY <1>1, <1>5, <2>1, TypeThrew DEF CreateUnanswered, TypeOK
<1> QED BY <1>2, <1>3, <1>4, <1>5

LEMMA TypeSettle ==
  ASSUME TypeInv, Settle
  PROVE  TypeInv'
<1>1. tick.sig \in Signals /\ ~tick.flushing /\ tick.pc # "flush"
  BY DEF Settle, TypeInv, TickInv
<1> QED BY <1>1, MarkTyped DEF Settle

\* Closing changes the status of one row only.
LEMMA TypeClose ==
  ASSUME TypeOK, NEW t \in Rows, IsOpen(t), Close(t)
  PROVE  row' \in [Rows -> Row \cup {NoRow}]
<1>1. row[t] \in Row
  BY DEF TypeOK, IsOpen, NoRow, None
<1>2. [row[t] EXCEPT !.st = "CLOSED"] \in Row
  BY <1>1 DEF Row
<1> QED BY <1>2 DEF TypeOK, Close

LEMMA TypeEnvironment ==
  ASSUME TypeInv, Environment \/ TickEnd \/ UNCHANGED vars
  PROVE  TypeInv'
<1> USE DEF TypeInv
<1>1. ASSUME NEW t \in Rows, ResolveTrade(t) \/ CancelTrade(t) PROVE TypeInv'
  <2>1. row' \in [Rows -> Row \cup {NoRow}]
    BY <1>1, TypeClose DEF ResolveTrade, CancelTrade
  <2> QED BY <1>1, <2>1 DEF ResolveTrade, CancelTrade, TypeOK, TickInv
<1>2. ASSUME NEW key \in guard, GuardExpires(key) PROVE TypeInv'
  BY <1>2 DEF GuardExpires, TypeOK, TickInv
<1>3. NoCheckpoint \in Checkpoint
  BY DEF NoCheckpoint, Checkpoint
<1>4. ASSUME CheckpointExpires PROVE TypeInv'
  BY <1>3, <1>4 DEF CheckpointExpires, TypeOK, TickInv
<1>5. ASSUME tick' = TickIdle, dlq' \in {dlq, <<>>} PROVE TickInv' /\ tick' \in Tick
             /\ dlq' \in Seq(Entry) /\ Len(dlq') + Len(tick'.replay) <= MaxEntries
  <2>1. /\ dlq \in Seq(Entry) /\ Len(dlq) \in Nat /\ Len(tick.replay) \in Nat
        /\ Len(dlq) + Len(tick.replay) <= MaxEntries
    BY TickFields DEF TypeOK
  <2>2. dlq' \in Seq(Entry) /\ Len(dlq') <= MaxEntries
    <3>1. CASE dlq' = dlq
      BY <2>1, <3>1
    <3>2. CASE dlq' = <<>>
      BY <3>2
    <3> QED BY <1>5, <3>1, <3>2
  <2> QED BY <1>5, <2>2, IdleTyped DEF TickInv
<1>6. ASSUME WorkerCrash PROVE TypeInv'
  BY <1>5, <1>6 DEF WorkerCrash, TypeOK
<1>7. ASSUME TickEnd PROVE TypeInv'
  BY <1>3, <1>5, <1>7 DEF TickEnd, TypeOK
<1>8. ASSUME Minute PROVE TypeInv'
  BY <1>8 DEF Minute, TypeOK, TickInv
<1>9. ASSUME UNCHANGED vars PROVE TypeInv'
  BY <1>9 DEF vars, TypeOK, TickInv
<1> QED BY <1>1, <1>2, <1>4, <1>6, <1>7, <1>8, <1>9 DEF Environment

LEMMA TypeStep == TypeInv /\ [Next]_vars => TypeInv'
BY TypeTickBegin, TypeFlush, TypeScan, TypeCall, TypeSettle, TypeEnvironment
   DEF Next, TickStep

LEMMA TypeAlways == Spec => []TypeInv
<1> QED BY TypeInit, TypeStep, PTL DEF Spec

\* In every reachable state the scalper's state is well-formed, and the dead
\* letter queue with what a flush has taken out of it is within maxEntries.
THEOREM TypeCorrect == Spec => []TypeOK
<1>1. TypeInv => TypeOK
  BY DEF TypeInv
<1> QED BY <1>1, TypeAlways, PTL

-----------------------------------------------------------------------------
(* One trade per lane, one trade per trigger *)

\* What the look-up established still holds when the row is created: between
\* the two nobody else opens a row, and closing one only helps.
LookedUp == tick.pc = "create" => ~Refused(tick.sig)

RowInv == OnePerLane /\ TriggerOpensOnce /\ LookedUp

\* A new row is an open trade of its signal, and the others stay as they are.
LEMMA InsertKeeps ==
  ASSUME TypeInv, RowInv, NEW t \in Rows, ~Exists(t), tick.pc = "create",
         Insert(t, tick.sig)
  PROVE  OnePerLane' /\ TriggerOpensOnce'
<1> DEFINE sig == tick.sig
<1>1. /\ row \in [Rows -> Row \cup {NoRow}] /\ sig \in Signals
      /\ ~LaneOpen(sig) /\ ~TriggerTaken(sig)
  BY DEF TypeInv, TypeOK, TickInv, RowInv, LookedUp, Refused
<1>2. /\ \A u \in Rows : u # t => row'[u] = row[u]
      /\ row'[t].st = "OPEN" /\ row'[t].sig = sig
  BY <1>1 DEF Insert
<1>3. ASSUME NEW u \in Rows, NEW v \in Rows, IsOpen(u)', IsOpen(v)',
             SameLane(row'[u].sig, row'[v].sig)
      PROVE  u = v
  BY <1>1, <1>2, <1>3 DEF RowInv, OnePerLane, IsOpen, SameLane, LaneOpen
<1>4. ASSUME NEW u \in Rows, Exists(u) PROVE row[u].sig \in Signals
  BY <1>1, <1>4 DEF Exists, Row, NoRow
<1>5. \A a, b \in 0..LastMinute : a \in (b - 1)..(b + 1) => b \in (a - 1)..(a + 1)
  OBVIOUS
<1>6. ASSUME NEW u \in Rows, NEW v \in Rows, Exists(u)', Exists(v)',
             SameLane(row'[u].sig, row'[v].sig),
             row'[u].sig.at \in (row'[v].sig.at - 1)..(row'[v].sig.at + 1)
      PROVE  u = v
  <2>1. CASE u # t /\ v # t
    BY <1>2, <1>6, <2>1 DEF RowInv, TriggerOpensOnce, Exists
  <2>2. CASE u # t /\ v = t
    BY <1>1, <1>2, <1>6, <2>2 DEF TriggerTaken, Exists
  <2>3. CASE u = t /\ v # t
    <3>1. Exists(v) /\ SameLane(row[v].sig, sig)
          /\ sig.at \in (row[v].sig.at - 1)..(row[v].sig.at + 1)
      BY <1>2, <1>6, <2>3 DEF Exists, SameLane
    <3>2. row[v].sig.at \in 0..LastMinute /\ sig.at \in 0..LastMinute
      BY <1>1, <1>4, <3>1 DEF Signals
    <3>3. row[v].sig.at \in (sig.at - 1)..(sig.at + 1)
      BY <1>5, <3>1, <3>2
    <3> QED BY <1>1, <3>1, <3>3 DEF TriggerTaken
  <2>4. CASE u = t /\ v = t
    BY <2>4
  <2> QED BY <2>1, <2>2, <2>3, <2>4
<1>7. OnePerLane'
  BY <1>3 DEF OnePerLane
<1>8. TriggerOpensOnce'
  BY <1>6 DEF TriggerOpensOnce
<1> QED BY <1>7, <1>8

\* Closing a row opens none and keeps every signal where it is.
LEMMA CloseKeeps ==
  ASSUME TypeInv, RowInv, NEW t \in Rows, IsOpen(t), Close(t), UNCHANGED tick
  PROVE  RowInv'
<1>1. row \in [Rows -> Row \cup {NoRow}]
  BY DEF TypeInv, TypeOK
<1>2. ASSUME NEW u \in Rows
      PROVE  /\ IsOpen(u)' => IsOpen(u)
             /\ Exists(u)' <=> Exists(u)
             /\ row'[u].sig = row[u].sig
  <2>1. CASE u = t
    <3>1. row[t] \in Row
      BY <1>1 DEF IsOpen, NoRow, None
    <3>2. row'[t].st = "CLOSED" /\ row'[t].sig = row[t].sig
      BY <1>1, <3>1 DEF Close, Row
    <3> QED BY <2>1, <3>2 DEF IsOpen, Exists, None
  <2>2. CASE u # t
    BY <1>1, <2>2 DEF Close, IsOpen, Exists
  <2> QED BY <2>1, <2>2
<1>3. OnePerLane'
  BY <1>2 DEF RowInv, OnePerLane
<1>4. TriggerOpensOnce'
  BY <1>2 DEF RowInv, TriggerOpensOnce
<1>5. LookedUp'
  BY <1>2 DEF RowInv, LookedUp, Refused, LaneOpen, TriggerTaken
<1> QED BY <1>3, <1>4, <1>5 DEF RowInv

\* A step that leaves the rows alone and does not reach the create.
LEMMA RowsKept ==
  ASSUME RowInv, UNCHANGED row, tick'.pc # "create" \/ UNCHANGED tick
  PROVE  RowInv'
<1>1. OnePerLane' /\ TriggerOpensOnce'
  BY DEF RowInv, OnePerLane, TriggerOpensOnce, IsOpen, Exists
<1>2. LookedUp'
  BY DEF RowInv, LookedUp, Refused, LaneOpen, TriggerTaken, IsOpen, Exists
<1> QED BY <1>1, <1>2 DEF RowInv

\* A call that returns or throws leaves the create behind.
LEMMA CallLeaves ==
  ASSUME TypeInv, (\E opened \in BOOLEAN : Returned(opened)) \/ Threw
  PROVE  tick'.pc # "create"
<1>1. tick \in Tick
  BY DEF TypeInv, TypeOK
<1>2. Between("flush").pc = "flush" /\ Between("scan").pc = "scan"
      /\ Between("flush") \in Tick /\ Between("scan") \in Tick
  BY <1>1, BetweenTyped
<1>3. ASSUME NEW opened \in BOOLEAN, Returned(opened) PROVE tick'.pc # "create"
  BY <1>1, <1>2, <1>3 DEF Returned, Tick
<1>4. ASSUME Threw PROVE tick'.pc # "create"
  BY <1>1, <1>2, <1>4 DEF Threw, ReplayFailed, Retry, GiveUp, Tick
<1> QED BY <1>3, <1>4

LEMMA RowStep == TypeInv /\ RowInv /\ [Next]_vars => RowInv'
<1> SUFFICES ASSUME TypeInv, RowInv, [Next]_vars PROVE RowInv'
  OBVIOUS
<1>1. tick \in Tick
  BY DEF TypeInv, TypeOK
<1>2. CASE Look
  <2>1. CASE Refused(tick.sig)
    BY <1>2, <2>1, CallLeaves, RowsKept DEF Look
  <2>2. CASE ~Refused(tick.sig)
    <3>1. tick'.sig = tick.sig /\ UNCHANGED row
      BY <1>1, <1>2, <2>2 DEF Look, Tick
    <3>2. LookedUp'
      BY <2>2, <3>1 DEF LookedUp, Refused, LaneOpen, TriggerTaken, IsOpen, Exists
    <3>3. OnePerLane' /\ TriggerOpensOnce'
      BY <3>1 DEF RowInv, OnePerLane, TriggerOpensOnce, IsOpen, Exists
    <3> QED BY <3>2, <3>3 DEF RowInv
  <2> QED BY <2>1, <2>2
<1>3. CASE CallFails
  BY <1>3, CallLeaves, RowsKept DEF CallFails
<1>4. ASSUME NEW t \in Rows, Create(t) \/ CreateUnanswered(t) PROVE RowInv'
  <2>1. OnePerLane' /\ TriggerOpensOnce'
    BY <1>4, InsertKeeps DEF Create, CreateUnanswered
  <2>2. tick'.pc # "create"
    BY <1>4, CallLeaves DEF Create, CreateUnanswered
  <2> QED BY <2>1, <2>2 DEF RowInv, LookedUp
<1>5. ASSUME NEW t \in Rows, ResolveTrade(t) \/ CancelTrade(t) PROVE RowInv'
  BY <1>5, CloseKeeps DEF ResolveTrade, CancelTrade
<1>6. CASE TickBegin
  BY <1>6, RowsKept, IdleTyped DEF TickBegin, Tick
<1>7. CASE FlushDrop \/ FlushNext \/ FlushEnd \/ FetchSignals \/ ScanEnd
  BY <1>1, <1>7, RowsKept DEF FlushDrop, FlushNext, FlushEnd, FetchSignals, ScanEnd, Tick
<1>8. ASSUME NEW sig \in tick.todo, SkipCompleted(sig) \/ Claim(sig) PROVE RowInv'
  BY <1>1, <1>8, RowsKept DEF SkipCompleted, Claim, Tick
<1>9. ASSUME NEW sig, MarkCompleted(sig), UNCHANGED row PROVE RowInv'
  <2>1. tick'.pc = "scan"
    BY <1>1, <1>9, BetweenTyped DEF MarkCompleted, Tick
  <2> QED BY <1>9, <2>1, RowsKept
<1>10. ASSUME NEW sig \in tick.todo, Suppress(sig) PROVE RowInv'
  BY <1>9, <1>10 DEF Suppress
<1>11. CASE Settle
  BY <1>9, <1>11 DEF Settle
<1>12. CASE TickEnd \/ WorkerCrash
  BY <1>12, RowsKept, IdleTyped DEF TickEnd, WorkerCrash
<1>13. CASE CheckpointExpires \/ Minute \/ \E key \in guard : GuardExpires(key)
  BY <1>13, RowsKept DEF CheckpointExpires, Minute, GuardExpires
<1>14. CASE UNCHANGED vars
  BY <1>14, RowsKept DEF vars
<1> QED
  BY <1>2, <1>3, <1>4, <1>5, <1>6, <1>7, <1>8, <1>10, <1>11, <1>12, <1>13, <1>14
     DEF Next, TickStep, Environment

LEMMA RowAlways == Spec => []RowInv
<1>1. Init => RowInv
  BY DEF Init, RowInv, OnePerLane, TriggerOpensOnce, LookedUp, IsOpen, Exists,
         NoRow, None, TickIdle
<1> QED BY <1>1, RowStep, TypeAlways, PTL DEF Spec

\* A lane never has two open trades, whatever is retried, replayed, lost,
\* closed under the tick or cut short by a crash.
THEOREM LanesOpenOnce == Spec => []OnePerLane
<1>1. RowInv => OnePerLane
  BY DEF RowInv
<1> QED BY <1>1, RowAlways, PTL

\* No two rows of a lane ever come from triggers within a minute, without any
\* help from Redis: the guard of the job is not needed for it.
THEOREM TriggersOpenOnce == Spec => []TriggerOpensOnce
<1>1. RowInv => TriggerOpensOnce
  BY DEF RowInv
<1> QED BY <1>1, RowAlways, PTL

-----------------------------------------------------------------------------
(* The tick as a single step *)

BookStep == Book!BookNext \/ UNCHANGED RowBook

\* What the book shows of a row.
LEMMA BookShows ==
  ASSUME TypeInv, NEW t \in Rows
  PROVE  /\ RowBook[t].st = "none" <=> ~Exists(t)
         /\ RowBook[t].st = "open" <=> IsOpen(t)
         /\ Exists(t) => /\ row[t] \in Row
                         /\ RowBook[t].slot = LaneOf(row[t].sig)
                         /\ RowBook[t].lane = LaneOf(row[t].sig)
                         /\ RowBook[t].at = row[t].sig.at
<1>1. RowBook[t] = TradeOf(row[t])
  BY DEF RowBook
<1>2. row[t] \in Row \cup {NoRow}
  BY DEF TypeInv, TypeOK
<1>3. CASE row[t] = NoRow
  BY <1>1, <1>3 DEF TradeOf, NoRow, Exists, IsOpen, None
<1>4. CASE row[t] \in Row
  <2>1. row[t].st \in {"OPEN", "CLOSED"}
    BY <1>4 DEF Row
  <2> QED
    BY <1>1, <1>4, <2>1 DEF TradeOf, Exists, IsOpen, None
<1> QED BY <1>2, <1>3, <1>4

\* A created row is a trade that fits into the book.
LEMMA InsertOpens ==
  ASSUME TypeInv, RowInv, NEW t \in Rows, ~Exists(t), tick.pc = "create",
         Insert(t, tick.sig)
  PROVE  Book!BookNext
<1> DEFINE sig == tick.sig
           new == [st |-> "open", slot |-> LaneOf(sig), lane |-> LaneOf(sig), at |-> sig.at]
<1>1. /\ row \in [Rows -> Row \cup {NoRow}] /\ sig \in Signals
      /\ ~LaneOpen(sig) /\ ~TriggerTaken(sig)
  BY DEF TypeInv, TypeOK, TickInv, RowInv, LookedUp, Refused
<1>2. new \in Book!OpenTrade
  BY <1>1 DEF Book!OpenTrade, LaneNames, Signals
<1>3. Book!Fits(new)
  <2>1. ASSUME NEW u \in Rows, RowBook[u].st # "none"
        PROVE  /\ RowBook[u].st = "open" => RowBook[u].slot # new.slot
               /\ RowBook[u].lane = new.lane => RowBook[u].at - new.at \notin {-1, 0, 1}
    <3>1. /\ Exists(u) /\ row[u] \in Row
          /\ RowBook[u].slot = LaneOf(row[u].sig) /\ RowBook[u].lane = LaneOf(row[u].sig)
          /\ RowBook[u].at = row[u].sig.at /\ (RowBook[u].st = "open" => IsOpen(u))
      BY <2>1, BookShows
    <3>2. LaneOf(row[u].sig) = LaneOf(sig) => SameLane(row[u].sig, sig)
      BY DEF LaneOf, SameLane
    <3>3. RowBook[u].st = "open" => LaneOf(row[u].sig) # LaneOf(sig)
      BY <1>1, <3>1, <3>2 DEF LaneOpen
    <3>4. row[u].sig.at \in Int /\ sig.at \in Int
      BY <1>1, <3>1, ScalperAssumption DEF Row, Signals
    <3>5. SameLane(row[u].sig, sig) => row[u].sig.at \notin (sig.at - 1)..(sig.at + 1)
      BY <1>1, <3>1 DEF TriggerTaken
    <3>6. SameLane(row[u].sig, sig) => row[u].sig.at - sig.at \notin {-1, 0, 1}
      BY <3>4, <3>5
    <3> QED
      BY <3>1, <3>2, <3>3, <3>6
  <2> QED
    BY <2>1 DEF Book!Fits
<1>4. RowBook' = [RowBook EXCEPT ![t] = new]
  <2>1. row' = [row EXCEPT ![t] = [st |-> "OPEN", sig |-> sig]]
    BY DEF Insert
  <2>2. TradeOf([st |-> "OPEN", sig |-> sig]) = new
    BY DEF TradeOf, None
  <2> HIDE DEF new
  <2>3. \A u \in Rows : RowBook'[u] = IF u = t THEN new ELSE RowBook[u]
    BY <1>1, <2>1, <2>2 DEF RowBook
  <2> QED
    BY <2>3 DEF RowBook
<1>5. RowBook[t].st = "none"
  BY BookShows
<1> HIDE DEF new
<1> QED
  BY <1>2, <1>3, <1>4, <1>5 DEF Book!BookNext, Book!BookOpens

LEMMA CloseCloses ==
  ASSUME TypeInv, NEW t \in Rows, IsOpen(t), Close(t)
  PROVE  Book!BookNext
<1>1. row \in [Rows -> Row \cup {NoRow}] /\ row[t] \in Row
  BY DEF TypeInv, TypeOK, IsOpen, NoRow, None
<1>2. row' = [row EXCEPT ![t] = [st |-> "CLOSED", sig |-> row[t].sig]]
  <2>1. row[t] = [st |-> row[t].st, sig |-> row[t].sig]
    BY <1>1 DEF Row
  <2>2. [row[t] EXCEPT !.st = "CLOSED"] = [st |-> "CLOSED", sig |-> row[t].sig]
    BY <2>1
  <2>3. row' = [row EXCEPT ![t] = [row[t] EXCEPT !.st = "CLOSED"]]
    BY DEF Close
  <2> QED
    BY <2>2, <2>3
<1>3. RowBook[t] = [st |-> "open", slot |-> LaneOf(row[t].sig), lane |-> LaneOf(row[t].sig),
                    at |-> row[t].sig.at]
  BY DEF RowBook, TradeOf, IsOpen, None
<1>4. TradeOf([st |-> "CLOSED", sig |-> row[t].sig]) = [RowBook[t] EXCEPT !.st = "closed"]
  BY <1>3 DEF TradeOf, None
<1>5. \A u \in Rows :
        RowBook'[u] = IF u = t THEN [RowBook[t] EXCEPT !.st = "closed"] ELSE RowBook[u]
  BY <1>1, <1>2, <1>4 DEF RowBook
<1>6. RowBook' = [RowBook EXCEPT ![t].st = "closed"]
  BY <1>5 DEF RowBook
<1>7. Book!BookCloses(t)
  BY <1>3, <1>6 DEF Book!BookCloses
<1> QED
  BY <1>7 DEF Book!BookNext

LEMMA BookSteps == TypeInv /\ RowInv /\ [Next]_vars => BookStep
<1> SUFFICES ASSUME TypeInv, RowInv, [Next]_vars
             PROVE  BookStep
  OBVIOUS
<1>1. ASSUME NEW t \in Rows, Create(t) \/ CreateUnanswered(t)
      PROVE  BookStep
  BY <1>1, InsertOpens DEF Create, CreateUnanswered, BookStep
<1>2. ASSUME NEW t \in Rows, ResolveTrade(t) \/ CancelTrade(t)
      PROVE  BookStep
  BY <1>2, CloseCloses DEF ResolveTrade, CancelTrade, BookStep
<1>3. ASSUME UNCHANGED row
      PROVE  BookStep
  BY <1>3 DEF RowBook, BookStep
<1>4. CASE TickBegin \/ FlushDrop \/ FlushNext \/ FlushEnd \/ FetchSignals \/ Look \/ CallFails
           \/ Settle \/ ScanEnd \/ TickEnd \/ CheckpointExpires \/ WorkerCrash \/ Minute
  BY <1>3, <1>4
     DEF TickBegin, FlushDrop, FlushNext, FlushEnd, FetchSignals, Look, CallFails, Settle,
         ScanEnd, TickEnd, CheckpointExpires, WorkerCrash, Minute
<1>5. ASSUME NEW sig \in tick.todo, SkipCompleted(sig) \/ Suppress(sig) \/ Claim(sig)
      PROVE  BookStep
  BY <1>3, <1>5 DEF SkipCompleted, Suppress, Claim
<1>6. ASSUME NEW key \in guard, GuardExpires(key)
      PROVE  BookStep
  BY <1>3, <1>6 DEF GuardExpires
<1>7. CASE UNCHANGED vars
  BY <1>3, <1>7 DEF vars
<1> QED
  BY <1>1, <1>2, <1>4, <1>5, <1>6, <1>7 DEF Next, TickStep, Environment

\* The job implements the atomic book: it opens trades as if it looked and
\* created in one step, never reuses an identifier, never reopens a trade and
\* never changes what it was opened for.
THEOREM ScalperIsAtomic == Spec => OpensAtomically
<1>1. Init => Book!BookInit
  <2> SUFFICES ASSUME Init
               PROVE  Book!BookInit
    OBVIOUS
  <2>1. \A t \in Rows : TradeOf(row[t]) = [st |-> "none"]
    BY DEF Init, TradeOf, NoRow
  <2> QED
    BY <2>1 DEF Book!BookInit, Book!NoTrade, RowBook
<1>2. TypeInv /\ RowInv /\ [Next]_vars => [Book!BookNext]_RowBook
  BY BookSteps DEF BookStep
<1> QED
  BY <1>1, <1>2, TypeAlways, RowAlways, PTL DEF Spec, OpensAtomically, Book!BookSpec

-----------------------------------------------------------------------------
(* No failed write is dropped silently *)

Accounted(e) == \/ e \in Waiting' \/ Served(e.sig)' \/ TooOld(e)
                \/ Len(dlq) = MaxEntries \/ crashes' # crashes

\* While the tick and the queue stay as they are, so do the waiting writes.
LEMMA WaitingKept ==
  ASSUME NEW e \in Waiting, UNCHANGED dlq, tick'.replay = tick.replay
  PROVE  Accounted(e)
BY DEF Accounted, Waiting

\* A call that throws keeps the write it was made for, unless the queue is full.
LEMMA ThrewKeeps ==
  ASSUME TypeInv, tick.pc \in {"look", "create"}, Threw, NEW e \in Waiting
  PROVE  Accounted(e)
<1>1. /\ tick \in Tick /\ dlq \in Seq(Entry) /\ tick.replay \in Seq(Entry)
      /\ Between("flush").replay = tick.replay /\ Between("flush") \in Tick
      /\ Between("scan").replay = tick.replay /\ Between("scan") \in Tick
  BY TickFields, BetweenTyped DEF TypeInv, TypeOK
<1>2. CASE ReplayFailed
  <2>1. tick.replay # <<>>
    BY <1>2 DEF ReplayFailed, TypeInv, TickInv
  <2>2. tick'.replay = Tail(tick.replay)
    BY <1>1, <1>2 DEF ReplayFailed, Tick
  <2>3. /\ \A d \in Range(dlq) : d \in Range(dlq')
        /\ Head(tick.replay) \in Range(dlq')
    BY <1>1, <1>2, <2>1, HeadEntry, AppendKeeps DEF ReplayFailed
  <2>4. \A d \in Range(tick.replay) : d = Head(tick.replay) \/ d \in Range(tick'.replay)
    BY <1>1, <2>1, <2>2, TailKeeps
  <2> QED BY <2>3, <2>4 DEF Accounted, Waiting
<1>3. CASE Retry
  BY <1>1, <1>3, WaitingKept DEF Retry, Tick
<1>4. CASE GiveUp
  <2>1. tick.replay = <<>> /\ tick.sig \in Signals
    BY <1>4 DEF GiveUp, TypeInv, TickInv
  <2>2. tick'.replay = tick.replay
    BY <1>1, <1>4 DEF GiveUp, Tick
  <2>3. [sig |-> tick.sig, at |-> now] \in Entry
    BY <2>1 DEF Entry, TypeInv, TypeOK
  <2>4. Len(dlq) <= MaxEntries
    <3>1. Len(dlq) \in Nat /\ Len(dlq) + Len(tick.replay) <= MaxEntries
      BY <1>1 DEF TypeInv, TypeOK
    <3> QED BY <2>1, <3>1
  <2>5. Len(dlq) # MaxEntries => \A d \in Range(dlq) : d \in Range(dlq')
    BY <1>1, <1>4, <2>3, <2>4, EnqueueBounded DEF GiveUp
  <2> QED BY <2>2, <2>5 DEF Accounted, Waiting
<1> QED BY <1>2, <1>3, <1>4 DEF Threw

\* A call that returns has served the write it was made for.
LEMMA ReturnedKeeps ==
  ASSUME TypeInv, tick.pc \in {"look", "create"}, NEW opened \in BOOLEAN,
         Returned(opened), UNCHANGED dlq, NEW sig, sig = tick.sig, Served(sig)',
         NEW e \in Waiting
  PROVE  Accounted(e)
<1>1. /\ tick \in Tick /\ tick.replay \in Seq(Entry)
      /\ Between("flush").replay = tick.replay /\ Between("flush") \in Tick
  BY TickFields, BetweenTyped DEF TypeInv, TypeOK
<1>2. CASE ~tick.flushing
  BY <1>1, <1>2, WaitingKept DEF Returned, Tick
<1>3. CASE tick.flushing
  <2>1. tick.replay # <<>> /\ tick.sig = Head(tick.replay).sig
    BY <1>3 DEF TypeInv, TickInv
  <2>2. tick'.replay = Tail(tick.replay)
    BY <1>1, <1>3 DEF Returned, Tick
  <2>3. \A d \in Range(tick.replay) : d = Head(tick.replay) \/ d \in Range(tick'.replay)
    BY <1>1, <2>1, <2>2, TailKeeps
  <2>4. CASE e = Head(tick.replay)
    <3>1. e.sig = sig
      BY <2>1, <2>4
    <3> QED BY <3>1 DEF Accounted
  <2>5. CASE e \in Range(tick'.replay) \/ e \in Range(dlq)
    BY <2>5 DEF Accounted, Waiting
  <2> QED BY <2>3, <2>4, <2>5 DEF Waiting
<1> QED BY <1>2, <1>3

LEMMA WriteStep ==
  ASSUME TypeInv, Next, NEW e \in Waiting
  PROVE  Accounted(e)
<1>1. /\ tick \in Tick /\ row \in [Rows -> Row \cup {NoRow}] /\ crashes \in Nat
      /\ tick.replay \in Seq(Entry)
  BY TickFields DEF TypeInv, TypeOK
<1> DEFINE sig == tick.sig
<1>2. CASE TickBegin
  <2>1. tick'.replay = dlq /\ tick.replay = <<>>
    BY <1>2, IdleTyped DEF TickBegin, Tick, TypeInv, TickInv
  <2>2. e \in Range(dlq)
    BY <2>1 DEF Waiting, Range
  <2> QED BY <2>1, <2>2 DEF Accounted, Waiting
<1>3. CASE FlushDrop
  <2>1. tick'.replay = Tail(tick.replay) /\ UNCHANGED dlq /\ tick.replay # <<>>
    BY <1>1, <1>3 DEF FlushDrop, Tick
  <2>2. \A d \in Range(tick.replay) : d = Head(tick.replay) \/ d \in Range(tick'.replay)
    BY <1>1, <2>1, TailKeeps
  <2> QED BY <1>3, <2>1, <2>2 DEF Accounted, Waiting, FlushDrop
<1>4. CASE FlushNext \/ FlushEnd \/ FetchSignals \/ ScanEnd
  BY <1>1, <1>4, WaitingKept DEF FlushNext, FlushEnd, FetchSignals, ScanEnd, Tick
<1>5. ASSUME NEW s \in tick.todo, SkipCompleted(s) \/ Claim(s) PROVE Accounted(e)
  BY <1>1, <1>5, WaitingKept DEF SkipCompleted, Claim, Tick
<1>6. ASSUME NEW s, MarkCompleted(s), UNCHANGED dlq PROVE Accounted(e)
  <2>1. tick'.replay = tick.replay
    BY <1>1, <1>6, BetweenTyped DEF MarkCompleted, Tick
  <2> QED BY <1>6, <2>1, WaitingKept
<1>7. CASE Settle \/ \E s \in tick.todo : Suppress(s)
  BY <1>6, <1>7 DEF Settle, Suppress
<1>8. CASE Look
  <2>1. CASE Refused(sig)
    <3>1. PICK s : s = sig
      OBVIOUS
    <3>2. Served(s)'
      BY <1>8, <2>1, <3>1 DEF Look, Refused, Served, LaneOpen, TriggerTaken, IsOpen, Exists
    <3> QED BY <1>8, <2>1, <3>1, <3>2, ReturnedKeeps DEF Look
  <2>2. CASE ~Refused(sig)
    BY <1>1, <1>8, <2>2, WaitingKept DEF Look, Tick
  <2> QED BY <2>1, <2>2
<1>9. CASE CallFails
  BY <1>9, ThrewKeeps DEF CallFails
<1>10. ASSUME NEW t \in Rows, Create(t) PROVE Accounted(e)
  <2>1. PICK s : s = sig
    OBVIOUS
  <2>2. row'[t].st = "OPEN" /\ row'[t].sig = s
    BY <1>1, <1>10, <2>1 DEF Create, Insert
  <2>3. Served(s)'
    BY <2>2 DEF Served, LaneOpen, IsOpen, SameLane
  <2> QED BY <1>10, <2>1, <2>3, ReturnedKeeps DEF Create
<1>11. ASSUME NEW t \in Rows, CreateUnanswered(t) PROVE Accounted(e)
  BY <1>11, ThrewKeeps DEF CreateUnanswered
<1>12. CASE TickEnd
  <2>1. tick.replay = <<>> /\ tick'.replay = <<>> /\ UNCHANGED dlq
    BY <1>12, IdleTyped DEF TickEnd, TypeInv, TickInv
  <2> QED BY <2>1, WaitingKept
<1>13. CASE WorkerCrash
  BY <1>1, <1>13 DEF WorkerCrash, Accounted
<1>14. ASSUME NEW t \in Rows, ResolveTrade(t) \/ CancelTrade(t) PROVE Accounted(e)
  BY <1>14, WaitingKept DEF ResolveTrade, CancelTrade
<1>15. CASE CheckpointExpires \/ Minute \/ \E key \in guard : GuardExpires(key)
  BY <1>15, WaitingKept DEF CheckpointExpires, Minute, GuardExpires
<1> QED
  BY <1>2, <1>3, <1>4, <1>5, <1>7, <1>8, <1>9, <1>10, <1>11, <1>12, <1>13, <1>14, <1>15
     DEF Next, TickStep, Environment

\* A failed write leaves the dead letter queue only when its lane holds a
\* trade, when it is too old, when the queue is full, or with the process.
THEOREM FailedWritesAreKept == Spec => WritesAreKept
<1>1. TypeInv /\ [Next]_vars =>
        [\A e \in Waiting : e \in Waiting' \/ Served(e.sig)' \/ TooOld(e)
                             \/ Len(dlq) = MaxEntries \/ crashes' # crashes]_vars
  BY WriteStep DEF Accounted
<1> QED BY <1>1, TypeAlways, PTL DEF Spec, WritesAreKept
==============================================================================
