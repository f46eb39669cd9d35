--------------------------- MODULE ServicesProofs ---------------------------
(***************************************************************************)
(* The services of MCServices, for any numbers of clients, replicas,       *)
(* alerts, symbols, positions, prices and attempts: the lock, the          *)
(* liquidations stream, the ingestion of signals, the cooldown of alerts,  *)
(* the shadow portfolio and the ML breaker, and at the end all nine side   *)
(* by side.                                                                *)
(***************************************************************************)
EXTENDS MCServices, BacktestEngineProofs, ExperimentsProofs, CandleWalkProofs, SumLemmas

-----------------------------------------------------------------------------
(* The lock.  Between the two calls of a release the key may pass to       *)
(* another client; what can come of it is shown step by step.              *)

\* A client that is past LockBegin has drawn a token.
HasDrawn == \A c \in LockClients : lockPc[c] # "idle" => drawn[c] \in 1..LockTokens

\* The token a client that has drawn one writes is a token.
LEMMA TokenType ==
  ASSUME NEW c \in LockClients, drawn[c] \in 1..LockTokens
  PROVE  Token(c) \in Tokens
BY DEF Token, Tokens

-----------------------------------------------------------------------------
(* Types *)

LockTyped == LockTypeOK /\ HasDrawn

LEMMA LockTypedInit == LockInit => LockTyped
<1>1. 0 \in 0..LockTokens
  BY LockAssumption
<1> QED
  BY <1>1 DEF LockInit, LockTyped, LockTypeOK, HasDrawn

LEMMA LockTypedStep == LockTyped /\ [LockNext]_lockVars => LockTyped'
<1> SUFFICES ASSUME LockTyped, [LockNext]_lockVars
             PROVE  LockTyped'
  OBVIOUS
<1> USE LockAssumption DEF LockTyped, LockTypeOK, HasDrawn
<1>1. ASSUME NEW c \in LockClients, LockBegin(c)
      PROVE  LockTyped'
  <2>1. PICK i \in 1..LockTokens : drawn' = [drawn EXCEPT ![c] = i]
    BY <1>1 DEF LockBegin, NewToken
  <2>2. i \in 0..LockTokens
    OBVIOUS
  <2>3. drawn' \in [LockClients -> 0..LockTokens]
    BY <2>1, <2>2
  <2>4. lockPc' \in [LockClients -> {"idle", "trying", "holding", "deleting"}]
    BY <1>1 DEF LockBegin
  <2>5. ASSUME NEW d \in LockClients, lockPc'[d] # "idle"
        PROVE  drawn'[d] \in 1..LockTokens
    BY <1>1, <2>1, <2>5 DEF LockBegin
  <2> QED
    BY <1>1, <2>3, <2>4, <2>5 DEF LockBegin
<1>2. ASSUME NEW c \in LockClients, LockSet(c)
      PROVE  LockTyped'
  <2>1. Token(c) \in Tokens
    BY <1>2, TokenType DEF LockSet
  <2>2. key' \in {{}} \union {{t} : t \in Tokens}
    BY <1>2, <2>1 DEF LockSet
  <2>3. lockPc' \in [LockClients -> {"idle", "trying", "holding", "deleting"}]
    BY <1>2 DEF LockSet
  <2>4. \A d \in LockClients : lockPc'[d] # "idle" => lockPc[d] # "idle"
    BY <1>2 DEF LockSet
  <2> QED
    BY <1>2, <2>2, <2>3, <2>4 DEF LockSet
<1>3. ASSUME NEW c \in LockClients, LockGiveUp(c) \/ LockCrash(c)
      PROVE  LockTyped'
  BY <1>3 DEF LockGiveUp, LockCrash
<1>4. ASSUME NEW c \in LockClients, LockRead(c)
      PROVE  LockTyped'
  BY <1>4 DEF LockRead
<1>5. ASSUME NEW c \in LockClients, LockDelete(c)
      PROVE  LockTyped'
  BY <1>5 DEF LockDelete
<1>6. ASSUME LockExpires
      PROVE  LockTyped'
  BY <1>6 DEF LockExpires
<1>7. ASSUME UNCHANGED lockVars
      PROVE  LockTyped'
  BY <1>7 DEF lockVars
<1> QED
  BY <1>1, <1>2, <1>3, <1>4, <1>5, <1>6, <1>7 DEF LockNext

\* The lock's state stays well-formed.
THEOREM LockTypeCorrect == LockSpec => []LockTypeOK
<1>1. LockSpec => []LockTyped
  BY LockTypedInit, LockTypedStep, PTL DEF LockSpec
<1>2. LockTyped => LockTypeOK
  BY DEF LockTyped
<1> QED
  BY <1>1, <1>2, PTL

-----------------------------------------------------------------------------
(* Ownership *)

\* At most one client's token is stored.
LEMMA OneOwner ==
  ASSUME NEW c \in LockClients, NEW d \in LockClients, key = {Token(c)}, key = {Token(d)}
  PROVE  c = d
<1>1. Token(c) \in {Token(d)}
  OBVIOUS
<1>2. Token(c).client = Token(d).client
  BY <1>1
<1> QED
  BY <1>2 DEF Token

\* How a client goes astray.
Strayed(c) ==
  /\ key = {Token(c)}
  /\ \/ lockPc[c] = "deleting" /\ c \in overran'
     \/ \E d \in Astray :
          /\ lockPc[d] = "deleting"
          /\ Astray' = (Astray \ {d}) \union {c}

\* Where nobody is astray the lock keeps its promise.
LEMMA NobodyAstray ==
  ASSUME LockTyped, Astray = {}
  PROVE  HolderKeepsLock
BY DEF Astray, HolderKeepsLock, InLock

\* The DEL of a release that takes the key from another client.
LEMMA DeleteTakes ==
  ASSUME LockTyped, NEW c \in LockClients, LockDelete(c),
         NEW d \in LockClients, d \in Astray' \ Astray
  PROVE  Strayed(d)
<1> USE DEF LockTyped, LockTypeOK
<1>1. /\ lockPc[c] = "deleting" /\ lockPc'[c] = "idle" /\ overran' = overran
      /\ \A e \in LockClients : Token(e)' = Token(e)
      /\ \A e \in LockClients : e # c => lockPc'[e] = lockPc[e]
      /\ key' = key \/ key' = {}
  BY DEF LockDelete, Token
<1>2. d # c /\ key = {Token(d)} /\ key' = {}
  BY <1>1 DEF Astray
<1>3. key # {Token(c)}
  BY <1>2, OneOwner
<1>4. c \in Astray
  BY <1>1, <1>3 DEF Astray
<1>5. ASSUME NEW e \in LockClients, e # c, e # d
      PROVE  e \in Astray' <=> e \in Astray
  <2>1. key # {Token(e)}
    BY <1>2, <1>5, OneOwner
  <2>2. key' # {Token(e)'}
    BY <1>2
  <2> QED
    BY <1>1, <1>5, <2>1, <2>2 DEF Astray
<1>6. c \notin Astray'
  BY <1>1 DEF Astray
<1>7. Astray \subseteq LockClients /\ Astray' \subseteq LockClients
  BY DEF Astray
<1>8. Astray' = (Astray \ {c}) \union {d}
  BY <1>5, <1>6, <1>7
<1> QED
  BY <1>1, <1>2, <1>4, <1>8 DEF Strayed

LEMMA StraysOnlySo ==
  ASSUME LockTyped, LockNext, NEW d \in LockClients, d \in Astray' \ Astray
  PROVE  Strayed(d)
<1> USE DEF LockTyped, LockTypeOK
<1>1. ASSUME NEW c \in LockClients, LockBegin(c)
      PROVE  FALSE
  <2>1. d # c
    BY <1>1 DEF LockBegin, Astray
  <2>2. Token(d)' = Token(d) /\ lockPc'[d] = lockPc[d] /\ key' = key
        /\ (d \in overran' <=> d \in overran)
    BY <1>1, <2>1 DEF LockBegin, NewToken, Token
  <2> QED
    BY <2>2 DEF Astray
<1>2. ASSUME NEW c \in LockClients, LockSet(c)
      PROVE  FALSE
  <2>1. key = {} /\ key' = {Token(c)} /\ overran' = overran /\ Token(d)' = Token(d)
    BY <1>2 DEF LockSet, KeyIsFree, Token
  <2>2. d # c
    BY <2>1 DEF Astray
  <2>3. lockPc'[d] = lockPc[d]
    BY <1>2, <2>2 DEF LockSet
  <2> QED
    BY <2>1, <2>3 DEF Astray
<1>3. ASSUME NEW c \in LockClients, LockGiveUp(c) \/ LockCrash(c)
      PROVE  FALSE
  BY <1>3 DEF LockGiveUp, LockCrash, Token, Astray
<1>4. ASSUME NEW c \in LockClients, LockRead(c)
      PROVE  FALSE
  BY <1>4 DEF LockRead, StillOwns, Token, Astray
<1>5. ASSUME NEW c \in LockClients, LockDelete(c)
      PROVE  Strayed(d)
  BY <1>5, DeleteTakes
<1>6. ASSUME LockExpires
      PROVE  Strayed(d)
  <2>1. Token(d)' = Token(d) /\ lockPc' = lockPc
    BY <1>6 DEF LockExpires, Token
  <2>2. overran' = overran \union {c \in LockClients : InLock(c) /\ key = {Token(c)}}
    BY <1>6 DEF LockExpires
  <2>3. key = {Token(d)}
    BY <2>1, <2>2 DEF Astray
  <2>4. lockPc[d] \in {"holding", "deleting"}
    BY <2>1 DEF Astray
  <2>5. d \in overran'
    BY <2>2, <2>3, <2>4 DEF InLock
  <2>6. lockPc[d] = "deleting"
    BY <2>1, <2>5 DEF Astray
  <2> QED
    BY <2>3, <2>5, <2>6 DEF Strayed
<1> QED
  BY <1>1, <1>2, <1>3, <1>4, <1>5, <1>6 DEF LockNext

\* A client loses a key it relies on only because its own TTL runs out between
\* the GET and the DEL of its release, or to the DEL of one that is astray and
\* then is so no longer: the race of the release is passed on and never grows.
THEOREM RaceStaysContained == LockSpec => RaceIsContained
<1>1. ASSUME LockTyped, [LockNext]_lockVars, NEW c \in Astray' \ Astray
      PROVE  Strayed(c)
  <2>1. c \in LockClients
    BY DEF Astray
  <2>2. CASE LockNext
    BY <1>1, <2>1, <2>2, StraysOnlySo
  <2>3. CASE UNCHANGED lockVars
    BY <2>1, <2>3 DEF lockVars, Astray, Token
  <2> QED
    BY <1>1, <2>2, <2>3
<1>2. LockTyped /\ [LockNext]_lockVars
        => [\A c \in Astray' \ Astray :
              /\ key = {Token(c)}
              /\ \/ lockPc[c] = "deleting" /\ c \in overran'
                 \/ \E d \in Astray :
                      /\ lockPc[d] = "deleting"
                      /\ Astray' = (Astray \ {d}) \union {c}]_lockVars
  BY <1>1 DEF Strayed
<1>3. LockTyped /\ [LockNext]_lockVars => LockTyped'
  BY LockTypedStep
<1> QED
  BY <1>2, <1>3, LockTypedInit, PTL DEF LockSpec, RaceIsContained

-----------------------------------------------------------------------------
(* The stream *)

\* Connections and reconnects, counted.
StreamCounts ==
  /\ socket \in {"none", "CONNECTING", "OPEN"}
  /\ abandoned \in Nat /\ reconnects \in Nat /\ attempts \in 0..MaxReconnects
  /\ streamState \in {"idle", "started", "stopped"}
  /\ Live + abandoned + reconnects <= 1
  /\ streamState = "idle" => Live + abandoned + reconnects = 0
  /\ streamState = "started" => Live + reconnects = 1
  /\ streamState = "stopped" => Live + reconnects = 0

\* The other timers.
StreamTimers ==
  /\ heartbeat \in BOOLEAN /\ pruning \in BOOLEAN
  /\ streamState = "stopped" => ~heartbeat /\ ~pruning
  /\ heartbeat => socket = "OPEN"

LEMMA StreamCountsStep == StreamCounts /\ [StreamNext]_streamVars => StreamCounts'
<1> SUFFICES ASSUME StreamCounts, [StreamNext]_streamVars
             PROVE  StreamCounts'
  OBVIOUS
<1> USE StreamAssumption DEF StreamCounts, Live
<1>1. ASSUME StreamStarts
      PROVE  StreamCounts'
  BY <1>1 DEF StreamStarts, Connect, ScheduleReconnect, WantsStream
<1>2. ASSUME ReconnectFires
      PROVE  StreamCounts'
  BY <1>2 DEF ReconnectFires, Connect, ScheduleReconnect, WantsStream
<1>3. ASSUME SocketOpens
      PROVE  StreamCounts'
  BY <1>3 DEF SocketOpens
<1>4. ASSUME SocketCloses
      PROVE  StreamCounts'
  BY <1>4 DEF SocketCloses, OnClose, Reconnects, ScheduleReconnect, WantsStream
<1>5. ASSUME LateClose
      PROVE  StreamCounts'
  BY <1>5 DEF LateClose, OnClose, Reconnects, ScheduleReconnect, WantsStream
<1>6. ASSUME StreamStops
      PROVE  StreamCounts'
  BY <1>6 DEF StreamStops
<1>7. ASSUME UNCHANGED streamVars
      PROVE  StreamCounts'
  BY <1>7 DEF streamVars
<1> QED
  BY <1>1, <1>2, <1>3, <1>4, <1>5, <1>6, <1>7 DEF StreamNext

LEMMA StreamTimersStep ==
  StreamCounts /\ StreamTimers /\ [StreamNext]_streamVars => StreamTimers'
<1> SUFFICES ASSUME StreamCounts, StreamTimers, [StreamNext]_streamVars
             PROVE  StreamTimers'
  OBVIOUS
<1> USE DEF StreamTimers
<1>1. ASSUME StreamStarts
      PROVE  StreamTimers'
  <2>1. UNCHANGED heartbeat /\ pruning' = TRUE /\ streamState' = "started"
    BY <1>1 DEF StreamStarts
  <2>2. socket = "OPEN" => socket' = "OPEN"
    BY <1>1 DEF StreamStarts, Connect
  <2> QED
    BY <2>1, <2>2, Zenon
<1>2. ASSUME ReconnectFires
      PROVE  StreamTimers'
  <2>1. UNCHANGED <<heartbeat, pruning, streamState>>
    BY <1>2 DEF ReconnectFires
  <2>2. socket = "OPEN" => socket' = "OPEN"
    BY <1>2 DEF ReconnectFires, Connect
  <2> QED
    BY <2>1, <2>2, Zenon
<1>3. ASSUME SocketOpens
      PROVE  StreamTimers'
  <2>1. streamState # "stopped"
    BY <1>3 DEF SocketOpens, StreamCounts, Live
  <2> QED
    BY <1>3, <2>1, Zenon DEF SocketOpens
<1>4. ASSUME SocketCloses
      PROVE  StreamTimers'
  BY <1>4, Zenon DEF SocketCloses, OnClose
<1>5. ASSUME LateClose
      PROVE  StreamTimers'
  BY <1>5, Zenon DEF LateClose, OnClose
<1>6. ASSUME StreamStops
      PROVE  StreamTimers'
  BY <1>6, Zenon DEF StreamStops
<1>7. ASSUME UNCHANGED streamVars
      PROVE  StreamTimers'
  BY <1>7, Zenon DEF streamVars
<1> QED
  BY <1>1, <1>2, <1>3, <1>4, <1>5, <1>6, <1>7 DEF StreamNext

\* Callbacks, timers and stop in any order leave at most one connection or one
\* reconnect; a started stream has one of the two, a stopped one neither.
THEOREM StreamStaysSingle == StreamSpec => []OneStream
<1>1. StreamInit => StreamCounts
  BY StreamAssumption DEF StreamInit, StreamCounts, Live
<1>2. StreamInit => StreamTimers
  BY Zenon DEF StreamInit, StreamTimers
<1>3. StreamCounts /\ StreamTimers => OneStream
  BY Zenon DEF StreamCounts, StreamTimers, OneStream
<1> QED
  BY <1>1, <1>2, <1>3, StreamCountsStep, StreamTimersStep, PTL DEF StreamSpec

-----------------------------------------------------------------------------
(* The ingestion of signals *)

OneEach(B) == \A g, h \in B : g.sym = h.sym => g = h

IngestTyped ==
  /\ recent \in [IngestSymbols -> Seq(SignalTypes)]
  /\ todo \in SUBSET Signals
  /\ left \in SUBSET todo
  /\ OneEach(todo)
  /\ ingestPc \in {"idle", "guard"} => left = {}

\* What is about to be created is no repetition, even if rows have since left
\* the window.
CreatesNew == ingestPc = "create" => \A g \in left : NextSignal(g) => ~Repeats(g)

\* Rows of one symbol in which no type follows itself.
NoRepetition(rows) == \A i \in 1..(Len(rows) - 1) : rows[i] # rows[i + 1]

IngestInv == IngestTyped /\ CreatesNew /\ NoRepeatedRow

LEMMA AppendNew ==
  ASSUME NEW rows \in Seq(SignalTypes), NEW type \in SignalTypes, NoRepetition(rows),
         ~(rows # <<>> /\ rows[Len(rows)] = type)
  PROVE  /\ Append(rows, type) \in Seq(SignalTypes)
         /\ NoRepetition(Append(rows, type))
<1> DEFINE more == Append(rows, type)
<1>1. Len(more) = Len(rows) + 1 /\ more \in Seq(SignalTypes)
  OBVIOUS
<1>2. ASSUME NEW i \in 1..(Len(more) - 1)
      PROVE  more[i] # more[i + 1]
  <2>1. CASE i = Len(rows)
    <3>1. more[i] = rows[Len(rows)] /\ more[i + 1] = type /\ rows # <<>>
      BY <1>1, <2>1
    <3> QED
      BY <2>1, <3>1
  <2>2. CASE i # Len(rows)
    <3>1. i \in 1..(Len(rows) - 1)
      BY <1>1, <2>2
    <3>2. more[i] = rows[i] /\ more[i + 1] = rows[i + 1]
      BY <3>1
    <3> QED
      BY <3>1, <3>2 DEF NoRepetition
  <2> QED
    BY <2>1, <2>2
<1> QED
  BY <1>1, <1>2 DEF NoRepetition

LEMMA TailStaysNew ==
  ASSUME NEW rows \in Seq(SignalTypes), NoRepetition(rows), rows # <<>>
  PROVE  /\ Tail(rows) \in Seq(SignalTypes)
         /\ NoRepetition(Tail(rows))
         /\ Tail(rows) # <<>> => Tail(rows)[Len(Tail(rows))] = rows[Len(rows)]
<1>1. Tail(rows) \in Seq(SignalTypes) /\ Len(Tail(rows)) = Len(rows) - 1
  OBVIOUS
<1>2. \A i \in 1..(Len(rows) - 1) : Tail(rows)[i] = rows[i + 1]
  OBVIOUS
<1>3. NoRepetition(Tail(rows))
  BY <1>1, <1>2 DEF NoRepetition
<1>4. ASSUME Tail(rows) # <<>>
      PROVE  Tail(rows)[Len(Tail(rows))] = rows[Len(rows)]
  <2>1. Len(rows) - 1 \in 1..(Len(rows) - 1)
    BY <1>1, <1>4
  <2> QED
    BY <1>1, <1>2, <2>1
<1> QED
  BY <1>1, <1>3, <1>4

\* A row that is created, or may have been, is no repetition.
LEMMA RowAddedKeeps ==
  ASSUME IngestInv, ingestPc = "create", NEW g \in left, NextSignal(g), RowAdded(g)
  PROVE  /\ recent' \in [IngestSymbols -> Seq(SignalTypes)]
         /\ NoRepeatedRow'
<1> USE DEF IngestInv, IngestTyped
<1>1. g.sym \in IngestSymbols /\ g.type \in SignalTypes
  BY DEF Signals
<1>2. recent' = [recent EXCEPT ![g.sym] = Append(recent[g.sym], g.type)]
  BY DEF RowAdded
<1>3. NoRepetition(recent[g.sym]) /\ recent[g.sym] \in Seq(SignalTypes)
  BY <1>1 DEF NoRepeatedRow, NoRepetition
<1>4. ~Repeats(g)
  BY DEF CreatesNew
<1>5. /\ Append(recent[g.sym], g.type) \in Seq(SignalTypes)
      /\ NoRepetition(Append(recent[g.sym], g.type))
  BY <1>1, <1>3, <1>4, AppendNew DEF Repeats
<1>6. ASSUME NEW s \in IngestSymbols
      PROVE  recent'[s] \in Seq(SignalTypes) /\ NoRepetition(recent'[s])
  BY <1>1, <1>2, <1>5 DEF NoRepeatedRow, NoRepetition
<1>7. recent' = [s \in IngestSymbols |-> recent'[s]]
  BY <1>2
<1> QED
  BY <1>6, <1>7 DEF NoRepeatedRow, NoRepetition

\* The end of a tick, and the start of another attempt.
LEMMA CutOffKeeps ==
  ASSUME IngestInv, CutOff
  PROVE  /\ recent' \in [IngestSymbols -> Seq(SignalTypes)]
         /\ NoRepeatedRow'
<1>1. CASE UNCHANGED recent
  BY <1>1 DEF IngestInv, IngestTyped, NoRepeatedRow
<1>2. CASE ingestPc = "create" /\ \E g \in left : NextSignal(g) /\ RowAdded(g)
  BY <1>2, RowAddedKeeps
<1> QED
  BY <1>1, <1>2 DEF CutOff

LEMMA EndKeeps ==
  ASSUME IngestEnds, recent' \in [IngestSymbols -> Seq(SignalTypes)], NoRepeatedRow'
  PROVE  IngestInv'
BY DEF IngestEnds, IngestInv, IngestTyped, OneEach, CreatesNew

LEMMA IngestStep == IngestInv /\ [IngestNext]_ingestVars => IngestInv'
<1> SUFFICES ASSUME IngestInv, [IngestNext]_ingestVars
             PROVE  IngestInv'
  OBVIOUS
<1> USE DEF IngestInv, IngestTyped
<1>1. ASSUME IngestTick
      PROVE  IngestInv'
  <2>1. /\ todo' \in SUBSET Signals /\ OneEach(todo)'
        /\ UNCHANGED <<recent, left>> /\ ingestPc' = "guard" /\ left = {}
    BY <1>1 DEF IngestTick, Batches, OneEach
  <2> QED
    BY <2>1 DEF CreatesNew, NoRepeatedRow
<1>2. ASSUME Guard
      PROVE  IngestInv'
  <2>1. PICK pass \in SUBSET todo :
          IF pass = {}
          THEN IngestEnds
          ELSE ingestPc' = "look" /\ todo' = pass /\ left' = pass /\ attempt' = 1
    BY <1>2 DEF Guard
  <2>2. recent' \in [IngestSymbols -> Seq(SignalTypes)] /\ NoRepeatedRow'
    BY <1>2 DEF Guard, NoRepeatedRow
  <2>3. CASE pass = {}
    BY <2>1, <2>2, <2>3, EndKeeps
  <2>4. CASE pass # {}
    BY <2>1, <2>2, <2>4 DEF OneEach, CreatesNew
  <2> QED
    BY <2>3, <2>4
<1>3. ASSUME NEW s \in IngestSymbols, LookUp(s)
      PROVE  IngestInv'
  <2>1. PICK g \in left :
          /\ NextSignal(g)
          /\ IF Repeats(g)
             THEN left' = left \ {g} /\ UNCHANGED ingestPc
             ELSE ingestPc' = "create" /\ UNCHANGED left
    BY <1>3 DEF LookUp
  <2>2. UNCHANGED <<recent, todo>> /\ ingestPc = "look"
    BY <1>3 DEF LookUp
  <2>3. left' \in SUBSET todo' /\ ingestPc' \in {"look", "create"}
    BY <2>1, <2>2
  <2>4. CreatesNew'
    <3>1. ASSUME ingestPc' = "create", NEW h \in left', NextSignal(h)'
          PROVE  ~Repeats(h)'
      <4>1. ~Repeats(g) /\ left' = left /\ NextSignal(h)
        BY <2>1, <2>2, <3>1 DEF NextSignal
      <4>2. h.sym = g.sym
        <5>1. h.sym \in Nat /\ g.sym \in Nat
          BY <3>1, <4>1, IngestAssumption DEF Signals
        <5> QED
          BY <2>1, <4>1, <5>1 DEF NextSignal
      <4>3. h = g
        BY <3>1, <4>1, <4>2 DEF OneEach
      <4> QED
        BY <2>2, <4>1, <4>3 DEF Repeats
    <3> QED
      BY <3>1 DEF CreatesNew
  <2> QED
    BY <2>2, <2>3, <2>4 DEF OneEach, NoRepeatedRow
<1>4. ASSUME NEW s \in IngestSymbols, CreateRow(s)
      PROVE  IngestInv'
  <2>1. PICK g \in left : NextSignal(g) /\ RowAdded(g) /\ left' = left \ {g}
    BY <1>4 DEF CreateRow
  <2>2. ingestPc = "create" /\ ingestPc' = "look" /\ UNCHANGED todo
    BY <1>4 DEF CreateRow
  <2>3. recent' \in [IngestSymbols -> Seq(SignalTypes)] /\ NoRepeatedRow'
    BY <2>1, <2>2, RowAddedKeeps
  <2> QED
    BY <2>1, <2>2, <2>3 DEF OneEach, CreatesNew
<1>5. ASSUME IngestDone
      PROVE  IngestInv'
  <2>1. IngestEnds /\ UNCHANGED recent
    BY <1>5 DEF IngestDone
  <2> QED
    BY <2>1, EndKeeps DEF NoRepeatedRow
<1>6. ASSUME IngestRetries
      PROVE  IngestInv'
  <2>1. /\ CutOff /\ UNCHANGED todo
        /\ ingestPc' = "look" /\ left' = todo
    BY <1>6 DEF IngestRetries, StartAgain
  <2> QED
    BY <2>1, CutOffKeeps DEF OneEach, CreatesNew
<1>7. ASSUME IngestAborts
      PROVE  IngestInv'
  BY <1>7, CutOffKeeps, EndKeeps DEF IngestAborts
<1>8. ASSUME NEW g \in Signals, ClaimExpires(g)
      PROVE  IngestInv'
  BY <1>8 DEF ClaimExpires, OneEach, CreatesNew, NextSignal, Repeats, NoRepeatedRow
<1>9. ASSUME NEW s \in IngestSymbols, WindowPasses(s)
      PROVE  IngestInv'
  <2>1. /\ recent[s] # <<>> /\ UNCHANGED <<ingestPc, todo, left>>
        /\ recent' = [recent EXCEPT ![s] = Tail(recent[s])]
    BY <1>9 DEF WindowPasses
  <2>2. /\ Tail(recent[s]) \in Seq(SignalTypes)
        /\ NoRepetition(Tail(recent[s]))
        /\ Tail(recent[s]) # <<>> =>
             Tail(recent[s])[Len(Tail(recent[s]))] = recent[s][Len(recent[s])]
    BY <2>1, TailStaysNew DEF NoRepeatedRow, NoRepetition
  <2>3. ASSUME NEW t \in IngestSymbols
        PROVE  recent'[t] \in Seq(SignalTypes) /\ NoRepetition(recent'[t])
    BY <2>1, <2>2 DEF NoRepeatedRow, NoRepetition
  <2>4. recent' = [t \in IngestSymbols |-> recent'[t]]
    BY <2>1
  <2>5. NoRepeatedRow'
    BY <2>3 DEF NoRepeatedRow, NoRepetition
  <2>6. CreatesNew'
    <3>1. ASSUME NEW g \in left, Repeats(g)'
          PROVE  Repeats(g)
      <4>1. g.sym \in IngestSymbols
        BY DEF Signals
      <4>2. CASE g.sym = s
        BY <2>1, <2>2, <3>1, <4>1, <4>2 DEF Repeats
      <4>3. CASE g.sym # s
        BY <2>1, <3>1, <4>1, <4>3 DEF Repeats
      <4> QED
        BY <4>2, <4>3
    <3> QED
      BY <2>1, <3>1 DEF CreatesNew, NextSignal
  <2> QED
    BY <2>1, <2>3, <2>4, <2>5, <2>6 DEF OneEach
<1>10. ASSUME UNCHANGED ingestVars
       PROVE  IngestInv'
  BY <1>10 DEF ingestVars, OneEach, CreatesNew, NextSignal, Repeats, NoRepeatedRow
<1> QED
  BY <1>1, <1>2, <1>3, <1>4, <1>5, <1>6, <1>7, <1>8, <1>9, <1>10 DEF IngestNext

\* Whatever calls fail, before or after they took effect, whichever tick or
\* attempt comes next and whenever rows leave the window, no symbol has the same
\* type twice in a row within it.
THEOREM RowsNeverRepeat == IngestSpec => []NoRepeatedRow
<1>1. IngestInit => IngestInv
  <2> SUFFICES ASSUME IngestInit
               PROVE  IngestInv
    OBVIOUS
  <2>1. \A s \in IngestSymbols : Len(recent[s]) = 0
    BY DEF IngestInit
  <2> QED
    BY <2>1 DEF IngestInit, IngestInv, IngestTyped, OneEach, CreatesNew, NoRepeatedRow
<1>2. IngestInv => NoRepeatedRow
  BY DEF IngestInv
<1> QED
  BY <1>1, <1>2, IngestStep, PTL DEF IngestSpec

-----------------------------------------------------------------------------
(* The cooldown of alerts *)

\* The replicas that have passed the gate of an alert and not yet set its key.
Reserving(a) == {w \in Replicas : alertPc[w] = "reserve" /\ a \in at[w]}

\* What has been reserved and what will be add up to one for each replica.
AlertInv ==
  /\ alertPc \in [Replicas -> {"idle", "gate", "reserve", "notify", "book"}]
  /\ at \in [Replicas -> SUBSET Alerts]
  /\ reserved \in [Alerts -> Nat]
  /\ \A a \in Alerts : a \notin cooling => reserved[a] = 0
  /\ \A a \in Alerts : reserved[a] + Cardinality(Reserving(a)) <= Cardinality(Replicas)

LEMMA ReservingFinite ==
  ASSUME NEW S \in SUBSET Replicas
  PROVE  /\ IsFiniteSet(S) /\ Cardinality(S) \in Nat
         /\ Cardinality(Replicas) \in Nat /\ Cardinality(S) <= Cardinality(Replicas)
BY AlertAssumption, FS_Subset, FS_CardinalityType

\* Fewer replicas on the way to a reservation, and no reservation more.
LEMMA FewerReserving ==
  ASSUME NEW a \in Alerts, AlertInv, Reserving(a)' \subseteq Reserving(a),
         reserved'[a] = reserved[a]
  PROVE  reserved'[a] + Cardinality(Reserving(a)') <= Cardinality(Replicas)
<1>1. Reserving(a) \subseteq Replicas
  BY DEF Reserving
<1>2. Cardinality(Reserving(a)') <= Cardinality(Reserving(a))
  BY <1>1, ReservingFinite, FS_Subset
<1>3. Cardinality(Reserving(a)') \in Nat /\ Cardinality(Reserving(a)) \in Nat
  BY <1>1, ReservingFinite
<1>4. Cardinality(Replicas) \in Nat /\ reserved[a] \in Nat
  BY ReservingFinite DEF AlertInv
<1> QED
  BY <1>2, <1>3, <1>4 DEF AlertInv

LEMMA AlertStep == AlertInv /\ [AlertNext]_alertVars => AlertInv'
<1> SUFFICES ASSUME AlertInv, [AlertNext]_alertVars
             PROVE  AlertInv'
  OBVIOUS
<1>1. ASSUME NEW w \in Replicas,
             AlertsTick(w) \/ TickDone(w) \/ Notify(w) \/ Book(w) \/ AlertFails(w)
      PROVE  AlertInv'
  <2>1. /\ alertPc' \in [Replicas -> {"idle", "gate", "reserve", "notify", "book"}]
        /\ at' \in [Replicas -> SUBSET Alerts]
    BY <1>1 DEF AlertsTick, TickDone, TickAborts, Notify, Book, NextAlert, AlertFails, AlertInv
  <2>2. UNCHANGED <<cooling, reserved>>
    BY <1>1 DEF AlertsTick, TickDone, TickAborts, Notify, Book, NextAlert, AlertFails
  <2>3. ASSUME NEW v \in Replicas, alertPc'[v] = "reserve"
        PROVE  alertPc[v] = "reserve" /\ at'[v] = at[v]
    BY <1>1, <2>3
       DEF AlertsTick, TickDone, TickAborts, Notify, Book, NextAlert, AlertFails, AlertInv
  <2>4. ASSUME NEW a \in Alerts
        PROVE  Reserving(a)' \subseteq Reserving(a)
    BY <2>3 DEF Reserving
  <2>5. \A a \in Alerts : reserved'[a] + Cardinality(Reserving(a)') <= Cardinality(Replicas)
    BY <2>2, <2>4, FewerReserving
  <2> QED
    BY <2>1, <2>2, <2>5 DEF AlertInv
<1>2. ASSUME NEW w \in Replicas, Reserve(w)
      PROVE  AlertInv'
  <2>1. /\ alertPc' \in [Replicas -> {"idle", "gate", "reserve", "notify", "book"}]
        /\ alertPc' = [alertPc EXCEPT ![w] = "notify"]
        /\ alertPc[w] = "reserve"
        /\ UNCHANGED at
        /\ cooling' = cooling \union at[w]
    BY <1>2 DEF Reserve, AlertInv
  <2>2. \A a \in Alerts :
          reserved'[a] = IF a \in at[w] THEN reserved[a] + 1 ELSE reserved[a]
    BY <1>2 DEF Reserve
  <2>3. reserved' \in [Alerts -> Nat]
    BY <1>2 DEF Reserve, AlertInv
  <2>4. ASSUME NEW a \in Alerts
        PROVE  Reserving(a)' = Reserving(a) \ {w}
    BY <2>1 DEF Reserving, AlertInv
  <2>5. ASSUME NEW a \in Alerts
        PROVE  reserved'[a] + Cardinality(Reserving(a)') <= Cardinality(Replicas)
    <3>1. CASE a \notin at[w]
      BY <2>2, <2>4, <3>1, FewerReserving
    <3>2. CASE a \in at[w]
      <4>1. w \in Reserving(a) /\ Reserving(a) \subseteq Replicas
        BY <2>1, <3>2 DEF Reserving
      <4>2. Cardinality(Reserving(a) \ {w}) = Cardinality(Reserving(a)) - 1
        BY <4>1, ReservingFinite, FS_RemoveElement
      <4>3. Cardinality(Reserving(a)) \in Nat /\ Cardinality(Replicas) \in Nat
        BY <4>1, ReservingFinite
      <4>4. reserved[a] \in Nat /\ reserved'[a] = reserved[a] + 1
        BY <2>2, <3>2 DEF AlertInv
      <4>5. reserved[a] + Cardinality(Reserving(a)) <= Cardinality(Replicas)
        BY DEF AlertInv
      <4> QED
        BY <2>4, <4>2, <4>3, <4>4, <4>5
    <3> QED
      BY <3>1, <3>2
  <2>6. \A a \in Alerts : a \notin cooling' => reserved'[a] = 0
    BY <2>1, <2>2 DEF AlertInv
  <2> QED
    BY <2>1, <2>3, <2>5, <2>6 DEF AlertInv
<1>3. ASSUME NEW w \in Replicas, NEW b \in Alerts, Gate(w, b)
      PROVE  AlertInv'
  <2>1. UNCHANGED <<cooling, reserved>>
    BY <1>3 DEF Gate
  <2>2. /\ alertPc' \in [Replicas -> {"idle", "gate", "reserve", "notify", "book"}]
        /\ at' \in [Replicas -> SUBSET Alerts]
    BY <1>3 DEF Gate, AlertInv
  <2>3. ASSUME NEW a \in Alerts
        PROVE  reserved'[a] + Cardinality(Reserving(a)') <= Cardinality(Replicas)
    <3>1. CASE a = b /\ b \notin cooling
      <4>1. reserved'[a] = 0
        BY <2>1, <3>1 DEF AlertInv
      <4>2. Reserving(a)' \subseteq Replicas
        BY DEF Reserving
      <4>3. /\ Cardinality(Reserving(a)') <= Cardinality(Replicas)
            /\ Cardinality(Reserving(a)') \in Nat
        BY <4>2, ReservingFinite
      <4> QED
        BY <4>1, <4>3
    <3>2. CASE ~(a = b /\ b \notin cooling)
      <4>1. ASSUME NEW v \in Replicas, alertPc'[v] = "reserve", a \in at'[v]
            PROVE  alertPc[v] = "reserve" /\ a \in at[v]
        BY <1>3, <3>2, <4>1 DEF Gate, MayFire, AlertInv
      <4>2. Reserving(a)' \subseteq Reserving(a)
        BY <4>1 DEF Reserving
      <4> QED
        BY <2>1, <4>2, FewerReserving
    <3> QED
      BY <3>1, <3>2
  <2> QED
    BY <2>1, <2>2, <2>3 DEF AlertInv
<1>4. ASSUME NEW b \in Alerts, CooldownEnds(b)
      PROVE  AlertInv'
  <2>1. /\ UNCHANGED <<alertPc, at>>
        /\ cooling' = cooling \ {b}
        /\ reserved' = [reserved EXCEPT ![b] = 0]
    BY <1>4 DEF CooldownEnds
  <2>2. \A a \in Alerts : Reserving(a)' = Reserving(a)
    BY <2>1 DEF Reserving
  <2>3. ASSUME NEW a \in Alerts
        PROVE  reserved'[a] + Cardinality(Reserving(a)') <= Cardinality(Replicas)
    <3>1. CASE a = b
      <4>1. Reserving(a) \subseteq Replicas
        BY DEF Reserving
      <4>2. Cardinality(Reserving(a)) \in Nat /\ Cardinality(Reserving(a)) <= Cardinality(Replicas)
        BY <4>1, ReservingFinite
      <4>3. reserved'[a] = 0
        BY <2>1, <3>1 DEF AlertInv
      <4> QED
        BY <2>2, <4>2, <4>3
    <3>2. CASE a # b
      <4>1. reserved'[a] = reserved[a]
        BY <2>1, <3>2 DEF AlertInv
      <4> QED
        BY <2>2, <4>1, FewerReserving
    <3> QED
      BY <3>1, <3>2
  <2>4. reserved' \in [Alerts -> Nat] /\ \A a \in Alerts : a \notin cooling' => reserved'[a] = 0
    BY <2>1 DEF AlertInv
  <2> QED
    BY <2>1, <2>3, <2>4 DEF AlertInv
<1>5. ASSUME UNCHANGED alertVars
      PROVE  AlertInv'
  BY <1>5 DEF alertVars, AlertInv, Reserving
<1> QED
  BY <1>1, <1>2, <1>3, <1>4, <1>5 DEF AlertNext

\* Within one cooldown each replica reserves an alert at most once, whatever
\* calls fail, although the key is read and then set.
THEOREM AlertsFireOnce == AlertSpec => []OncePerReplica
<1>1. AlertInit => AlertInv
  <2> SUFFICES ASSUME AlertInit
               PROVE  AlertInv
    OBVIOUS
  <2>1. \A a \in Alerts : Reserving(a) = {}
    BY DEF AlertInit, Reserving
  <2>2. Cardinality({}) = 0 /\ Cardinality(Replicas) \in Nat
    BY AlertAssumption, FS_EmptySet, FS_CardinalityType
  <2> QED
    BY <2>1, <2>2 DEF AlertInit, AlertInv
<1>2. AlertInv => OncePerReplica
  <2> SUFFICES ASSUME AlertInv, NEW a \in Alerts
               PROVE  reserved[a] <= Cardinality(Replicas)
    BY DEF OncePerReplica
  <2>1. Reserving(a) \subseteq Replicas
    BY DEF Reserving
  <2>2. Cardinality(Reserving(a)) \in Nat /\ Cardinality(Replicas) \in Nat
    BY <2>1, ReservingFinite
  <2>3. reserved[a] \in Nat /\ reserved[a] + Cardinality(Reserving(a)) <= Cardinality(Replicas)
    BY DEF AlertInv
  <2> QED
    BY <2>2, <2>3
<1> QED
  BY <1>1, <1>2, AlertStep, PTL DEF AlertSpec

-----------------------------------------------------------------------------
(* The shadow portfolio *)

LEMMA ShadowConstants ==
  /\ Slippage \in Nat /\ Commission \in Nat /\ Capital \in Nat /\ MaxOpen \in Nat
  /\ MaxCloses \in Nat /\ ShadowPrices \subseteq Nat
  /\ \A price \in ShadowPrices : price \in Nat /\ Slippage <= price
BY ShadowAssumption

\* What the open positions of one symbol cost.
CostOfOne(P) == SumFunction([p \in P |-> p.entry + Commission])

\* A symbol's positions are none or one.
AtMostOne(P) == P \in SUBSET Position /\ \A p, q \in P : p = q

\* One term of the cost, and a sum over symbols of integers.
LEMMA CostOfNone == CostOfOne({}) = 0
BY SumEmpty DEF CostOfOne, SumFunction

LEMMA CostOfAPosition ==
  ASSUME NEW p \in Position
  PROVE  CostOfOne({p}) = p.entry + Commission
<1> DEFINE f == [q \in {p} |-> q.entry + Commission]
<1>1. p.entry + Commission \in Int
  BY ShadowConstants DEF Position
<1>2. IsFiniteSet({p}) /\ {p} \ {p} = {}
  BY FS_Singleton
<1>3. SumFunctionOnSet(f, {p}) = f[p] + SumFunctionOnSet(f, {})
  <2>1. \A q \in {p} : f[q] \in Int
    BY <1>1
  <2>2. SumFunctionOnSet(f, {p}) = f[p] + SumFunctionOnSet(f, {p} \ {p})
    BY <1>2, <2>1, SumRemove
  <2> QED
    BY <1>2, <2>2
<1>4. SumFunctionOnSet(f, {}) = 0
  BY SumEmpty
<1>5. CostOfOne({p}) = SumFunctionOnSet(f, {p}) /\ f[p] = p.entry + Commission
  BY DEF CostOfOne, SumFunction
<1> HIDE DEF f
<1> QED
  BY <1>1, <1>3, <1>4, <1>5

LEMMA CostType ==
  ASSUME NEW P, AtMostOne(P)
  PROVE  CostOfOne(P) \in Int
<1>1. P = {} \/ \E p \in Position : P = {p}
  BY DEF AtMostOne
<1>2. \A p \in Position : p.entry + Commission \in Int
  BY ShadowConstants DEF Position
<1>3. CASE P = {}
  BY <1>3, CostOfNone
<1>4. ASSUME NEW p \in Position, P = {p} PROVE CostOfOne(P) \in Int
  <2>1. CostOfOne({p}) = p.entry + Commission
    BY CostOfAPosition
  <2> QED
    BY <1>2, <1>4, <2>1
<1> QED
  BY <1>1, <1>3, <1>4

\* What changes in one symbol changes the cost of the portfolio by as much.
LEMMA CostChange ==
  ASSUME NEW h \in [ShadowSymbols -> SUBSET Position], \A s \in ShadowSymbols : AtMostOne(h[s]),
         NEW s \in ShadowSymbols, NEW P, AtMostOne(P)
  PROVE  /\ CostOf(h) \in Int
         /\ CostOf([h EXCEPT ![s] = P]) = CostOf(h) - CostOfOne(h[s]) + CostOfOne(P)
<1> DEFINE k == [h EXCEPT ![s] = P]
           f == [u \in ShadowSymbols |-> CostOfOne(h[u])]
           g == [u \in ShadowSymbols |-> CostOfOne(k[u])]
<1>1. IsFiniteSet(ShadowSymbols)
  BY ShadowAssumption
<1>2. \A u \in ShadowSymbols : AtMostOne(k[u])
  OBVIOUS
<1>3. \A u \in ShadowSymbols : f[u] \in Int /\ g[u] \in Int
  BY <1>2, CostType
<1>4. \A u \in ShadowSymbols \ {s} : f[u] = g[u]
  OBVIOUS
<1>5. f[s] = CostOfOne(h[s]) /\ g[s] = CostOfOne(P)
  OBVIOUS
<1>6. CostOf(h) = SumFunctionOnSet(f, ShadowSymbols)
  BY DEF CostOf, CostOfOne, SumFunction
<1>7. CostOf(k) = SumFunctionOnSet(g, ShadowSymbols)
  BY DEF CostOf, CostOfOne, SumFunction
<1> HIDE DEF f, g
<1>8. SumFunctionOnSet(g, ShadowSymbols) = SumFunctionOnSet(f, ShadowSymbols) - f[s] + g[s]
  BY <1>1, <1>3, <1>4, SumChange
<1>9. SumFunctionOnSet(f, ShadowSymbols) \in Int
  BY <1>1, <1>3, SumType
<1> QED
  BY <1>5, <1>6, <1>7, <1>8, <1>9

\* The portfolio and its books.
ShadowInv == ShadowTypeOK /\ CashIsExplained

\* Which symbols are held changes by the one symbol a step is about.
LEMMA HoldingChange ==
  ASSUME ShadowTypeOK, NEW s \in ShadowSymbols, NEW P, AtMostOne(P),
         held' = [held EXCEPT ![s] = P],
         P # {} => held[s] # {} \/ Cardinality(Holding) < MaxOpen
  PROVE  /\ held' \in [ShadowSymbols -> SUBSET Position]
         /\ \A u \in ShadowSymbols : \A p, q \in held'[u] : p = q
         /\ Cardinality(Holding') <= MaxOpen
<1>1. /\ held' \in [ShadowSymbols -> SUBSET Position]
      /\ \A u \in ShadowSymbols : \A p, q \in held'[u] : p = q
  BY DEF ShadowTypeOK, AtMostOne
<1>2. IsFiniteSet(Holding) /\ Cardinality(Holding) \in Nat
  BY ShadowAssumption, FS_Subset, FS_CardinalityType, Holding \in SUBSET ShadowSymbols
     DEF Holding
<1>3. Holding' \subseteq Holding \cup {s} /\ (P = {} \/ s \in Holding => Holding' \subseteq Holding)
  BY DEF Holding, ShadowTypeOK
<1>4. CASE P = {} \/ s \in Holding
  <2>1. Cardinality(Holding') <= Cardinality(Holding)
    BY <1>2, <1>3, <1>4, FS_Subset
  <2>2. IsFiniteSet(Holding') /\ Cardinality(Holding') \in Nat
    BY <1>2, <1>3, <1>4, FS_Subset, FS_CardinalityType
  <2> QED
    BY <1>1, <1>2, <2>1, <2>2, ShadowConstants DEF ShadowTypeOK
<1>5. CASE P # {} /\ s \notin Holding
  <2>1. Cardinality(Holding) < MaxOpen
    BY <1>5 DEF Holding
  <2>2. /\ IsFiniteSet(Holding \cup {s})
        /\ Cardinality(Holding \cup {s}) = Cardinality(Holding) + 1
    BY <1>2, <1>5, FS_AddElement
  <2>3. Cardinality(Holding') <= Cardinality(Holding) + 1
    BY <1>3, <2>2, FS_Subset
  <2>4. IsFiniteSet(Holding') /\ Cardinality(Holding') \in Nat
    BY <1>3, <2>2, FS_Subset, FS_CardinalityType
  <2> QED
    BY <1>1, <1>2, <2>1, <2>3, <2>4, ShadowConstants
<1> QED
  BY <1>4, <1>5

LEMMA UnrealisedType ==
  ASSUME NEW h \in [ShadowSymbols -> SUBSET Position], \A s \in ShadowSymbols : AtMostOne(h[s])
  PROVE  UnrealisedOf(h) \in Int
<1> DEFINE one(P) == SumFunction([p \in P |-> p.unrealised])
           f == [s \in ShadowSymbols |-> one(h[s])]
<1>1. ASSUME NEW s \in ShadowSymbols PROVE one(h[s]) \in Int
  <2> DEFINE P == h[s]
             g == [p \in P |-> p.unrealised]
  <2>1. IsFiniteSet(P)
    <3>1. P = {} \/ \E p : P = {p}
      BY DEF AtMostOne
    <3> QED
      BY <3>1, FS_EmptySet, FS_Singleton
  <2>2. \A p \in P : g[p] \in Int
    BY DEF Position
  <2>3. one(P) = SumFunctionOnSet(g, P)
    BY DEF SumFunction
  <2> HIDE DEF g, P
  <2>4. SumFunctionOnSet(g, P) \in Int
    BY <2>1, <2>2, SumType
  <2> QED
    BY <2>3, <2>4 DEF P
<1> HIDE DEF one
<1>2. \A s \in ShadowSymbols : f[s] \in Int
  BY <1>1
<1>3. UnrealisedOf(h) = SumFunctionOnSet(f, ShadowSymbols)
  BY DEF UnrealisedOf, SumFunction, one
<1> HIDE DEF f
<1> QED
  BY <1>2, <1>3, SumType, ShadowAssumption

LEMMA ShadowInvInit == ShadowInit => ShadowInv
<1> SUFFICES ASSUME ShadowInit PROVE ShadowInv
  OBVIOUS
<1> USE DEF ShadowInit
<1>1. Holding = {}
  BY DEF Holding
<1>2. Cardinality(Holding) <= MaxOpen
  BY <1>1, FS_EmptySet, ShadowConstants
<1>3. ShadowTypeOK
  BY <1>2, ShadowConstants DEF ShadowTypeOK, Larger, Equity
<1>4. CostOf(held) = 0
  <2> DEFINE f == [s \in ShadowSymbols |-> CostOfOne(held[s])]
  <2>1. \A s \in ShadowSymbols : f[s] = 0
    BY CostOfNone
  <2>2. CostOf(held) = SumFunctionOnSet(f, ShadowSymbols)
    BY DEF CostOf, CostOfOne, SumFunction
  <2> HIDE DEF f
  <2>3. SumFunctionOnSet(f, ShadowSymbols) = 0
    BY <2>1, SumZero, ShadowAssumption
  <2> QED
    BY <2>2, <2>3
<1> QED
  BY <1>3, <1>4, ShadowConstants DEF ShadowInv, CashIsExplained

LEMMA ShadowTyped ==
  ASSUME ShadowTypeOK
  PROVE  /\ held \in [ShadowSymbols -> SUBSET Position]
         /\ \A s \in ShadowSymbols : AtMostOne(held[s])
         /\ cash \in Int /\ unrealised \in Int /\ realised \in Int /\ closes \in Nat
BY DEF ShadowTypeOK, AtMostOne

\* A signal that opens a position pays for it.
LEMMA ShadowIngests ==
  ASSUME ShadowInv, NEW s \in ShadowSymbols, NEW price \in ShadowPrices,
         NEW side \in Sides, NEW flat \in BOOLEAN, IngestSignal(s, side, price, flat)
  PROVE  ShadowInv'
<1> DEFINE fill == IF side = "LONG" /\ ~flat THEN price + Slippage ELSE price - Slippage
           p == [side |-> side, entry |-> fill, unrealised |-> 0]
<1>1. fill \in Nat
  BY ShadowConstants
<1> HIDE DEF fill
<1>2. /\ held' = [held EXCEPT ![s] = {p}] /\ held[s] = {} /\ Cardinality(Holding) < MaxOpen
      /\ cash' = cash - (fill + Commission)
      /\ UNCHANGED <<unrealised, realised, peak, closes>>
  BY DEF IngestSignal, MayOpen, fill
<1>3. p \in Position /\ AtMostOne({p})
  BY <1>1 DEF Position, AtMostOne
<1>4. CostOfOne({p}) = fill + Commission
  BY <1>3, CostOfAPosition
<1> HIDE DEF p
<1>5. CostOf(held) \in Int /\ CostOf(held') = CostOf(held) + (fill + Commission)
  <2>1. CostOf(held') = CostOf(held) - CostOfOne({}) + CostOfOne({p})
    BY <1>2, <1>3, ShadowTyped, CostChange DEF ShadowInv
  <2>2. CostOf(held) \in Int
    BY <1>3, ShadowTyped, CostChange DEF ShadowInv
  <2> QED
    BY <1>1, <1>4, <2>1, <2>2, CostOfNone, ShadowConstants
<1>6. CashIsExplained'
  BY <1>1, <1>2, <1>5, ShadowTyped, ShadowConstants DEF ShadowInv, CashIsExplained
<1>7. ShadowTypeOK'
  <2>1. /\ held' \in [ShadowSymbols -> SUBSET Position]
        /\ \A u \in ShadowSymbols : \A q, r \in held'[u] : q = r
        /\ Cardinality(Holding') <= MaxOpen
    BY <1>2, <1>3, HoldingChange DEF ShadowInv
  <2> QED
    BY <1>1, <1>2, <2>1, ShadowConstants DEF ShadowInv, ShadowTypeOK, Larger, Equity
<1> QED
  BY <1>6, <1>7 DEF ShadowInv

\* A close, by hand or at a level, gives back what the position cost with its
\* profit, and takes the commission of the exit a second time.
LEMMA ShadowCloses ==
  ASSUME ShadowInv, NEW s \in ShadowSymbols, NEW price \in ShadowPrices,
         ManualClose(s, price) \/ ExitTick(s, price)
  PROVE  ShadowInv'
<1>1. /\ closes < MaxCloses
      /\ held' = [held EXCEPT ![s] = {}]
      /\ \E p \in held[s] : ClosePosition(s, p, price)
  BY DEF ManualClose, ExitTick
<1>2. PICK p \in held[s] : ClosePosition(s, p, price)
  BY <1>1
<1>3. p \in Position /\ held[s] = {p} /\ AtMostOne({})
  BY ShadowTyped DEF ShadowInv, AtMostOne
<1> DEFINE exit == price - Sign(p.side) * Slippage
           net  == Sign(p.side) * (exit - p.entry) - 2 * Commission
<1>4. net \in Int /\ p.entry \in Int
  BY <1>3, ShadowConstants DEF Sign, Position
<1>5. /\ cash' = cash + (p.entry + net)
      /\ realised' = realised + net
      /\ closes' = closes + 1
  <2>1. PaidBack(p.entry, net) = p.entry + net
    BY <1>4, ShadowConstants DEF PaidBack
  <2> QED
    BY <1>2, <2>1 DEF ClosePosition
<1> HIDE DEF net, exit
<1>6. CostOf(held) \in Int /\ CostOf(held') = CostOf(held) - (p.entry + Commission)
  <2>1. CostOf(held') = CostOf(held) - CostOfOne({p}) + CostOfOne({})
    BY <1>1, <1>3, ShadowTyped, CostChange DEF ShadowInv
  <2>2. CostOf(held) \in Int
    BY <1>3, ShadowTyped, CostChange DEF ShadowInv
  <2> QED
    BY <1>3, <1>4, <2>1, <2>2, CostOfNone, CostOfAPosition, ShadowConstants
<1>7. CashIsExplained'
  <2>1. closes' * Commission = closes * Commission + Commission
    BY <1>5, ShadowTyped, ShadowConstants DEF ShadowInv
  <2>2. closes * Commission \in Int
    BY ShadowTyped, ShadowConstants DEF ShadowInv
  <2> QED
    BY <1>4, <1>5, <1>6, <2>1, <2>2, ShadowTyped, ShadowConstants DEF ShadowInv, CashIsExplained
<1>8. ShadowTypeOK'
  <2>1. /\ held' \in [ShadowSymbols -> SUBSET Position]
        /\ \A u \in ShadowSymbols : \A q, r \in held'[u] : q = r
        /\ Cardinality(Holding') <= MaxOpen
    BY <1>1, <1>3, HoldingChange DEF ShadowInv
  <2>2. cash' \in Int /\ realised' \in Int /\ closes' \in 0..MaxCloses
    BY <1>1, <1>4, <1>5, ShadowTyped, ShadowConstants DEF ShadowInv
  <2>3. unrealised' \in Int
    <3>1. CASE ManualClose(s, price)
      BY <3>1, ShadowTyped DEF ShadowInv, ManualClose
    <3>2. CASE ExitTick(s, price)
      <4>1. \A u \in ShadowSymbols : AtMostOne(held'[u])
        BY <2>1 DEF AtMostOne
      <4> QED
        BY <2>1, <3>2, <4>1, UnrealisedType DEF ExitTick
    <3> QED
      BY <3>1, <3>2
  <2>4. peak' \in Int /\ peak' >= Larger(Capital, Equity(cash', unrealised'))
    <3>1. peak \in Int /\ peak >= Capital
      BY ShadowTyped, ShadowConstants DEF ShadowInv, ShadowTypeOK, Larger, Equity
    <3>2. CASE ManualClose(s, price)
      <4>1. peak' = Larger(peak, Equity(cash', unrealised')) /\ Equity(cash', unrealised') \in Int
        BY <2>2, <2>3, <3>2 DEF ManualClose, Equity
      <4> QED
        BY <3>1, <4>1, ShadowConstants DEF Larger
    <3>3. CASE ExitTick(s, price)
      <4>1. /\ peak' = Larger(peak, Larger(Equity(cash', unrealised), Equity(cash', unrealised')))
            /\ Equity(cash', unrealised') \in Int /\ Equity(cash', unrealised) \in Int
        BY <2>2, <2>3, <3>3, ShadowTyped DEF ShadowInv, ExitTick, Equity
      <4> QED
        BY <3>1, <4>1, ShadowConstants DEF Larger
    <3> QED
      BY <3>2, <3>3
  <2> QED
    BY <2>1, <2>2, <2>3, <2>4 DEF ShadowTypeOK
<1> QED
  BY <1>7, <1>8 DEF ShadowInv

\* A tick that closes nothing only marks a position to the market.
LEMMA ShadowMarks ==
  ASSUME ShadowInv, NEW s \in ShadowSymbols, NEW price \in ShadowPrices, QuietTick(s, price)
  PROVE  ShadowInv'
<1> DEFINE mark(p) == [p EXCEPT !.unrealised = Sign(p.side) * (price - p.entry)]
           P == {mark(p) : p \in held[s]}
<1>1. /\ held' = [held EXCEPT ![s] = P]
      /\ unrealised' = UnrealisedOf(held')
      /\ peak' = Larger(peak, Equity(cash, unrealised'))
      /\ cash' = cash /\ realised' = realised /\ closes' = closes
  BY ShadowTyped DEF ShadowInv, QuietTick, Marked
<1>2. \A p \in held[s] : mark(p) \in Position /\ mark(p).entry = p.entry
  BY ShadowTyped, ShadowConstants DEF ShadowInv, Position, Sign
<1> HIDE DEF mark
<1>3. AtMostOne(held[s]) /\ AtMostOne(P)
  BY <1>2, ShadowTyped DEF ShadowInv, AtMostOne
<1>4. CostOfOne(P) = CostOfOne(held[s])
  <2>1. CASE held[s] = {}
    BY <2>1
  <2>2. ASSUME NEW p \in held[s] PROVE CostOfOne(P) = CostOfOne(held[s])
    <3>1. held[s] = {p} /\ P = {mark(p)} /\ p \in Position
      BY <1>3 DEF AtMostOne
    <3>2. CostOfOne({p}) = p.entry + Commission
      BY <3>1, CostOfAPosition
    <3>3. CostOfOne({mark(p)}) = p.entry + Commission
      BY <1>2, CostOfAPosition
    <3> QED
      BY <3>1, <3>2, <3>3
  <2> QED
    BY <2>1, <2>2
<1>5. P # {} => held[s] # {}
  OBVIOUS
<1> HIDE DEF P
<1>6. CostOf(held') = CostOf(held)
  <2>1. /\ CostOf(held) \in Int
        /\ CostOf(held') = CostOf(held) - CostOfOne(held[s]) + CostOfOne(P)
    BY <1>1, <1>3, ShadowTyped, CostChange DEF ShadowInv
  <2> QED
    BY <1>3, <1>4, <2>1, CostType
<1>7. /\ held' \in [ShadowSymbols -> SUBSET Position]
      /\ \A u \in ShadowSymbols : \A q, r \in held'[u] : q = r
      /\ Cardinality(Holding') <= MaxOpen
  BY <1>1, <1>3, <1>5, HoldingChange DEF ShadowInv
<1>8. unrealised' \in Int
  BY <1>1, <1>7, UnrealisedType DEF AtMostOne
<1>9. ShadowTypeOK'
  <2>1. peak \in Int /\ peak >= Capital
    BY ShadowTyped, ShadowConstants DEF ShadowInv, ShadowTypeOK, Larger, Equity
  <2>2. peak' \in Int /\ peak' >= Larger(Capital, Equity(cash', unrealised'))
    BY <1>1, <1>8, <2>1, ShadowTyped, ShadowConstants DEF ShadowInv, Larger, Equity
  <2> QED
    BY <1>1, <1>7, <1>8, <2>2 DEF ShadowInv, ShadowTypeOK
<1> QED
  BY <1>1, <1>6, <1>9 DEF ShadowInv, CashIsExplained

LEMMA ShadowInvStep == ShadowInv /\ [ShadowNext]_shadowVars => ShadowInv'
<1> SUFFICES ASSUME ShadowInv, [ShadowNext]_shadowVars PROVE ShadowInv'
  OBVIOUS
<1>1. CASE UNCHANGED shadowVars
  <2>1. Holding' = Holding
    BY <1>1 DEF Holding, shadowVars
  <2> QED
    BY <1>1, <2>1 DEF ShadowInv, ShadowTypeOK, CashIsExplained, shadowVars
<1> QED
  BY <1>1, ShadowIngests, ShadowCloses, ShadowMarks DEF ShadowNext

LEMMA ShadowAlways == ShadowSpec => []ShadowInv
BY ShadowInvInit, ShadowInvStep, PTL DEF ShadowSpec

\* A portfolio holds at most one position a symbol and maxOpenPositions in all,
\* and its drawdown is never negative, whatever signals, ticks and closes come.
THEOREM ShadowTypeCorrect == ShadowSpec => []ShadowTypeOK
<1>1. ShadowInv => ShadowTypeOK
  BY DEF ShadowInv
<1> QED
  BY <1>1, ShadowAlways, PTL

\* Cash is what the trades explain: capital, realised profit, the cost of what
\* is open, and the commission of each exit once more than it should be.
THEOREM CashFollowsTrades == ShadowSpec => []CashIsExplained
<1>1. ShadowInv => CashIsExplained
  BY DEF ShadowInv
<1> QED
  BY <1>1, ShadowAlways, PTL

-----------------------------------------------------------------------------
(* The types of the stream, the alerts, the ingestion and the ML breaker *)

\* The stream's state stays well-formed.
THEOREM StreamTypeCorrect == StreamSpec => []StreamTypeOK
<1>1. StreamInit => StreamCounts
  BY StreamAssumption DEF StreamInit, StreamCounts, Live
<1>2. StreamInit => StreamTimers
  BY Zenon DEF StreamInit, StreamTimers
<1>3. StreamCounts /\ StreamTimers => StreamTypeOK
  BY Zenon DEF StreamCounts, StreamTimers, StreamTypeOK
<1> QED
  BY <1>1, <1>2, <1>3, StreamCountsStep, StreamTimersStep, PTL DEF StreamSpec

LEMMA AlertTypedStep == AlertTypeOK /\ [AlertNext]_alertVars => AlertTypeOK'
<1> SUFFICES ASSUME AlertTypeOK, [AlertNext]_alertVars
             PROVE  AlertTypeOK'
  OBVIOUS
<1> USE DEF AlertTypeOK
<1>1. ASSUME NEW w \in Replicas,
             AlertsTick(w) \/ TickDone(w) \/ Notify(w) \/ Book(w) \/ AlertFails(w)
      PROVE  AlertTypeOK'
  <2>1. UNCHANGED <<cooling, reserved>>
    BY <1>1 DEF AlertsTick, TickDone, TickAborts, Notify, Book, NextAlert, AlertFails
  <2>2. /\ alertPc' \in [Replicas -> {"idle", "gate", "reserve", "notify", "book"}]
        /\ at' \in [Replicas -> SUBSET Alerts]
    BY <1>1 DEF AlertsTick, TickDone, TickAborts, Notify, Book, NextAlert, AlertFails
  <2>3. firing' \in [Replicas -> SUBSET Alerts]
    BY <1>1 DEF AlertsTick, TickDone, TickAborts, Notify, Book, NextAlert, AlertFails
  <2> QED
    BY <2>1, <2>2, <2>3
<1>2. ASSUME NEW w \in Replicas, Reserve(w)
      PROVE  AlertTypeOK'
  BY <1>2 DEF Reserve
<1>3. ASSUME NEW w \in Replicas, NEW a \in Alerts, Gate(w, a)
      PROVE  AlertTypeOK'
  BY <1>3 DEF Gate
<1>4. ASSUME NEW a \in Alerts, CooldownEnds(a)
      PROVE  AlertTypeOK'
  BY <1>4 DEF CooldownEnds
<1>5. ASSUME UNCHANGED alertVars
      PROVE  AlertTypeOK'
  BY <1>5 DEF alertVars
<1> QED
  BY <1>1, <1>2, <1>3, <1>4, <1>5 DEF AlertNext

\* The state of the alerts job stays well-formed, and what is reserved is
\* reserved under a key that is there.
THEOREM AlertTypeCorrect == AlertSpec => []AlertTypeOK
<1>1. AlertInit => AlertTypeOK
  BY DEF AlertInit, AlertTypeOK
<1> QED
  BY <1>1, AlertTypedStep, PTL DEF AlertSpec

\* What IngestInv does not say of the types.
IngestRest ==
  /\ claims \in SUBSET Signals
  /\ \A s \in IngestSymbols : Len(recent[s]) <= MaxRows
  /\ ingestPc \in {"idle", "guard", "look", "create"}
  /\ attempt \in 0..Attempts
  /\ ingestPc = "create" => left # {}

LEMMA RowAddedFits ==
  ASSUME IngestInv, IngestRest, NEW g \in left, RowAdded(g)
  PROVE  \A s \in IngestSymbols : Len(recent'[s]) <= MaxRows
<1>1. g.sym \in IngestSymbols /\ g.type \in SignalTypes
  BY DEF IngestInv, IngestTyped, Signals
<1>2. recent[g.sym] \in Seq(SignalTypes)
  BY <1>1 DEF IngestInv, IngestTyped
<1>3. Len(Append(recent[g.sym], g.type)) = Len(recent[g.sym]) + 1 /\ Len(recent[g.sym]) \in Nat
  BY <1>1, <1>2
<1>4. Len(Append(recent[g.sym], g.type)) <= MaxRows
  BY <1>3, IngestAssumption DEF RowAdded
<1> QED
  BY <1>1, <1>4 DEF RowAdded, IngestInv, IngestTyped, IngestRest

LEMMA CutOffFits ==
  ASSUME IngestInv, IngestRest, CutOff
  PROVE  \A s \in IngestSymbols : Len(recent'[s]) <= MaxRows
BY RowAddedFits DEF CutOff, IngestRest

LEMMA EndRests ==
  ASSUME IngestRest, IngestEnds, claims' \in SUBSET Signals,
         \A s \in IngestSymbols : Len(recent'[s]) <= MaxRows
  PROVE  IngestRest'
BY IngestAssumption DEF IngestRest, IngestEnds

LEMMA IngestRestStep == IngestInv /\ IngestRest /\ [IngestNext]_ingestVars => IngestRest'
<1> SUFFICES ASSUME IngestInv, IngestRest, [IngestNext]_ingestVars
             PROVE  IngestRest'
  OBVIOUS
<1>1. ASSUME IngestTick
      PROVE  IngestRest'
  BY <1>1 DEF IngestTick, IngestRest
<1>2. ASSUME Guard
      PROVE  IngestRest'
  <2>1. claims' \in SUBSET Signals /\ UNCHANGED recent
    BY <1>2 DEF Guard, IngestRest, IngestInv, IngestTyped
  <2>2. PICK pass \in SUBSET todo :
          IF pass = {}
          THEN IngestEnds
          ELSE ingestPc' = "look" /\ todo' = pass /\ left' = pass /\ attempt' = 1
    BY <1>2 DEF Guard
  <2>3. CASE pass = {}
    BY <2>1, <2>2, <2>3, EndRests DEF IngestRest
  <2>4. CASE pass # {}
    <3>1. attempt' \in 0..Attempts
      BY <2>2, <2>4, IngestAssumption
    <3> QED
      BY <2>1, <2>2, <2>4, <3>1 DEF IngestRest
  <2> QED
    BY <2>3, <2>4
<1>3. ASSUME NEW s \in IngestSymbols, LookUp(s)
      PROVE  IngestRest'
  <2>1. /\ left # {} /\ ingestPc = "look"
        /\ UNCHANGED ingestPc \/ (ingestPc' = "create" /\ UNCHANGED left)
        /\ UNCHANGED <<claims, recent, attempt>>
    BY <1>3 DEF LookUp
  <2> QED
    BY <2>1 DEF IngestRest
<1>4. ASSUME NEW s \in IngestSymbols, CreateRow(s)
      PROVE  IngestRest'
  <2>1. \A t \in IngestSymbols : Len(recent'[t]) <= MaxRows
    BY <1>4, RowAddedFits DEF CreateRow
  <2> QED
    BY <1>4, <2>1 DEF CreateRow, IngestRest
<1>5. ASSUME IngestDone
      PROVE  IngestRest'
  BY <1>5, EndRests DEF IngestDone, IngestRest
<1>6. ASSUME IngestRetries
      PROVE  IngestRest'
  <2>1. attempt' \in 0..Attempts
    BY <1>6, IngestAssumption DEF IngestRetries, StartAgain, IngestRest
  <2> QED
    BY <1>6, <2>1, CutOffFits DEF IngestRetries, StartAgain, IngestRest
<1>7. ASSUME IngestAborts
      PROVE  IngestRest'
  BY <1>7, CutOffFits, EndRests DEF IngestAborts, IngestRest
<1>8. ASSUME NEW g \in Signals, ClaimExpires(g)
      PROVE  IngestRest'
  BY <1>8 DEF ClaimExpires, IngestRest
<1>9. ASSUME NEW s \in IngestSymbols, WindowPasses(s)
      PROVE  IngestRest'
  <2>1. recent[s] \in Seq(SignalTypes) /\ recent[s] # <<>>
    BY <1>9 DEF WindowPasses, IngestInv, IngestTyped
  <2>2. Len(Tail(recent[s])) <= Len(recent[s]) /\ Len(recent[s]) \in Nat
        /\ Len(Tail(recent[s])) \in Nat
    BY <2>1
  <2>3. Len(Tail(recent[s])) <= MaxRows
    BY <2>2, IngestAssumption DEF IngestRest
  <2> QED
    BY <1>9, <2>3 DEF WindowPasses, IngestInv, IngestTyped, IngestRest
<1>10. ASSUME UNCHANGED ingestVars
       PROVE  IngestRest'
  BY <1>10 DEF ingestVars, IngestRest
<1> QED
  BY <1>1, <1>2, <1>3, <1>4, <1>5, <1>6, <1>7, <1>8, <1>9, <1>10 DEF IngestNext

LEMMA IngestStarts == IngestInit => IngestInv /\ IngestRest
<1> SUFFICES ASSUME IngestInit
             PROVE  IngestInv /\ IngestRest
  OBVIOUS
<1>1. \A s \in IngestSymbols : Len(recent[s]) = 0
  BY DEF IngestInit
<1>2. IngestInv
  BY <1>1 DEF IngestInit, IngestInv, IngestTyped, OneEach, CreatesNew, NoRepeatedRow
<1> QED
  BY <1>1, <1>2, IngestAssumption DEF IngestInit, IngestRest

\* The ingestion's state stays well-formed: what is left of an attempt is part
\* of what the tick ingests, and a row is only created for something left.
THEOREM IngestTypeCorrect == IngestSpec => []IngestTypeOK
<1>1. IngestInv /\ IngestRest => IngestTypeOK
  BY DEF IngestInv, IngestTyped, IngestRest, IngestTypeOK
<1> QED
  BY <1>1, IngestStarts, IngestStep, IngestRestStep, PTL DEF IngestSpec

\* The breaker by its fields.
MlBreaker ==
  [st : {"CLOSED", "OPEN", "HALF_OPEN"}, failures : 0..OpenThreshold,
   successes : 0..CloseThreshold, waiting : BOOLEAN]

\* A breaker that has counted up to its threshold is not closed, and one that
\* waits is open.
SoundBreaker(b) ==
  /\ b \in MlBreaker
  /\ b.st = "CLOSED" => b.failures < OpenThreshold
  /\ b.waiting => b.st = "OPEN"

LEMMA MlConstants ==
  /\ OpenThreshold \in Nat /\ OpenThreshold > 0
  /\ CloseThreshold \in Nat /\ CloseThreshold > 0
BY MlAssumption

LEMMA BreakerBecomes ==
  ASSUME NEW st \in {"CLOSED", "OPEN", "HALF_OPEN"}, NEW failures \in 0..OpenThreshold,
         NEW successes \in 0..CloseThreshold, NEW waiting \in BOOLEAN,
         st = "CLOSED" => failures < OpenThreshold,
         waiting => st = "OPEN"
  PROVE  SoundBreaker([st |-> st, failures |-> failures, successes |-> successes,
                       waiting |-> waiting])
BY DEF SoundBreaker, MlBreaker

\* Whatever a call asks or records, the breaker stays sound.
LEMMA BreakerStaysSound ==
  ASSUME NEW b, SoundBreaker(b)
  PROVE  SoundBreaker(Probed(b)) /\ SoundBreaker(Succeeded(b)) /\ SoundBreaker(Failed(b))
<1>1. /\ b = [st |-> b.st, failures |-> b.failures, successes |-> b.successes,
              waiting |-> b.waiting]
      /\ b.st \in {"CLOSED", "OPEN", "HALF_OPEN"} /\ b.waiting \in BOOLEAN
      /\ b.failures \in 0..OpenThreshold /\ b.successes \in 0..CloseThreshold
      /\ b.st = "CLOSED" => b.failures < OpenThreshold
      /\ b.waiting => b.st = "OPEN"
  BY DEF SoundBreaker, MlBreaker
<1>2. SoundBreaker(Probed(b))
  <2>1. CASE b.st = "OPEN" /\ ~b.waiting
    <3>1. Probed(b) = [st |-> "HALF_OPEN", failures |-> b.failures, successes |-> 0,
                       waiting |-> b.waiting]
      BY <1>1, <2>1 DEF Probed
    <3>2. 0 \in 0..CloseThreshold
      BY MlConstants
    <3> QED
      BY <1>1, <2>1, <3>1, <3>2, BreakerBecomes
  <2>2. CASE ~(b.st = "OPEN" /\ ~b.waiting)
    BY <2>2 DEF Probed
  <2> QED
    BY <2>1, <2>2
<1>3. SoundBreaker(Succeeded(b))
  <2>1. CASE b.st # "HALF_OPEN"
    <3>1. Succeeded(b) = [st |-> b.st, failures |-> 0, successes |-> b.successes,
                          waiting |-> b.waiting]
      BY <1>1, <2>1 DEF Succeeded
    <3>2. 0 \in 0..OpenThreshold /\ 0 < OpenThreshold
      BY MlConstants
    <3> QED
      BY <1>1, <3>1, <3>2, BreakerBecomes
  <2>2. CASE b.st = "HALF_OPEN" /\ b.successes + 1 < CloseThreshold
    <3>1. Succeeded(b) = [st |-> b.st, failures |-> b.failures,
                          successes |-> b.successes + 1, waiting |-> b.waiting]
      BY <1>1, <2>2 DEF Succeeded
    <3>2. b.successes + 1 \in 0..CloseThreshold
      BY <1>1, <2>2, MlConstants
    <3> QED
      BY <1>1, <3>1, <3>2, BreakerBecomes
  <2>3. CASE b.st = "HALF_OPEN" /\ ~(b.successes + 1 < CloseThreshold)
    <3>1. Succeeded(b) = [st |-> "CLOSED", failures |-> 0, successes |-> CloseThreshold,
                          waiting |-> b.waiting]
      BY <1>1, <2>3 DEF Succeeded
    <3>2. ~b.waiting
      BY <1>1, <2>3
    <3>3. 0 \in 0..OpenThreshold /\ 0 < OpenThreshold /\ CloseThreshold \in 0..CloseThreshold
      BY MlConstants
    <3> QED
      BY <1>1, <3>1, <3>2, <3>3, BreakerBecomes
  <2> QED
    BY <2>1, <2>2, <2>3
<1>4. SoundBreaker(Failed(b))
  <2> DEFINE more == Upto(OpenThreshold, b.failures + 1)
  <2>1. more \in 0..OpenThreshold
    BY <1>1, MlConstants DEF Upto
  <2>2. CASE b.st = "HALF_OPEN" \/ more = OpenThreshold
    <3>1. Failed(b) = [b EXCEPT !.st = "OPEN", !.failures = more, !.waiting = TRUE]
      BY <2>2 DEF Failed
    <3>2. Failed(b) = [st |-> "OPEN", failures |-> more, successes |-> b.successes,
                       waiting |-> TRUE]
      BY <1>1, <3>1
    <3> HIDE DEF more
    <3> QED
      BY <1>1, <2>1, <3>2, BreakerBecomes
  <2>3. CASE ~(b.st = "HALF_OPEN" \/ more = OpenThreshold)
    <3>1. Failed(b) = [b EXCEPT !.failures = more]
      BY <2>3 DEF Failed
    <3>2. Failed(b) = [st |-> b.st, failures |-> more, successes |-> b.successes,
                       waiting |-> b.waiting]
      BY <1>1, <3>1
    <3> HIDE DEF more
    <3>3. more < OpenThreshold
      BY <2>1, <2>3, MlConstants
    <3> QED
      BY <1>1, <2>1, <3>2, <3>3, BreakerBecomes
  <2> QED
    BY <2>2, <2>3
<1> QED
  BY <1>2, <1>3, <1>4

LEMMA MlTypeIs ==
  MlTypeOK <=> /\ service \in {"up", "garbage", "down"}
               /\ SoundBreaker(breaker)
               /\ cached \in {"none", "ml", "fallback"}
               /\ mlPc \in [MlCallers -> {"idle", "health", "predict", "finish"}]
BY DEF MlTypeOK, SoundBreaker, MlBreaker

LEMMA MlTypedStep == MlTypeOK /\ [MlNext]_mlVars => MlTypeOK'
<1> SUFFICES ASSUME MlTypeOK, [MlNext]_mlVars
             PROVE  MlTypeOK'
  OBVIOUS
<1>0. /\ service \in {"up", "garbage", "down"}
      /\ SoundBreaker(breaker)
      /\ cached \in {"none", "ml", "fallback"}
      /\ mlPc \in [MlCallers -> {"idle", "health", "predict", "finish"}]
  BY MlTypeIs
<1>1. SoundBreaker(breaker')
  <2>1. SoundBreaker(Failed(Succeeded(breaker)))
    BY <1>0, BreakerStaysSound
  <2>2. CASE breaker' \in {breaker, Probed(breaker), Failed(breaker), Succeeded(breaker),
                           Failed(Succeeded(breaker))}
    BY <1>0, <2>1, <2>2, BreakerStaysSound
  <2>3. CASE DelayPasses
    BY <1>0, <2>3 DEF DelayPasses, SoundBreaker, MlBreaker
  <2> QED
    BY <2>2, <2>3, Zenon
       DEF MlNext, mlVars, Ask, Answer, HealthFails, HealthOk, PredictThrows, PredictInvalid,
           PredictValid, Finish, ContextExpires, ServiceChanges
<1>2. service' \in {"up", "garbage", "down"} /\ cached' \in {"none", "ml", "fallback"}
  BY <1>0
     DEF MlNext, mlVars, Ask, Answer, HealthFails, HealthOk, PredictThrows, PredictInvalid,
         PredictValid, Finish, ContextExpires, ServiceChanges, DelayPasses, FallBack,
         Disappointed
<1>3. mlPc' \in [MlCallers -> {"idle", "health", "predict", "finish"}]
  BY <1>0
     DEF MlNext, mlVars, Ask, Answer, HealthFails, HealthOk, PredictThrows, PredictInvalid,
         PredictValid, Finish, ContextExpires, ServiceChanges, DelayPasses, FallBack,
         Disappointed, Goes
<1> QED
  BY <1>1, <1>2, <1>3 DEF MlTypeOK, SoundBreaker, MlBreaker

\* The breaker of the ML service stays sound under any interleaving of calls:
\* it is closed only while it has counted fewer failures than open it, and it
\* waits only while it is open.
THEOREM MlTypeCorrect == MlSpec => []MlTypeOK
<1>1. MlInit => MlTypeOK
  BY MlAssumption DEF MlInit, MlTypeOK
<1> QED
  BY <1>1, MlTypedStep, PTL DEF MlSpec

-----------------------------------------------------------------------------
(* The services side by side *)

\* A step of the composition is a step of each service or leaves it alone.
LEMMA ServicesStep ==
  ASSUME [Next]_vars
  PROVE  /\ [LockNext]_lockVars
         /\ [AlertNext]_alertVars
         /\ [EngineNext]_engineVars
         /\ [ExpNext]_expVars
         /\ [ShadowNext]_shadowVars
         /\ [MlNext]_mlVars
         /\ [StreamNext]_streamVars
         /\ [IngestNext]_ingestVars
         /\ [WalkNext]_walkVars
BY Zenon
   DEF Next, vars, LockStep, EngineStep, ExperimentsStep, ShadowStep, Alerting, Predicting,
       Streaming, Ingesting, Walking

\* The composition implements each of the nine specifications, so that what is
\* proved of a service holds of it beside the others.
THEOREM ServicesImplement ==
  Spec => /\ LockSpec /\ AlertSpec /\ EngineSpec /\ ExpSpec /\ ShadowSpec
          /\ MlSpec /\ StreamSpec /\ IngestSpec /\ WalkSpec
<1>1. Init => /\ LockInit /\ AlertInit /\ EngineInit /\ ExpInit /\ ShadowInit
              /\ MlInit /\ StreamInit /\ IngestInit /\ WalkInit
  BY Zenon DEF Init
<1> QED
  BY <1>1, ServicesStep, PTL
     DEF Spec, LockSpec, AlertSpec, EngineSpec, ExpSpec, ShadowSpec, MlSpec, StreamSpec,
         IngestSpec, WalkSpec

\* The state of every service stays well-formed.
THEOREM ServicesTypeCorrect == Spec => []ServicesTypeOK
<1>1. LockTypeOK /\ AlertTypeOK /\ EngineTypeOK /\ ExpTypeOK /\ ShadowTypeOK /\ MlTypeOK
        /\ StreamTypeOK /\ IngestTypeOK /\ WalkTypeOK => ServicesTypeOK
  BY Zenon DEF ServicesTypeOK
<1> QED
  BY <1>1, ServicesImplement, LockTypeCorrect, AlertTypeCorrect, EngineTypeCorrect,
     ExpTypeCorrect, ShadowTypeCorrect, MlTypeCorrect, StreamTypeCorrect, IngestTypeCorrect,
     WalkTypeCorrect, PTL

\* What a service promises it keeps beside the others, when the walks of an
\* open row are close enough.
THEOREM ServicesKeepPromises ==
  ASSUME MaxGap < CandleWindow
  PROVE  Spec => /\ [](OncePerReplica /\ OnePosition /\ NoEntryMissed)
                 /\ [](FirstTouchCloses /\ LiveWasApproved /\ ActiveWhileRunning)
                 /\ [](CashIsExplained /\ OneStream /\ NoRepeatedRow /\ OutcomeIsFirstTouch)
                 /\ FinishedStaysFinished /\ RaceIsContained
<1>1. WalkSpec => []OutcomeIsFirstTouch
  BY FirstTouchDecides
<1> QED
  BY <1>1, RaceStaysContained, ServicesImplement, AlertsFireOnce, OneAtATime, EveryEntryTaken,
     ClosesAtFirstTouch, NoAutoPromotion, OnlyRunningArmsActive, CashFollowsTrades,
     StreamStaysSingle, RowsNeverRepeat, FinishedNeverRuns, PTL

=============================================================================
