---------------------------- MODULE SignalIngest ----------------------------
(***************************************************************************)
(* The signal-ingest job: a tick takes the engine's signals, claims each   *)
(* in Redis, and ingestSignals writes those that are not repetitions to    *)
(* SignalHistory, one after another, all of it retried when the database   *)
(* fails in a way that may pass.  Calls to Redis and to the database may   *)
(* fail, before or after they took effect, and the worker may die.         *)
(***************************************************************************)
EXTENDS Naturals, Sequences

CONSTANTS
  IngestSymbols, \* positions in TRACKED_SYMBOLS
  SignalTypes,   \* actionable types
  SteadySymbols, \* symbols whose signal is the same at every tick,
  SteadyType,    \* and what it is
  Attempts,      \* maxAttempts of withDbRetry
  MaxRows        \* bound on the rows of a symbol in DEDUP_WINDOW_MS

ASSUME IngestAssumption ==
  /\ IngestSymbols \subseteq Nat
  /\ Attempts \in Nat \ {0}
  /\ MaxRows \in Nat \ {0}

VARIABLES
  claims,   \* signal:guard keys that are present
  recent,   \* symbol -> types of its rows of the last thirty minutes
  ingestPc, \* what the tick is waiting for
  todo,     \* the signals the tick ingests
  left,     \* those this attempt has still to look at
  attempt   \* attempts begun

ingestVars == <<claims, recent, ingestPc, todo, left, attempt>>

-----------------------------------------------------------------------------

Signals == [sym : IngestSymbols, type : SignalTypes]

\* One signal for a symbol at most: HOLD is not ingested.
Batches ==
  {B \in SUBSET Signals :
     /\ \A g, h \in B : g.sym = h.sym => g = h
     /\ \A s \in SteadySymbols : [sym |-> s, type |-> SteadyType] \in B}

NextSignal(g) == g \in left /\ \A h \in left : g.sym <= h.sym

IngestEnds ==
  /\ ingestPc' = "idle"
  /\ todo' = {}
  /\ left' = {}
  /\ attempt' = 0

\* getSignals.
IngestTick ==
  /\ ingestPc = "idle"
  /\ todo' \in Batches \ {{}}
  /\ ingestPc' = "guard"
  /\ UNCHANGED <<claims, recent, left, attempt>>

\* checkAndSetSignalGuard of all signals at once.  A call that fails lets its
\* signal pass, and may have set the key or not.
Guard ==
  /\ ingestPc = "guard"
  /\ \E failed \in SUBSET todo : \E lost \in SUBSET failed :
       LET pass == {g \in todo : g \in failed \/ g \notin claims} IN
       /\ claims' = claims \union (todo \ lost)
       /\ IF pass = {}
          THEN IngestEnds
          ELSE /\ ingestPc' = "look"
               /\ todo' = pass
               /\ left' = pass
               /\ attempt' = 1
  /\ UNCHANGED recent

\* The latest row of the symbol is recent and of the same type.
Repeats(g) ==
  recent[g.sym] # <<>> /\ recent[g.sym][Len(recent[g.sym])] = g.type

\* findFirst.
LookUp(s) ==
  /\ ingestPc = "look"
  /\ \E g \in left :
       /\ g.sym = s
       /\ NextSignal(g)
       /\ IF Repeats(g)
          THEN left' = left \ {g} /\ UNCHANGED ingestPc
          ELSE ingestPc' = "create" /\ UNCHANGED left
  /\ UNCHANGED <<claims, recent, todo, attempt>>

RowAdded(g) ==
  /\ Len(recent[g.sym]) < MaxRows
  /\ recent' = [recent EXCEPT ![g.sym] = Append(@, g.type)]

\* create.
CreateRow(s) ==
  /\ ingestPc = "create"
  /\ \E g \in left :
       /\ g.sym = s
       /\ NextSignal(g)
       /\ RowAdded(g)
       /\ left' = left \ {g}
  /\ ingestPc' = "look"
  /\ UNCHANGED <<claims, todo, attempt>>

IngestDone ==
  /\ ingestPc = "look"
  /\ left = {}
  /\ IngestEnds
  /\ UNCHANGED <<claims, recent>>

\* What a call that is cut off has done: a create may have committed.
CutOff ==
  \/ UNCHANGED recent
  \/ ingestPc = "create" /\ \E g \in left : NextSignal(g) /\ RowAdded(g)

\* A bug to catch: the next attempt goes on where the last one failed.
ResumeCreate ==
  /\ UNCHANGED <<ingestPc, left>>
  /\ attempt' = attempt + 1

\* The next attempt begins with the first signal.
StartAgain ==
  /\ ingestPc' = "look"
  /\ left' = todo
  /\ attempt' = attempt + 1

\* A retryable error: ingestSignals is called again.
IngestRetries ==
  /\ ingestPc \in {"look", "create"}
  /\ left # {}
  /\ attempt < Attempts
  /\ CutOff
  /\ StartAgain
  /\ UNCHANGED <<claims, todo>>

\* Any other error, one too many, or the end of the process.
IngestAborts ==
  /\ ingestPc # "idle"
  /\ CutOff
  /\ IngestEnds
  /\ UNCHANGED claims

\* A bug to catch: the claim is set without EX.
KeepsClaim(g) == FALSE

\* The ninety seconds of a claim are over, or its hour is.
ClaimIsOver(g) == g \in claims

ClaimExpires(g) ==
  /\ ClaimIsOver(g)
  /\ claims' = claims \ {g}
  /\ UNCHANGED <<recent, ingestPc, todo, left, attempt>>

\* The oldest of the recent rows turns thirty minutes old.
WindowPasses(s) ==
  /\ recent[s] # <<>>
  /\ recent' = [recent EXCEPT ![s] = Tail(@)]
  /\ UNCHANGED <<claims, ingestPc, todo, left, attempt>>

IngestInit ==
  /\ claims = {}
  /\ recent = [s \in IngestSymbols |-> <<>>]
  /\ ingestPc = "idle"
  /\ todo = {}
  /\ left = {}
  /\ attempt = 0

IngestNext ==
  \/ IngestTick \/ Guard \/ IngestDone \/ IngestRetries \/ IngestAborts
  \/ \E s \in IngestSymbols : LookUp(s) \/ CreateRow(s) \/ WindowPasses(s)
  \/ \E g \in Signals : ClaimExpires(g)

IngestSpec == IngestInit /\ [][IngestNext]_ingestVars

-----------------------------------------------------------------------------
(* Properties *)

\* The job's state is well-formed; what is left of an attempt is part of what
\* the tick ingests.
IngestTypeOK ==
  /\ claims \in SUBSET Signals
  /\ recent \in [IngestSymbols -> Seq(SignalTypes)]
  /\ \A s \in IngestSymbols : Len(recent[s]) <= MaxRows
  /\ ingestPc \in {"idle", "guard", "look", "create"}
  /\ todo \in SUBSET Signals
  /\ left \in SUBSET todo
  /\ attempt \in 0..Attempts
  /\ ingestPc = "create" => left # {}

\* SignalHistory never holds the same type twice in a row for a symbol within
\* thirty minutes ("deduplicating against the most recent row per symbol",
\* history.ts), though a create whose answer is lost is followed by another
\* attempt or tick, claims fail or expire and the worker restarts.
NoRepeatedRow ==
  \A s \in IngestSymbols : \A i \in 1..(Len(recent[s]) - 1) : recent[s][i] # recent[s][i + 1]

\* A signal that persists is recorded again and again, although it is claimed
\* before it is written, the claim outlives a tick that failed and suppresses
\* the next one, and rows are written for a change of type only.
SteadyIsRecorded == \A s \in SteadySymbols : []<>(recent[s] # <<>>)

=============================================================================
