-------------------------- MODULE DistributedLock ---------------------------
(***************************************************************************)
(* The Redis lock of redis-resilience.ts and worker-resilience.ts: SET NX  *)
(* with a TTL, polled until it is granted or a deadline has passed, and a  *)
(* release that reads the token and deletes the key if it is still its     *)
(* own.  Any number of clients; the TTL runs out at any time, also under a *)
(* client that still holds the lock or is in the middle of its release.    *)
(***************************************************************************)
EXTENDS Naturals, FiniteSets

CONSTANTS
  LockClients, \* processes that take the lock
  LockTokens   \* number of tokens a client draws from

ASSUME LockAssumption == LockTokens \in Nat

VARIABLES
  key,      \* the tokens stored under the lock's key: none or one
  lockPc,   \* what a client is doing
  drawn,    \* the client's token, by its number; 0 before the first
  overran   \* clients whose key has run out while they held the lock

lockVars == <<key, lockPc, drawn, overran>>

-----------------------------------------------------------------------------

Token(c) == [client |-> c, number |-> drawn[c]]

InLock(c) == lockPc[c] \in {"holding", "deleting"}

\* A bug to catch: a client never draws a token.
OldToken(c) == UNCHANGED drawn

\* A random token for every acquisition, never one that is stored.
NewToken(c) ==
  \E i \in 1..LockTokens :
    /\ [client |-> c, number |-> i] \notin key
    /\ drawn' = [drawn EXCEPT ![c] = i]

LockBegin(c) ==
  /\ lockPc[c] = "idle"
  /\ lockPc' = [lockPc EXCEPT ![c] = "trying"]
  /\ NewToken(c)
  /\ overran' = overran \ {c}
  /\ UNCHANGED key

\* The NX of SET NX.
KeyIsFree == key = {}

\* SET NX is granted.  When its answer is lost the error becomes null and the
\* client polls on, against its own token.
LockSet(c) ==
  /\ lockPc[c] = "trying"
  /\ KeyIsFree
  /\ key' = {Token(c)}
  /\ \/ lockPc' = [lockPc EXCEPT ![c] = "holding"]
     \/ UNCHANGED lockPc
  /\ UNCHANGED <<drawn, overran>>

\* The deadline passes: LockAcquireTimeoutError.
LockGiveUp(c) ==
  /\ lockPc[c] = "trying"
  /\ lockPc' = [lockPc EXCEPT ![c] = "idle"]
  /\ UNCHANGED <<key, drawn, overran>>

\* A bug to catch: the release deletes the key without a look at its token.
AnyToken(c) == TRUE

\* current === token.
StillOwns(c) == key = {Token(c)}

\* The GET of release.  One that fails gives null, like another's token.
LockRead(c) ==
  /\ lockPc[c] = "holding"
  /\ \/ StillOwns(c) /\ lockPc' = [lockPc EXCEPT ![c] = "deleting"]
     \/ lockPc' = [lockPc EXCEPT ![c] = "idle"]
  /\ UNCHANGED <<key, drawn, overran>>

\* The DEL of release, which may fail, whoever's token is there by now.
LockDelete(c) ==
  /\ lockPc[c] = "deleting"
  /\ key' \in {key, {}}
  /\ lockPc' = [lockPc EXCEPT ![c] = "idle"]
  /\ UNCHANGED <<drawn, overran>>

\* The TTL of the key runs out, also between the two calls of a release.
LockExpires ==
  /\ key # {}
  /\ key' = {}
  /\ overran' = overran \union {c \in LockClients : InLock(c) /\ key = {Token(c)}}
  /\ UNCHANGED <<lockPc, drawn>>

\* The client's process dies and starts again; its key stays.
LockCrash(c) ==
  /\ lockPc[c] # "idle"
  /\ lockPc' = [lockPc EXCEPT ![c] = "idle"]
  /\ UNCHANGED <<key, drawn, overran>>

LockInit ==
  /\ key = {}
  /\ lockPc = [c \in LockClients |-> "idle"]
  /\ drawn = [c \in LockClients |-> 0]
  /\ overran = {}

LockNext ==
  \/ \E c \in LockClients :
       \/ LockBegin(c) \/ LockSet(c) \/ LockGiveUp(c)
       \/ LockRead(c) \/ LockDelete(c) \/ LockCrash(c)
  \/ LockExpires

LockSpec == LockInit /\ [][LockNext]_lockVars

-----------------------------------------------------------------------------
(* Properties *)

Tokens == [client : LockClients, number : 1..LockTokens]

\* The lock's state is well-formed: one token at most is stored.
LockTypeOK ==
  /\ key \in {{}} \union {{t} : t \in Tokens}
  /\ lockPc \in [LockClients -> {"idle", "trying", "holding", "deleting"}]
  /\ drawn \in [LockClients -> 0..LockTokens]
  /\ overran \in SUBSET LockClients

\* A client that has been granted the lock and whose TTL has not run out owns
\* the key, whatever others do: "prevents a slow holder from releasing a lock
\* that was already grabbed by another worker after expiry", "so only the lock
\* owner can free it" (redis-resilience.ts).  The code does not keep this: the
\* GET and the DEL of a release are two calls.
HolderKeepsLock ==
  \A c \in LockClients : InLock(c) /\ c \notin overran => key = {Token(c)}

\* Clients whose key is not their own although they rely on it: they hold the
\* lock and their TTL has not run out, or are about to delete the key.
Astray ==
  {c \in LockClients :
     /\ lockPc[c] = "deleting" \/ (lockPc[c] = "holding" /\ c \notin overran)
     /\ key # {Token(c)}}

\* What release does keep: a client goes astray only when its own TTL runs out
\* between the two calls of its release, or when the DEL of one that is astray
\* takes its key; that one is then astray no longer.  So the token is of use:
\* a holder that overran before its release frees nobody, and each TTL that
\* runs out inside a release robs at most one holder, however many releases
\* pass the loss on.
RaceIsContained ==
  [][\A c \in Astray' \ Astray :
       /\ key = {Token(c)}
       /\ \/ lockPc[c] = "deleting" /\ c \in overran'
          \/ \E d \in Astray :
               /\ lockPc[d] = "deleting"
               /\ Astray' = (Astray \ {d}) \union {c}]_lockVars

=============================================================================
