----------------------------- MODULE AuditTrail -----------------------------
(***************************************************************************)
(* What the audit trail of signal lifecycle events promises while its      *)
(* process lives: an event is emitted once and then, with others of its    *)
(* batch, either recorded or refused by the database, never both and never *)
(* twice.                                                                  *)
(***************************************************************************)
CONSTANT Events

VARIABLES
  waiting,  \* emitted, not yet decided
  recorded, \* written to the database
  refused   \* given up after a failed transaction

trail == <<waiting, recorded, refused>>

Init == waiting = {} /\ recorded = {} /\ refused = {}

Emit(e) ==
  /\ e \notin waiting \union recorded \union refused
  /\ waiting' = waiting \union {e}
  /\ UNCHANGED <<recorded, refused>>

Record(batch) ==
  /\ batch \subseteq waiting
  /\ waiting' = waiting \ batch
  /\ recorded' = recorded \union batch
  /\ UNCHANGED refused

Refuse(batch) ==
  /\ batch \subseteq waiting
  /\ waiting' = waiting \ batch
  /\ refused' = refused \union batch
  /\ UNCHANGED recorded

Next ==
  \/ \E e \in Events : Emit(e)
  \/ \E batch \in SUBSET waiting : Record(batch) \/ Refuse(batch)

Spec == Init /\ [][Next]_trail

=============================================================================
