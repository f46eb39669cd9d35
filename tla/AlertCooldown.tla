--------------------------- MODULE AlertCooldown ----------------------------
(***************************************************************************)
(* Ticks of the alerts job: each alert whose condition holds goes through  *)
(* fireAlert, which reads the alert's cooldown key, sets it, creates the   *)
(* notification, sends it and updates the alert, with an await between     *)
(* any two of them.  A call that fails ends the tick.  Any number of       *)
(* replicas of the worker.                                                 *)
(***************************************************************************)
EXTENDS Naturals, FiniteSets

CONSTANTS
  Replicas, \* processes that run the alerts job
  Alerts,   \* active alerts
  Steady    \* those whose condition holds at every tick

ASSUME AlertAssumption ==
  /\ IsFiniteSet(Replicas)
  /\ Steady \subseteq Alerts

VARIABLES
  cooling,   \* alerts whose cooldown key is present
  alertPc,   \* where a replica's tick stands
  firing,    \* the alerts its tick has still to look at
  at,        \* the alert it is at, in a set of at most one
  reserved   \* reservations of an alert since its key last ran out

alertVars == <<cooling, alertPc, firing, at, reserved>>

-----------------------------------------------------------------------------

\* The tick goes on to the next alert.
NextAlert(w) ==
  /\ alertPc' = [alertPc EXCEPT ![w] = "gate"]
  /\ at' = [at EXCEPT ![w] = {}]
  /\ UNCHANGED firing

\* What a call that throws does: the error leaves the loop.
TickAborts(w) ==
  /\ alertPc' = [alertPc EXCEPT ![w] = "idle"]
  /\ firing' = [firing EXCEPT ![w] = {}]
  /\ at' = [at EXCEPT ![w] = {}]

AlertsTick(w) ==
  /\ alertPc[w] = "idle"
  /\ alertPc' = [alertPc EXCEPT ![w] = "gate"]
  /\ \E S \in SUBSET Alerts : Steady \subseteq S /\ firing' = [firing EXCEPT ![w] = S]
  /\ UNCHANGED <<cooling, at, reserved>>

TickDone(w) ==
  /\ alertPc[w] = "gate"
  /\ firing[w] = {}
  /\ TickAborts(w)
  /\ UNCHANGED <<cooling, reserved>>

\* A bug to catch: the gate does not look at the key.
NoCooldown(a) == TRUE

\* existing is null.
MayFire(a) == a \notin cooling

\* The GET of the cooldown key.
Gate(w, a) ==
  /\ alertPc[w] = "gate"
  /\ a \in firing[w]
  /\ firing' = [firing EXCEPT ![w] = @ \ {a}]
  /\ IF MayFire(a)
     THEN /\ alertPc' = [alertPc EXCEPT ![w] = "reserve"]
          /\ at' = [at EXCEPT ![w] = {a}]
     ELSE UNCHANGED <<alertPc, at>>
  /\ UNCHANGED <<cooling, reserved>>

\* The SET, with EX and without NX.
Reserve(w) ==
  /\ alertPc[w] = "reserve"
  /\ cooling' = cooling \union at[w]
  /\ reserved' = [a \in Alerts |-> IF a \in at[w] THEN reserved[a] + 1 ELSE reserved[a]]
  /\ alertPc' = [alertPc EXCEPT ![w] = "notify"]
  /\ UNCHANGED <<firing, at>>

\* notification.create.
Notify(w) ==
  /\ alertPc[w] = "notify"
  /\ alertPc' = [alertPc EXCEPT ![w] = "book"]
  /\ UNCHANGED <<cooling, firing, at, reserved>>

\* alert.update, once the channels have settled.
Book(w) ==
  /\ alertPc[w] = "book"
  /\ NextAlert(w)
  /\ UNCHANGED <<cooling, reserved>>

\* A call throws, or the process dies: what was reserved stays reserved.
AlertFails(w) ==
  /\ alertPc[w] # "idle"
  /\ TickAborts(w)
  /\ UNCHANGED <<cooling, reserved>>

\* A bug to catch: the key is set without EX.
NeverEnds(a) == FALSE

\* The TTL has run out.
CooldownOver(a) == a \in cooling

CooldownEnds(a) ==
  /\ CooldownOver(a)
  /\ cooling' = cooling \ {a}
  /\ reserved' = [reserved EXCEPT ![a] = 0]
  /\ UNCHANGED <<alertPc, firing, at>>

AlertInit ==
  /\ cooling = {}
  /\ alertPc = [w \in Replicas |-> "idle"]
  /\ firing = [w \in Replicas |-> {}]
  /\ at = [w \in Replicas |-> {}]
  /\ reserved = [a \in Alerts |-> 0]

AlertNext ==
  \/ \E w \in Replicas :
       \/ AlertsTick(w) \/ TickDone(w) \/ Reserve(w) \/ Notify(w) \/ Book(w) \/ AlertFails(w)
       \/ \E a \in Alerts : Gate(w, a)
  \/ \E a \in Alerts : CooldownEnds(a)

AlertSpec == AlertInit /\ [][AlertNext]_alertVars

-----------------------------------------------------------------------------
(* Properties *)

\* The state of the alerts job is well-formed, and what is reserved is reserved
\* under a key that is there.
AlertTypeOK ==
  /\ cooling \in SUBSET Alerts
  /\ alertPc \in [Replicas -> {"idle", "gate", "reserve", "notify", "book"}]
  /\ firing \in [Replicas -> SUBSET Alerts]
  /\ at \in [Replicas -> SUBSET Alerts]
  /\ reserved \in [Alerts -> Nat]
  /\ \A a \in Alerts : a \notin cooling => reserved[a] = 0

\* Within one cooldown an alert is reserved, hence notified, at most once by
\* each replica: "worst-case re-entry produces at most one extra Notification
\* per cooldown" (dispatch.ts) is what this says of two replicas, and one
\* replica, as deployed, never notifies twice.
OncePerReplica == \A a \in Alerts : reserved[a] <= Cardinality(Replicas)

\* An alert whose condition persists is notified again and again: neither a
\* tick that failed after it had reserved the alert nor the alerts before it
\* in the list silence it for good.
AlertGetsThrough ==
  \A a \in Steady : []<>(\E w \in Replicas : alertPc[w] = "book" /\ a \in at[w])

=============================================================================
