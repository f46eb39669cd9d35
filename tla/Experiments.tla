----------------------------- MODULE Experiments ----------------------------
(***************************************************************************)
(* Experiments, their arms and the approval tokens of lib/experiments, as  *)
(* the experiment routes drive them: one action for each kind of request,  *)
(* whose body runs without an await once the request has been read, so     *)
(* that requests interleave only as wholes.  Everything is kept in the     *)
(* memory of the server and gone when it restarts.                         *)
(***************************************************************************)
EXTENDS Naturals, FiniteSets

CONSTANTS
  ExperimentIds, \* experiments that may be created
  ArmIds,        \* arms of each
  TokenIds       \* random strings issued as tokens

VARIABLES
  status,  \* of each experiment, "ABSENT" before it is created
  mode,    \* of each arm
  active,  \* arms that are sent ticks
  token,   \* approval tokens, {} or one record for each string
  audit    \* promotion events: <<what, arm>>

expVars == <<status, mode, active, token, audit>>

-----------------------------------------------------------------------------

ArmsOf(e) == {e} \X ArmIds

AllArms == ExperimentIds \X ArmIds

Modes == {"RESEARCH", "BACKTEST", "SHADOW", "PAPER", "LIVE"}

Audited(what, a) == audit' = audit \union {<<what, a>>}

\* LIVE_ARM_FORBIDDEN.
CreatableModes == Modes \ {"LIVE"}

CreateExperiment(e) ==
  /\ status[e] = "ABSENT"
  /\ status' = [status EXCEPT ![e] = "PAUSED"]
  /\ \E m \in [ArmsOf(e) -> CreatableModes] :
       mode' = [a \in AllArms |-> IF a \in ArmsOf(e) THEN m[a] ELSE mode[a]]
  /\ UNCHANGED <<active, token, audit>>

\* A bug to catch: whatever is not running can be started.
StartAny == {"PAUSED", "COMPLETED", "ARCHIVED"}

Startable == {"PAUSED"}

\* A running experiment stays as it is, a finished one is an error.
StartExperiment(e) ==
  /\ status[e] \in Startable
  /\ status' = [status EXCEPT ![e] = "RUNNING"]
  /\ active' = active \union ArmsOf(e)
  /\ UNCHANGED <<mode, token, audit>>

PauseExperiment(e) ==
  /\ status[e] = "RUNNING"
  /\ status' = [status EXCEPT ![e] = "PAUSED"]
  /\ active' = active \ ArmsOf(e)
  /\ UNCHANGED <<mode, token, audit>>

\* A bug to catch: the arms of a completed experiment are not switched off.
KeepArms(e) == {}

ArmsToStop(e) == ArmsOf(e)

\* Whatever the status, an archived experiment included.
CompleteExperiment(e) ==
  /\ status[e] # "ABSENT"
  /\ status' = [status EXCEPT ![e] = "COMPLETED"]
  /\ active' = active \ ArmsToStop(e)
  /\ UNCHANGED <<mode, token, audit>>

Archivable == {"PAUSED", "COMPLETED", "ARCHIVED"}

ArchiveExperiment(e) ==
  /\ status[e] \in Archivable
  /\ status' = [status EXCEPT ![e] = "ARCHIVED"]
  /\ UNCHANGED <<mode, active, token, audit>>

-----------------------------------------------------------------------------
(* Promotion *)

ValidTransitions ==
  {<<"RESEARCH", "BACKTEST">>, <<"BACKTEST", "SHADOW">>, <<"SHADOW", "PAPER">>, <<"PAPER", "LIVE">>}

PromoteArm(a, m) ==
  /\ <<mode[a], m>> \in ValidTransitions
  /\ mode' = [mode EXCEPT ![a] = m]

MinimumTrades == 50

\* closedTradeCount: set to 0 when the arm is made, assigned nowhere else.
ClosedTradeCount(a) == 0

\* The gates, on the summary the route makes up: every metric of it but the
\* trades is 0 and passes.  The days that were observed are not tracked.
GatesPass(a) == ClosedTradeCount(a) >= MinimumTrades

\* PATCH promote, of an arm in SHADOW mode.
Promote(a) ==
  /\ mode[a] = "SHADOW"
  /\ status[a[1]] # "ABSENT"
  /\ Audited("CHECK_PERFORMED", a)
  /\ IF GatesPass(a) THEN PromoteArm(a, "PAPER") ELSE UNCHANGED mode
  /\ UNCHANGED <<status, active, token>>

\* PATCH issue-approval-token, of an arm in PAPER mode.
IssueToken(a, k) ==
  /\ status[a[1]] # "ABSENT"
  /\ mode[a] = "PAPER"
  /\ token[k] = {}
  /\ token' = [token EXCEPT ![k] = {[arm |-> a, state |-> "fresh"]}]
  /\ Audited("TOKEN_ISSUED", a)
  /\ UNCHANGED <<status, mode, active>>

\* Its 24 hours have passed.
TokenExpires(k) ==
  /\ \E r \in token[k] :
       /\ r.state = "fresh"
       /\ token' = [token EXCEPT ![k] = {[r EXCEPT !.state = "expired"]}]
  /\ UNCHANGED <<status, mode, active, audit>>

\* A bug to catch: a token of another arm will do.
ForAnyArm(r, a) == r.state = "fresh"

\* Not consumed, not expired, and for this arm.
Approves(r, a) == r.state = "fresh" /\ r.arm = a

\* consumedAtMs is set.
Consume(k, r, s) == token' = [token EXCEPT ![k] = {[r EXCEPT !.state = s]}]

\* approveLivePromotion and promoteArm, in one go.
Approve(a, k, r) ==
  /\ Consume(k, r, "used")
  /\ PromoteArm(a, "LIVE")
  /\ audit' = audit \union {<<"TOKEN_CONSUMED", a>>, <<"PROMOTION_APPROVED", a>>}

\* A token that is presented too late is marked consumed, whoever presents it;
\* any other refusal is only noted.
Refuse(a, k, r) ==
  /\ UNCHANGED mode
  /\ IF r.state = "expired"
     THEN /\ Consume(k, r, "void")
          /\ Audited("TOKEN_EXPIRED", a)
     ELSE /\ UNCHANGED token
          /\ Audited("TOKEN_REJECTED", a)

\* PATCH approve-live, of an arm in PAPER mode.
ApproveLive(a, k) ==
  /\ status[a[1]] # "ABSENT"
  /\ mode[a] = "PAPER"
  /\ \E r \in token[k] : IF Approves(r, a) THEN Approve(a, k, r) ELSE Refuse(a, k, r)
  /\ UNCHANGED <<status, active>>

\* approve-live with a string that no token has.
ApproveUnknown(a) ==
  /\ status[a[1]] # "ABSENT"
  /\ mode[a] = "PAPER"
  /\ Audited("TOKEN_REJECTED", a)
  /\ UNCHANGED <<status, mode, active, token>>

-----------------------------------------------------------------------------

ExpInit ==
  /\ status = [e \in ExperimentIds |-> "ABSENT"]
  /\ mode = [a \in AllArms |-> "RESEARCH"]
  /\ active = {}
  /\ token = [k \in TokenIds |-> {}]
  /\ audit = {}

\* The server starts again with empty singletons.
ServerRestarts ==
  /\ status' = [e \in ExperimentIds |-> "ABSENT"]
  /\ mode' = [a \in AllArms |-> "RESEARCH"]
  /\ active' = {}
  /\ token' = [k \in TokenIds |-> {}]
  /\ audit' = {}

ExpNext ==
  \/ \E e \in ExperimentIds :
       \/ CreateExperiment(e) \/ StartExperiment(e) \/ PauseExperiment(e)
       \/ CompleteExperiment(e) \/ ArchiveExperiment(e)
  \/ \E a \in AllArms :
       \/ Promote(a) \/ ApproveUnknown(a)
       \/ \E k \in TokenIds : IssueToken(a, k) \/ ApproveLive(a, k)
  \/ \E k \in TokenIds : TokenExpires(k)
  \/ ServerRestarts

ExpSpec == ExpInit /\ [][ExpNext]_expVars

-----------------------------------------------------------------------------
(* Properties *)

Statuses == {"ABSENT", "PAUSED", "RUNNING", "COMPLETED", "ARCHIVED"}

TokenStates == {"fresh", "expired", "used", "void"}

Events ==
  {"CHECK_PERFORMED", "TOKEN_ISSUED", "TOKEN_CONSUMED", "TOKEN_EXPIRED", "TOKEN_REJECTED",
   "PROMOTION_APPROVED"}

\* Experiments, arms and tokens are well-formed, and a string is a token of
\* one arm at most.
ExpTypeOK ==
  /\ status \in [ExperimentIds -> Statuses]
  /\ mode \in [AllArms -> Modes]
  /\ active \in SUBSET AllArms
  /\ token \in [TokenIds -> {{}} \union {{r} : r \in [arm : AllArms, state : TokenStates]}]
  /\ audit \in SUBSET (Events \X AllArms)

UsedFor(a) == {k \in TokenIds : [arm |-> a, state |-> "used"] \in token[k]}

\* "There is NO endpoint that auto-promotes to LIVE": an arm is LIVE exactly
\* when a token issued to it was used, the approval was audited, and no second
\* token was used up for it; a token is not spent without the promotion.
LiveWasApproved ==
  \A a \in AllArms :
    /\ mode[a] = "LIVE" => UsedFor(a) # {} /\ <<"PROMOTION_APPROVED", a>> \in audit
    /\ \A j, k \in UsedFor(a) : j = k
    /\ UsedFor(a) # {} => mode[a] = "LIVE"

\* The arms that are sent ticks are those of the running experiments.
ActiveWhileRunning == active = {a \in AllArms : status[a[1]] = "RUNNING"}

\* Once an experiment is completed or archived it never runs again, through
\* any sequence of requests, nor do its arms; only a restart forgets it.
FinishedStaysFinished ==
  [][\A e \in ExperimentIds :
       status[e] \in {"COMPLETED", "ARCHIVED"} =>
         status'[e] \in {"COMPLETED", "ARCHIVED", "ABSENT"} /\ active' \intersect ArmsOf(e) = {}]_expVars

=============================================================================
