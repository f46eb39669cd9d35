------------------------- MODULE ExperimentsProofs --------------------------
(***************************************************************************)
(* For any number of experiments, arms and tokens and any sequence of      *)
(* requests, expiries and restarts: an arm is LIVE exactly when a token    *)
(* issued to it was used, only arms of running experiments are active, and *)
(* what is finished never runs again.                                      *)
(***************************************************************************)
EXTENDS Experiments, TLAPS

LEMMA ArmsOfIsArms ==
  ASSUME NEW e \in ExperimentIds
  PROVE  ArmsOf(e) = {a \in AllArms : a[1] = e}
BY DEF ArmsOf, AllArms

LEMMA ArmHasExperiment ==
  ASSUME NEW a \in AllArms
  PROVE  a[1] \in ExperimentIds
BY DEF AllArms

TokenValues == {{}} \union {{r} : r \in [arm : AllArms, state : TokenStates]}

\* A stored token is one well-formed record.
LEMMA StoredToken ==
  ASSUME ExpTypeOK, NEW k \in TokenIds, NEW r \in token[k]
  PROVE  token[k] = {r} /\ r \in [arm : AllArms, state : TokenStates]
<1>1. token[k] \in TokenValues
  BY DEF ExpTypeOK, TokenValues
<1> QED
  BY <1>1 DEF TokenValues

\* Putting one well-formed record under a string keeps tokens well-formed.
LEMMA TokenPut ==
  ASSUME ExpTypeOK, NEW k \in TokenIds, NEW r \in [arm : AllArms, state : TokenStates],
         token' = [token EXCEPT ![k] = {r}]
  PROVE  token' \in [TokenIds -> TokenValues]
<1>1. {r} \in TokenValues
  BY DEF TokenValues
<1>2. token \in [TokenIds -> TokenValues]
  BY DEF ExpTypeOK, TokenValues
<1> QED
  BY <1>1, <1>2

\* The lifecycle requests.
Lifecycle(e) ==
  CreateExperiment(e) \/ StartExperiment(e) \/ PauseExperiment(e)
    \/ CompleteExperiment(e) \/ ArchiveExperiment(e)

\* The steps, with those that treat one token told apart from the others.
LEMMA ExpSteps ==
  ASSUME [ExpNext]_expVars
  PROVE  \/ \E e \in ExperimentIds : Lifecycle(e)
         \/ \E a \in AllArms : Promote(a) \/ ApproveUnknown(a)
         \/ \E a \in AllArms, k \in TokenIds : IssueToken(a, k) \/ ApproveLive(a, k)
         \/ \E k \in TokenIds : TokenExpires(k)
         \/ ServerRestarts
         \/ UNCHANGED expVars
BY DEF ExpNext, Lifecycle

\* What presenting a token does to it.
LEMMA Presented ==
  ASSUME ExpTypeOK, NEW a \in AllArms, NEW k \in TokenIds, ApproveLive(a, k)
  PROVE  \E r \in [arm : AllArms, state : TokenStates] :
           /\ token[k] = {r}
           /\ \/ r.state = "fresh" /\ r.arm = a /\ Approve(a, k, r)
              \/ r.state = "expired" /\ Refuse(a, k, r)
              \/ r.state # "expired" /\ Refuse(a, k, r)
<1>1. PICK r \in token[k] : IF Approves(r, a) THEN Approve(a, k, r) ELSE Refuse(a, k, r)
  BY DEF ApproveLive
<1>2. token[k] = {r} /\ r \in [arm : AllArms, state : TokenStates]
  BY StoredToken
<1> QED
  BY <1>1, <1>2 DEF Approves

-----------------------------------------------------------------------------
(* Types *)

LEMMA ExpTypeInit == ExpInit => ExpTypeOK
<1> SUFFICES ASSUME ExpInit
             PROVE  ExpTypeOK
  OBVIOUS
<1>1. status \in [ExperimentIds -> Statuses] /\ mode \in [AllArms -> Modes]
  BY DEF ExpInit, Statuses, Modes
<1>2. active \in SUBSET AllArms /\ audit \in SUBSET (Events \X AllArms)
  BY DEF ExpInit
<1>3. token \in [TokenIds -> TokenValues]
  BY DEF ExpInit, TokenValues
<1> QED
  BY <1>1, <1>2, <1>3 DEF ExpTypeOK, TokenValues

\* An event in the audit keeps it well-formed.
LEMMA AuditedType ==
  ASSUME ExpTypeOK, NEW what \in Events, NEW a \in AllArms, Audited(what, a)
  PROVE  audit' \in SUBSET (Events \X AllArms)
<1>1. <<what, a>> \in Events \X AllArms
  OBVIOUS
<1> QED
  BY <1>1 DEF Audited, ExpTypeOK

LEMMA ExpTypeStep == ExpTypeOK /\ [ExpNext]_expVars => ExpTypeOK'
<1> SUFFICES ASSUME ExpTypeOK, [ExpNext]_expVars
             PROVE  ExpTypeOK'
  OBVIOUS
<1>1. ASSUME NEW e \in ExperimentIds, Lifecycle(e)
      PROVE  ExpTypeOK'
  <2> USE DEF ExpTypeOK
  <2>1. \A x \in Statuses : [status EXCEPT ![e] = x] \in [ExperimentIds -> Statuses]
    OBVIOUS
  <2>2. status' \in [ExperimentIds -> Statuses]
    BY <1>1, <2>1 DEF Lifecycle, CreateExperiment, StartExperiment, PauseExperiment,
                      CompleteExperiment, ArchiveExperiment, Statuses
  <2>3. mode' \in [AllArms -> Modes]
    <3>1. CASE CreateExperiment(e)
      <4>1. PICK m \in [ArmsOf(e) -> CreatableModes] :
              mode' = [a \in AllArms |-> IF a \in ArmsOf(e) THEN m[a] ELSE mode[a]]
        BY <3>1 DEF CreateExperiment
      <4>2. \A a \in ArmsOf(e) : m[a] \in Modes
        BY DEF CreatableModes
      <4> QED
        BY <4>1, <4>2
    <3>2. CASE ~CreateExperiment(e)
      BY <1>1, <3>2 DEF Lifecycle, StartExperiment, PauseExperiment,
                        CompleteExperiment, ArchiveExperiment
    <3> QED
      BY <3>1, <3>2
  <2>4. active' \in SUBSET AllArms
    BY <1>1, ArmsOfIsArms DEF Lifecycle, CreateExperiment, StartExperiment, PauseExperiment,
                              CompleteExperiment, ArchiveExperiment
  <2>5. UNCHANGED <<token, audit>>
    BY <1>1 DEF Lifecycle, CreateExperiment, StartExperiment, PauseExperiment,
                CompleteExperiment, ArchiveExperiment
  <2> QED
    BY <2>2, <2>3, <2>4, <2>5
<1>2. ASSUME NEW a \in AllArms, Promote(a) \/ ApproveUnknown(a)
      PROVE  ExpTypeOK'
  <2>1. audit' \in SUBSET (Events \X AllArms)
    BY <1>2, AuditedType DEF Promote, ApproveUnknown, Events
  <2>2. mode' \in [AllArms -> Modes]
    BY <1>2 DEF Promote, ApproveUnknown, PromoteArm, Modes, ExpTypeOK
  <2> QED
    BY <1>2, <2>1, <2>2 DEF Promote, ApproveUnknown, ExpTypeOK
<1>3. ASSUME NEW a \in AllArms, NEW k \in TokenIds, IssueToken(a, k)
      PROVE  ExpTypeOK'
  <2>1. [arm |-> a, state |-> "fresh"] \in [arm : AllArms, state : TokenStates]
    BY DEF TokenStates
  <2>2. token' \in [TokenIds -> TokenValues]
    BY <1>3, <2>1, TokenPut DEF IssueToken
  <2>3. audit' \in SUBSET (Events \X AllArms)
    BY <1>3, AuditedType DEF IssueToken, Events
  <2> QED
    BY <1>3, <2>2, <2>3 DEF IssueToken, ExpTypeOK, TokenValues
<1>4. ASSUME NEW a \in AllArms, NEW k \in TokenIds, ApproveLive(a, k)
      PROVE  ExpTypeOK'
  <2>1. PICK r \in [arm : AllArms, state : TokenStates] :
          /\ token[k] = {r}
          /\ \/ r.state = "fresh" /\ r.arm = a /\ Approve(a, k, r)
             \/ r.state = "expired" /\ Refuse(a, k, r)
             \/ r.state # "expired" /\ Refuse(a, k, r)
    BY <1>4, Presented
  <2>2. /\ [r EXCEPT !.state = "used"] \in [arm : AllArms, state : TokenStates]
        /\ [r EXCEPT !.state = "void"] \in [arm : AllArms, state : TokenStates]
    BY DEF TokenStates
  <2>3. token' \in [TokenIds -> TokenValues]
    <3>1. CASE Approve(a, k, r)
      BY <2>2, <3>1, TokenPut DEF Approve, Consume
    <3>2. CASE Refuse(a, k, r) /\ r.state = "expired"
      BY <2>2, <3>2, TokenPut DEF Refuse, Consume
    <3>3. CASE Refuse(a, k, r) /\ r.state # "expired"
      BY <3>3 DEF Refuse, ExpTypeOK, TokenValues
    <3> QED
      BY <2>1, <3>1, <3>2, <3>3
  <2>4. mode' \in [AllArms -> Modes]
    BY <2>1 DEF Approve, Refuse, PromoteArm, Modes, ExpTypeOK
  <2>5. audit' \in SUBSET (Events \X AllArms)
    <3>1. \A what \in Events : <<what, a>> \in Events \X AllArms
      OBVIOUS
    <3> QED
      BY <2>1, <3>1 DEF Approve, Refuse, Audited, Events, ExpTypeOK
  <2> QED
    BY <1>4, <2>3, <2>4, <2>5 DEF ApproveLive, ExpTypeOK, TokenValues
<1>5. ASSUME NEW k \in TokenIds, TokenExpires(k)
      PROVE  ExpTypeOK'
  <2>1. PICK r \in token[k] : token' = [token EXCEPT ![k] = {[r EXCEPT !.state = "expired"]}]
    BY <1>5 DEF TokenExpires
  <2>2. [r EXCEPT !.state = "expired"] \in [arm : AllArms, state : TokenStates]
    BY StoredToken DEF TokenStates
  <2>3. token' \in [TokenIds -> TokenValues]
    BY <2>1, <2>2, TokenPut
  <2> QED
    BY <1>5, <2>3 DEF TokenExpires, ExpTypeOK, TokenValues
<1>6. ASSUME ServerRestarts
      PROVE  ExpTypeOK'
  <2>1. status' \in [ExperimentIds -> Statuses] /\ mode' \in [AllArms -> Modes]
    BY <1>6 DEF ServerRestarts, Statuses, Modes
  <2>2. token' \in [TokenIds -> TokenValues]
    BY <1>6 DEF ServerRestarts, TokenValues
  <2> QED
    BY <1>6, <2>1, <2>2 DEF ServerRestarts, ExpTypeOK, TokenValues
<1>7. ASSUME UNCHANGED expVars
      PROVE  ExpTypeOK'
  BY <1>7 DEF expVars, ExpTypeOK
<1> QED
  BY <1>1, <1>2, <1>3, <1>4, <1>5, <1>6, <1>7, ExpSteps

\* Experiments, arms and tokens stay well-formed.
THEOREM ExpTypeCorrect == ExpSpec => []ExpTypeOK
BY ExpTypeInit, ExpTypeStep, PTL DEF ExpSpec

-----------------------------------------------------------------------------
(* Activity *)

LEMMA ActiveStep ==
  ExpTypeOK /\ ActiveWhileRunning /\ [ExpNext]_expVars => ActiveWhileRunning'
<1> SUFFICES ASSUME ExpTypeOK, ActiveWhileRunning, [ExpNext]_expVars
             PROVE  ActiveWhileRunning'
  OBVIOUS
<1>1. ASSUME NEW e \in ExperimentIds, Lifecycle(e)
      PROVE  ActiveWhileRunning'
  <2> USE DEF ActiveWhileRunning
  <2>0. \A a \in AllArms : status'[a[1]] = IF a[1] = e THEN status'[e] ELSE status[a[1]]
    BY <1>1, ArmHasExperiment
       DEF Lifecycle, CreateExperiment, StartExperiment, PauseExperiment,
           CompleteExperiment, ArchiveExperiment, ExpTypeOK
  <2>1. CASE CreateExperiment(e)
    BY <2>0, <2>1 DEF CreateExperiment, ExpTypeOK
  <2>2. CASE StartExperiment(e)
    BY <2>0, <2>2, ArmsOfIsArms DEF StartExperiment, ExpTypeOK
  <2>3. CASE PauseExperiment(e)
    BY <2>0, <2>3, ArmsOfIsArms DEF PauseExperiment, ExpTypeOK
  <2>4. CASE CompleteExperiment(e)
    BY <2>0, <2>4, ArmsOfIsArms DEF CompleteExperiment, ArmsToStop, ExpTypeOK
  <2>5. CASE ArchiveExperiment(e)
    BY <2>0, <2>5 DEF ArchiveExperiment, Archivable, ExpTypeOK
  <2> QED
    BY <1>1, <2>1, <2>2, <2>3, <2>4, <2>5 DEF Lifecycle
<1>2. CASE UNCHANGED <<status, active>>
  BY <1>2 DEF ActiveWhileRunning
<1>3. CASE ServerRestarts
  <2>1. active' = {} /\ \A a \in AllArms : status'[a[1]] = "ABSENT"
    BY <1>3, ArmHasExperiment DEF ServerRestarts
  <2> QED
    BY <2>1 DEF ActiveWhileRunning
<1>4. ASSUME NEW a \in AllArms, Promote(a) \/ ApproveUnknown(a)
      PROVE  UNCHANGED <<status, active>>
  BY <1>4 DEF Promote, ApproveUnknown
<1>5. ASSUME NEW a \in AllArms, NEW k \in TokenIds, IssueToken(a, k) \/ ApproveLive(a, k)
      PROVE  UNCHANGED <<status, active>>
  BY <1>5 DEF IssueToken, ApproveLive
<1>6. ASSUME NEW k \in TokenIds, TokenExpires(k)
      PROVE  UNCHANGED <<status, active>>
  BY <1>6 DEF TokenExpires
<1>7. ASSUME UNCHANGED expVars
      PROVE  UNCHANGED <<status, active>>
  BY <1>7 DEF expVars
<1> QED
  BY <1>1, <1>2, <1>3, <1>4, <1>5, <1>6, <1>7, ExpSteps

LEMMA ActiveInit == ExpInit => ActiveWhileRunning
<1> SUFFICES ASSUME ExpInit
             PROVE  ActiveWhileRunning
  OBVIOUS
<1>1. active = {} /\ \A a \in AllArms : status[a[1]] = "ABSENT"
  BY ArmHasExperiment DEF ExpInit
<1> QED
  BY <1>1 DEF ActiveWhileRunning

\* Exactly the arms of running experiments are sent ticks.
THEOREM OnlyRunningArmsActive == ExpSpec => []ActiveWhileRunning
<1>1. ExpInit => ExpTypeOK /\ ActiveWhileRunning
  BY ExpTypeInit, ActiveInit
<1>2. ExpTypeOK /\ ActiveWhileRunning /\ [ExpNext]_expVars => ExpTypeOK' /\ ActiveWhileRunning'
  BY ExpTypeStep, ActiveStep
<1> QED
  BY <1>1, <1>2, PTL DEF ExpSpec

LEMMA FinishedStep ==
  ASSUME ExpTypeOK, ActiveWhileRunning, [ExpNext]_expVars, NEW e \in ExperimentIds,
         status[e] \in {"COMPLETED", "ARCHIVED"}
  PROVE  /\ status'[e] \in {"COMPLETED", "ARCHIVED", "ABSENT"}
         /\ active' \intersect ArmsOf(e) = {}
<1>1. ASSUME NEW d \in ExperimentIds, Lifecycle(d)
      PROVE  status'[e] \in {"COMPLETED", "ARCHIVED"}
  BY <1>1 DEF Lifecycle, CreateExperiment, StartExperiment, PauseExperiment,
              CompleteExperiment, ArchiveExperiment, Startable, ExpTypeOK
<1>2. ASSUME ServerRestarts
      PROVE  status'[e] = "ABSENT"
  BY <1>2 DEF ServerRestarts
<1>3. ASSUME NEW a \in AllArms, Promote(a) \/ ApproveUnknown(a)
      PROVE  status' = status
  BY <1>3 DEF Promote, ApproveUnknown
<1>4. ASSUME NEW a \in AllArms, NEW k \in TokenIds, IssueToken(a, k) \/ ApproveLive(a, k)
      PROVE  status' = status
  BY <1>4 DEF IssueToken, ApproveLive
<1>5. ASSUME NEW k \in TokenIds, TokenExpires(k)
      PROVE  status' = status
  BY <1>5 DEF TokenExpires
<1>6. ASSUME UNCHANGED expVars
      PROVE  status' = status
  BY <1>6 DEF expVars
<1>7. status'[e] \in {"COMPLETED", "ARCHIVED", "ABSENT"}
  BY <1>1, <1>2, <1>3, <1>4, <1>5, <1>6, ExpSteps
<1>8. active' = {a \in AllArms : status'[a[1]] = "RUNNING"}
  BY ActiveStep DEF ActiveWhileRunning
<1> QED
  BY <1>7, <1>8, ArmsOfIsArms

\* What is completed or archived never runs again, nor do its arms.
THEOREM FinishedNeverRuns == ExpSpec => FinishedStaysFinished
<1>1. ExpTypeOK /\ ActiveWhileRunning /\ [ExpNext]_expVars
        => [\A e \in ExperimentIds :
              status[e] \in {"COMPLETED", "ARCHIVED"} =>
                status'[e] \in {"COMPLETED", "ARCHIVED", "ABSENT"}
                  /\ active' \intersect ArmsOf(e) = {}]_expVars
  BY FinishedStep
<1> QED
  BY <1>1, ExpTypeCorrect, OnlyRunningArmsActive, PTL DEF ExpSpec, FinishedStaysFinished

-----------------------------------------------------------------------------
(* Promotion to LIVE *)

\* An arm whose experiment was not created has used no token.
AbsentUsedNone ==
  \A a \in AllArms : status[a[1]] = "ABSENT" => UsedFor(a) = {} /\ mode[a] # "LIVE"

ApprovalInv == LiveWasApproved /\ AbsentUsedNone

\* A step that leaves the used tokens alone and makes no arm LIVE.
LEMMA ApprovalFrame ==
  ASSUME ApprovalInv,
         \A a \in AllArms : UsedFor(a)' = UsedFor(a),
         \A a \in AllArms : mode'[a] = "LIVE" <=> mode[a] = "LIVE",
         \A a \in AllArms : status'[a[1]] = "ABSENT" => status[a[1]] = "ABSENT",
         audit \subseteq audit'
  PROVE  ApprovalInv'
BY DEF ApprovalInv, LiveWasApproved, AbsentUsedNone

\* Which tokens were used, when one is replaced by another.
LEMMA UsedAfterPut ==
  ASSUME ExpTypeOK, NEW k \in TokenIds, NEW r, token' = [token EXCEPT ![k] = {r}],
         NEW a \in AllArms, [arm |-> a, state |-> "used"] \notin token[k]
  PROVE  UsedFor(a)' = IF r = [arm |-> a, state |-> "used"]
                       THEN UsedFor(a) \union {k} ELSE UsedFor(a)
BY DEF UsedFor, ExpTypeOK

LEMMA ApprovalStep ==
  ExpTypeOK /\ ApprovalInv /\ [ExpNext]_expVars => ApprovalInv'
<1> SUFFICES ASSUME ExpTypeOK, ApprovalInv, [ExpNext]_expVars
             PROVE  ApprovalInv'
  OBVIOUS
<1>0. ASSUME token' = token
      PROVE  \A a \in AllArms : UsedFor(a)' = UsedFor(a)
  BY <1>0 DEF UsedFor
<1>1. ASSUME NEW e \in ExperimentIds, Lifecycle(e)
      PROVE  ApprovalInv'
  <2>1. token' = token /\ audit' = audit
    BY <1>1 DEF Lifecycle, CreateExperiment, StartExperiment, PauseExperiment,
                CompleteExperiment, ArchiveExperiment
  <2>2. \A a \in AllArms : status'[a[1]] = "ABSENT" => status[a[1]] = "ABSENT"
    BY <1>1, ArmHasExperiment
       DEF Lifecycle, CreateExperiment, StartExperiment, PauseExperiment,
           CompleteExperiment, ArchiveExperiment, ExpTypeOK
  <2>3. ASSUME NEW a \in AllArms
        PROVE  mode'[a] = "LIVE" <=> mode[a] = "LIVE"
    <3>1. CASE CreateExperiment(e)
      <4>1. PICK m \in [ArmsOf(e) -> CreatableModes] :
              mode' = [d \in AllArms |-> IF d \in ArmsOf(e) THEN m[d] ELSE mode[d]]
        BY <3>1 DEF CreateExperiment
      <4>2. CASE a \in ArmsOf(e)
        <5>1. mode'[a] # "LIVE"
          BY <4>1, <4>2 DEF CreatableModes
        <5>2. mode[a] # "LIVE"
          BY <3>1, <4>2, ArmsOfIsArms DEF ApprovalInv, AbsentUsedNone, CreateExperiment
        <5> QED
          BY <5>1, <5>2
      <4>3. CASE a \notin ArmsOf(e)
        BY <4>1, <4>3
      <4> QED
        BY <4>2, <4>3
    <3>2. CASE ~CreateExperiment(e)
      BY <1>1, <3>2 DEF Lifecycle, StartExperiment, PauseExperiment,
                        CompleteExperiment, ArchiveExperiment
    <3> QED
      BY <3>1, <3>2
  <2> QED
    BY <1>0, <2>1, <2>2, <2>3, ApprovalFrame
<1>2. ASSUME NEW a \in AllArms, Promote(a) \/ ApproveUnknown(a)
      PROVE  ApprovalInv'
  <2>1. token' = token /\ status' = status /\ audit \subseteq audit'
    BY <1>2 DEF Promote, ApproveUnknown, Audited
  <2>2. \A d \in AllArms : mode'[d] = "LIVE" <=> mode[d] = "LIVE"
    BY <1>2 DEF Promote, ApproveUnknown, PromoteArm, ExpTypeOK
  <2> QED
    BY <1>0, <2>1, <2>2, ApprovalFrame
<1>3. ASSUME NEW a \in AllArms, NEW k \in TokenIds, IssueToken(a, k)
      PROVE  ApprovalInv'
  <2>1. /\ token' = [token EXCEPT ![k] = {[arm |-> a, state |-> "fresh"]}]
        /\ token[k] = {} /\ status' = status /\ mode' = mode /\ audit \subseteq audit'
    BY <1>3 DEF IssueToken, Audited
  <2>2. ASSUME NEW d \in AllArms
        PROVE  UsedFor(d)' = UsedFor(d)
    <3>1. [arm |-> a, state |-> "fresh"] # [arm |-> d, state |-> "used"]
      OBVIOUS
    <3> QED
      BY <2>1, <3>1, UsedAfterPut
  <2> QED
    BY <2>1, <2>2, ApprovalFrame
<1>4. ASSUME NEW k \in TokenIds, TokenExpires(k)
      PROVE  ApprovalInv'
  <2>1. PICK r \in token[k] : /\ r.state = "fresh"
                              /\ token' = [token EXCEPT ![k] = {[r EXCEPT !.state = "expired"]}]
    BY <1>4 DEF TokenExpires
  <2>2. token[k] = {r} /\ r \in [arm : AllArms, state : TokenStates]
    BY StoredToken
  <2>3. ASSUME NEW d \in AllArms
        PROVE  UsedFor(d)' = UsedFor(d)
    <3>1. [r EXCEPT !.state = "expired"] # [arm |-> d, state |-> "used"]
      BY <2>2
    <3>2. [arm |-> d, state |-> "used"] \notin token[k]
      BY <2>1, <2>2
    <3> QED
      BY <2>1, <3>1, <3>2, UsedAfterPut
  <2> QED
    BY <1>4, <2>3, ApprovalFrame DEF TokenExpires
<1>5. ASSUME NEW a \in AllArms, NEW k \in TokenIds, ApproveLive(a, k)
      PROVE  ApprovalInv'
  <2>1. PICK r \in [arm : AllArms, state : TokenStates] :
          /\ token[k] = {r}
          /\ \/ r.state = "fresh" /\ r.arm = a /\ Approve(a, k, r)
             \/ r.state = "expired" /\ Refuse(a, k, r)
             \/ r.state # "expired" /\ Refuse(a, k, r)
    BY <1>5, Presented
  <2>2. status' = status /\ mode[a] = "PAPER" /\ status[a[1]] # "ABSENT"
    BY <1>5 DEF ApproveLive
  <2>3. CASE Refuse(a, k, r) /\ r.state = "expired"
    <3>1. token' = [token EXCEPT ![k] = {[r EXCEPT !.state = "void"]}] /\ mode' = mode
            /\ audit \subseteq audit'
      BY <2>3 DEF Refuse, Consume, Audited
    <3>2. ASSUME NEW d \in AllArms
          PROVE  UsedFor(d)' = UsedFor(d)
      <4>1. [r EXCEPT !.state = "void"] # [arm |-> d, state |-> "used"]
        OBVIOUS
      <4>2. [arm |-> d, state |-> "used"] \notin token[k]
        BY <2>1, <2>3
      <4> QED
        BY <3>1, <4>1, <4>2, UsedAfterPut
    <3> QED
      BY <2>2, <3>1, <3>2, ApprovalFrame
  <2>4. CASE Refuse(a, k, r) /\ r.state # "expired"
    <3>1. token' = token /\ mode' = mode /\ audit \subseteq audit'
      BY <2>4 DEF Refuse, Audited
    <3> QED
      BY <1>0, <2>2, <3>1, ApprovalFrame
  <2>5. CASE r.state = "fresh" /\ r.arm = a /\ Approve(a, k, r)
    <3>1. /\ token' = [token EXCEPT ![k] = {[r EXCEPT !.state = "used"]}]
          /\ mode' = [mode EXCEPT ![a] = "LIVE"]
          /\ audit \subseteq audit'
          /\ <<"PROMOTION_APPROVED", a>> \in audit'
      BY <2>5 DEF Approve, Consume, PromoteArm
    <3>2. [r EXCEPT !.state = "used"] = [arm |-> a, state |-> "used"]
      BY <2>5
    <3>3. UsedFor(a) = {}
      BY <2>2 DEF ApprovalInv, LiveWasApproved
    <3>4. \A d \in AllArms : [arm |-> d, state |-> "used"] \notin token[k]
      BY <2>1, <2>5
    <3>5. UsedFor(a)' = {k}
      BY <3>1, <3>2, <3>3, <3>4, UsedAfterPut
    <3>6. ASSUME NEW d \in AllArms, d # a
          PROVE  UsedFor(d)' = UsedFor(d) /\ mode'[d] = mode[d]
      <4>1. [arm |-> a, state |-> "used"] # [arm |-> d, state |-> "used"]
        BY <3>6
      <4>2. UsedFor(d)' = UsedFor(d)
        BY <3>1, <3>2, <3>4, <4>1, UsedAfterPut
      <4>3. mode'[d] = mode[d]
        BY <3>1, <3>6 DEF ExpTypeOK
      <4> QED
        BY <4>2, <4>3
    <3>7. mode'[a] = "LIVE"
      BY <3>1 DEF ExpTypeOK
    <3>8. ASSUME NEW d \in AllArms
          PROVE  /\ mode'[d] = "LIVE" => UsedFor(d)' # {} /\ <<"PROMOTION_APPROVED", d>> \in audit'
                 /\ \A i, j \in UsedFor(d)' : i = j
                 /\ UsedFor(d)' # {} => mode'[d] = "LIVE"
                 /\ status'[d[1]] = "ABSENT" => UsedFor(d)' = {} /\ mode'[d] # "LIVE"
      <4>1. CASE d = a
        BY <2>2, <3>1, <3>5, <3>7, <4>1
      <4>2. CASE d # a
        BY <2>2, <3>1, <3>6, <4>2 DEF ApprovalInv, LiveWasApproved, AbsentUsedNone
      <4> QED
        BY <4>1, <4>2
    <3> QED
      BY <3>8 DEF ApprovalInv, LiveWasApproved, AbsentUsedNone
  <2> QED
    BY <2>1, <2>3, <2>4, <2>5
<1>6. ASSUME ServerRestarts
      PROVE  ApprovalInv'
  BY <1>6 DEF ServerRestarts, ApprovalInv, LiveWasApproved, AbsentUsedNone, UsedFor
<1>7. ASSUME UNCHANGED expVars
      PROVE  ApprovalInv'
  BY <1>0, <1>7, ApprovalFrame DEF expVars
<1> QED
  BY <1>1, <1>2, <1>3, <1>4, <1>5, <1>6, <1>7, ExpSteps

LEMMA ApprovalInit == ExpInit => ApprovalInv
BY DEF ExpInit, ApprovalInv, LiveWasApproved, AbsentUsedNone, UsedFor

\* No arm becomes LIVE but by a token issued to it and used once, and no token
\* is spent without the promotion it approves.
THEOREM NoAutoPromotion == ExpSpec => []LiveWasApproved
<1>1. ExpInit => ExpTypeOK /\ ApprovalInv
  BY ExpTypeInit, ApprovalInit
<1>2. ExpTypeOK /\ ApprovalInv /\ [ExpNext]_expVars => ExpTypeOK' /\ ApprovalInv'
  BY ExpTypeStep, ApprovalStep
<1>3. ApprovalInv => LiveWasApproved
  BY DEF ApprovalInv
<1> QED
  BY <1>1, <1>2, <1>3, PTL DEF ExpSpec

=============================================================================
