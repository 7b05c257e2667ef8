------------------------- MODULE Deployment_proofs -------------------------
(***************************************************************************)
(* The safety of Deployment for every deploy config and every number of    *)
(* retries.  The inductive invariant adds to TypeOK                        *)
(*   - what the cluster is at each place of the worker (ClusterInv),       *)
(*   - that every step before `next` has put its objects there (StepsInv), *)
(*   - how many `kind create` the retries used so far account for          *)
(*     (BudgetInv): a full round of tries for each restart given up, and   *)
(*     one for each try of this restart.                                   *)
(***************************************************************************)
EXTENDS Deployment, TLAPS

Booting  == {"delete", "create", "recreate"}
OnCluster == {"config", "deploy", "pods", "trial"}

ClusterInv ==
  /\ pc = "create" => cluster = "absent" /\ objects = {} /\ ~dirty
  /\ pc \in OnCluster => cluster = "up" /\ ~dirty

StepsInv ==
  /\ pc \in {"deploy", "pods", "trial"} =>
       \A i \in DOMAIN Steps : (i < next /\ Steps[i] # "wait") => i \in objects
  /\ (pc = "pods" /\ next \in DOMAIN Steps) => next \in objects
  /\ pc = "trial" => next = Len(Steps) + 1

Spent == (RestartRetries - restarts) * (CreateRetries + 1) + tries

BudgetInv ==
  /\ pc # "crashed" => restarts >= 1
  /\ pc \in Booting => created = Spent
  /\ created <= MaxCreates
  /\ (pc = "crashed" /\ restarts = 0) => created = MaxCreates

IInv == TypeOK /\ ClusterInv /\ StepsInv /\ BudgetInv

-----------------------------------------------------------------------------
LEMMA StepsLength == Len(Steps) \in Nat /\ DOMAIN Steps = 1 .. Len(Steps)
  BY DeploymentAssumption

LEMMA MaxCreatesType == MaxCreates \in Nat
  BY DeploymentAssumption DEF MaxCreates

\* While a restart and a try are left, one more `kind create` is within bounds.
LEMMA SpentBound ==
  ASSUME TypeOK, restarts >= 1
  PROVE  /\ Spent \in Nat
         /\ Spent + 1 <= MaxCreates
         /\ (tries = CreateRetries /\ restarts = 1) => Spent + 1 = MaxCreates
<1> DEFINE c == CreateRetries + 1
           d == RestartRetries - restarts
<1>1. c \in Nat /\ d \in Nat /\ d + 1 <= RestartRetries /\ tries + 1 <= c /\ tries \in Nat
  BY DeploymentAssumption DEF TypeOK
<1>2. d * c \in Nat /\ (d + 1) * c <= RestartRetries * c /\ (d + 1) * c = d * c + c
  <2> HIDE DEF c, d
  <2>1. d * c \in Nat
    BY <1>1
  <2>2. (d + 1) * c = d * c + c
    BY <1>1
  <2>3. (d + 1) * c <= RestartRetries * c
    BY <1>1, DeploymentAssumption
  <2> QED  BY <2>1, <2>2, <2>3
<1>3. Spent = d * c + tries /\ MaxCreates = RestartRetries * c
  BY DEF Spent, MaxCreates
<1> HIDE DEF c
<1>4. Spent \in Nat /\ Spent + 1 <= MaxCreates
  BY <1>1, <1>2, <1>3, DeploymentAssumption
<1>5. CASE tries = CreateRetries /\ restarts = 1
  <2>1. d + 1 = RestartRetries
    BY <1>5, DeploymentAssumption
  <2>2. tries + 1 = c
    BY <1>5 DEF c
  <2>3. RestartRetries * c = d * c + c
    BY <1>2, <2>1
  <2> QED  BY <1>1, <1>2, <1>3, <1>4, <2>2, <2>3
<1> QED  BY <1>4, <1>5

\* Giving up a restart after its last try spends a whole round of them.
LEMMA GiveUpSpends ==
  ASSUME TypeOK, tries = CreateRetries, restarts' = restarts - 1, tries' = 0
  PROVE  Spent' = Spent + 1
<1> DEFINE c == CreateRetries + 1
           d == RestartRetries - restarts
<1>1. c \in Nat /\ d \in Int /\ restarts \in Int /\ RestartRetries \in Int
  BY DeploymentAssumption DEF TypeOK
<1>2. (d + 1) * c = d * c + c /\ d * c \in Int
  BY <1>1
<1>3. Spent = d * c + tries /\ Spent' = (RestartRetries - (restarts - 1)) * c + 0
  BY DEF Spent
<1>4. RestartRetries - (restarts - 1) = d + 1
  BY <1>1
<1> QED  BY <1>1, <1>2, <1>3, <1>4, DeploymentAssumption

LEMMA InitIInv == Init => IInv
<1> SUFFICES ASSUME Init PROVE IInv
  OBVIOUS
<1> USE DeploymentAssumption
<1>1. TypeOK
  BY StepsLength, MaxCreatesType DEF Init, TypeOK
<1>2. Spent = 0
  BY DEF Init, Spent
<1> QED
  BY <1>1, <1>2, MaxCreatesType
  DEF Init, IInv, ClusterInv, StepsInv, BudgetInv, OnCluster

-----------------------------------------------------------------------------
\* A round of deploy that fails restarts the steps or the cluster.
LEMMA FailedFacts ==
  ASSUME TypeOK, Failed
  PROVE  /\ next' = 1 /\ waits' = 0
         /\ \/ /\ pc' = "deploy" /\ attempts' \in 0 .. DeployRetries - 1
               /\ UNCHANGED <<restarts, tries, created>>
            \/ /\ pc' = "delete" /\ attempts' = 0
               /\ restarts' = RestartRetries /\ tries' = 0 /\ created' = 0
  BY DeploymentAssumption
  DEF TypeOK, Failed, DeployFailed, CountAttempt, StartRestart

LEMMA FailedIInv ==
  ASSUME IInv, pc \in {"deploy", "pods"}, Failed,
         UNCHANGED <<cluster, dirty>>, objects' \subseteq DOMAIN Steps
  PROVE  IInv'
<1> USE DeploymentAssumption, StepsLength, MaxCreatesType
<1> SUFFICES ASSUME TypeOK, ClusterInv, StepsInv, BudgetInv PROVE IInv'
  BY DEF IInv
<1>1. TypeOK'
  BY FailedFacts DEF TypeOK
<1>2. ClusterInv'
  BY FailedFacts DEF ClusterInv, OnCluster
<1>3. StepsInv'
  BY FailedFacts DEF StepsInv
<1>4. BudgetInv'
  <2>1. CASE pc' = "deploy"
    BY <2>1, FailedFacts DEF BudgetInv, Booting
  <2>2. CASE pc' = "delete"
    <3>1. restarts' = RestartRetries /\ tries' = 0 /\ created' = 0
      BY <2>2, FailedFacts
    <3>2. Spent' = 0
      BY <3>1 DEF Spent
    <3> QED  BY <2>2, <3>1, <3>2 DEF BudgetInv, Booting
  <2> QED  BY <2>1, <2>2, FailedFacts
<1> QED  BY <1>1, <1>2, <1>3, <1>4 DEF IInv

LEMMA NextIInv == IInv /\ [Next]_vars => IInv'
<1> SUFFICES ASSUME TypeOK, ClusterInv, StepsInv, BudgetInv, [Next]_vars
             PROVE  IInv'
  BY DEF IInv
<1> USE DeploymentAssumption, StepsLength, MaxCreatesType
<1> USE DEF retryVars, envVars
<1>0. IInv  BY DEF IInv
<1>1. CASE DeleteCluster
  <2>1. TypeOK'  BY <1>1 DEF DeleteCluster, Deleting, TypeOK
  <2>2. ClusterInv' /\ StepsInv'
    BY <1>1 DEF DeleteCluster, ClusterInv, StepsInv, OnCluster
  <2>3. BudgetInv'
    BY <1>1 DEF DeleteCluster, Deleting, BudgetInv, Booting, Spent
  <2> QED  BY <2>1, <2>2, <2>3 DEF IInv
<1>2. CASE DeleteFails
  <2>1. TypeOK'  BY <1>2 DEF DeleteFails, Deleting, TypeOK
  <2>2. ClusterInv' /\ StepsInv'
    BY <1>2 DEF DeleteFails, Deleting, ClusterInv, StepsInv, OnCluster
  <2>3. BudgetInv'
    BY <1>2 DEF DeleteFails, Deleting, BudgetInv, Booting, Spent
  <2> QED  BY <2>1, <2>2, <2>3 DEF IInv
<1>3. CASE CreateCluster
  <2>1. Spent \in Nat /\ Spent + 1 <= MaxCreates /\ created = Spent
    BY <1>3, SpentBound DEF CreateCluster, BudgetInv, Booting
  <2>2. created' = created + 1
    BY <1>3, <2>1 DEF CreateCluster, CountCreate
  <2>3. TypeOK'  BY <1>3, <2>1, <2>2 DEF CreateCluster, TypeOK
  <2>4. ClusterInv' /\ StepsInv'
    BY <1>3 DEF CreateCluster, ClusterInv, StepsInv, OnCluster
  <2>5. BudgetInv'
    BY <1>3, <2>1, <2>2 DEF CreateCluster, BudgetInv, Booting
  <2> QED  BY <2>3, <2>4, <2>5 DEF IInv
<1>4. CASE CreateFails
  <2>1. Spent \in Nat /\ Spent + 1 <= MaxCreates /\ created = Spent
    BY <1>4, SpentBound DEF CreateFails, BudgetInv, Booting
  <2>2. created' = created + 1 /\ tries' = tries + 1 /\ restarts' = restarts
    BY <1>4, <2>1 DEF CreateFails, CountCreate
  <2>3. Spent' = Spent + 1
    <3> DEFINE x == (RestartRetries - restarts) * (CreateRetries + 1)
    <3>1. x \in Int /\ tries \in Int  BY DEF TypeOK
    <3>2. Spent = x + tries /\ Spent' = x + (tries + 1)
      BY <2>2 DEF Spent
    <3> HIDE DEF x
    <3> QED  BY <3>1, <3>2
  <2>4. TypeOK'
    BY <1>4, <2>1, <2>2 DEF CreateFails, TriesLeft, DeleteBeforeRetry, TypeOK
  <2>5. ClusterInv' /\ StepsInv'
    BY <1>4 DEF CreateFails, DeleteBeforeRetry, ClusterInv, StepsInv, OnCluster
  <2>6. BudgetInv'
    BY <1>4, <2>1, <2>2, <2>3 DEF CreateFails, DeleteBeforeRetry, BudgetInv, Booting
  <2> QED  BY <2>4, <2>5, <2>6 DEF IInv
<1>5. CASE CreateGivesUp
  <2>1. restarts >= 1 /\ tries = CreateRetries
    BY <1>5 DEF CreateGivesUp, TriesLeft, TypeOK, BudgetInv
  <2>2. /\ Spent \in Nat /\ Spent + 1 <= MaxCreates /\ created = Spent
        /\ restarts = 1 => Spent + 1 = MaxCreates
    BY <1>5, <2>1, SpentBound DEF CreateGivesUp, BudgetInv, Booting
  <2>3. created' = created + 1 /\ tries' = 0 /\ restarts' = restarts - 1
    BY <1>5, <2>2 DEF CreateGivesUp, CountCreate, UseUpRestart
  <2>4. Spent' = Spent + 1
    BY <2>1, <2>3, GiveUpSpends
  <2>5. TypeOK'
    BY <1>5, <2>1, <2>2, <2>3 DEF CreateGivesUp, TypeOK
  <2>6. ClusterInv' /\ StepsInv'
    BY <1>5 DEF CreateGivesUp, ClusterInv, StepsInv, OnCluster
  <2>7. BudgetInv'
    BY <1>5, <2>1, <2>2, <2>3, <2>4 DEF CreateGivesUp, BudgetInv, Booting, TypeOK
  <2> QED  BY <2>5, <2>6, <2>7 DEF IInv
<1>6. CASE LoadConfig
  <2>1. TypeOK'  BY <1>6 DEF LoadConfig, TypeOK
  <2>2. ClusterInv' /\ StepsInv'
    BY <1>6 DEF LoadConfig, ClusterInv, StepsInv, OnCluster
  <2>3. BudgetInv'  BY <1>6 DEF LoadConfig, BudgetInv, Booting, TypeOK
  <2> QED  BY <2>1, <2>2, <2>3 DEF IInv
<1>7. CASE Apply
  <2>1. TypeOK'  BY <1>7 DEF Apply, AtStep, TypeOK
  <2>2. ClusterInv' /\ StepsInv'
    BY <1>7 DEF Apply, AtStep, ClusterInv, StepsInv, OnCluster
  <2>3. BudgetInv'  BY <1>7 DEF Apply, AtStep, BudgetInv, Booting
  <2> QED  BY <2>1, <2>2, <2>3 DEF IInv
<1>8. CASE ApplyFails
  <2>1. objects' \subseteq DOMAIN Steps
    BY <1>8 DEF ApplyFails, AtStep, TypeOK
  <2> QED  BY <1>0, <1>8, <2>1, FailedIInv DEF ApplyFails, AtStep
<1>9. CASE ApplyHangs
  <2>1. TypeOK'  BY <1>9 DEF ApplyHangs, TypeOK
  <2>2. ClusterInv' /\ StepsInv'
    BY <1>9 DEF ApplyHangs, ClusterInv, StepsInv, OnCluster
  <2>3. BudgetInv'  BY <1>9 DEF ApplyHangs, AtStep, BudgetInv, Booting, TypeOK
  <2> QED  BY <2>1, <2>2, <2>3 DEF IInv
<1>10. CASE HelmInstall
  <2>1. TypeOK'  BY <1>10 DEF HelmInstall, AtStep, TypeOK
  <2>2. ClusterInv' /\ StepsInv'
    BY <1>10 DEF HelmInstall, AtStep, ClusterInv, StepsInv, OnCluster, TypeOK
  <2>3. BudgetInv'  BY <1>10 DEF HelmInstall, AtStep, BudgetInv, Booting
  <2> QED  BY <2>1, <2>2, <2>3 DEF IInv
<1>11. CASE HelmFails
  <2>1. objects' \subseteq DOMAIN Steps
    BY <1>11 DEF HelmFails, AtStep, TypeOK
  <2> QED  BY <1>0, <1>11, <2>1, FailedIInv DEF HelmFails, AtStep
<1>12. CASE Sleep
  <2>1. TypeOK'  BY <1>12 DEF Sleep, AtStep, TypeOK
  <2>2. ClusterInv' /\ StepsInv'
    BY <1>12 DEF Sleep, AtStep, ClusterInv, StepsInv, OnCluster, TypeOK
  <2>3. BudgetInv'  BY <1>12 DEF Sleep, AtStep, BudgetInv, Booting
  <2> QED  BY <2>1, <2>2, <2>3 DEF IInv
<1>13. CASE Label
  <2>1. TypeOK'  BY <1>13 DEF Label, TypeOK
  <2>2. ClusterInv' /\ StepsInv'
    BY <1>13 DEF Label, ClusterInv, StepsInv, OnCluster
  <2>3. BudgetInv'  BY <1>13 DEF Label, BudgetInv, Booting, TypeOK
  <2> QED  BY <2>1, <2>2, <2>3 DEF IInv
<1>14. CASE PodsReady
  <2>1. TypeOK'  BY <1>14 DEF PodsReady, TypeOK
  <2>2. ClusterInv'
    BY <1>14 DEF PodsReady, ClusterInv, OnCluster
  <2>3. StepsInv'
    BY <1>14 DEF PodsReady, StepsInv, TypeOK
  <2>4. BudgetInv'  BY <1>14 DEF PodsReady, BudgetInv, Booting
  <2> QED  BY <2>1, <2>2, <2>3, <2>4 DEF IInv
<1>15. CASE PodsNotReady
  <2>1. CASE waits + 1 < WaitRetries
    <3>1. TypeOK'  BY <1>15, <2>1 DEF PodsNotReady, TypeOK
    <3>2. ClusterInv' /\ StepsInv'
      BY <1>15, <2>1 DEF PodsNotReady, ClusterInv, StepsInv, OnCluster
    <3>3. BudgetInv'  BY <1>15, <2>1 DEF PodsNotReady, BudgetInv, Booting
    <3> QED  BY <3>1, <3>2, <3>3 DEF IInv
  <2>2. CASE ~(waits + 1 < WaitRetries)
    <3>1. objects' \subseteq DOMAIN Steps
      BY <1>15 DEF PodsNotReady, TypeOK
    <3> QED  BY <1>0, <1>15, <2>2, <3>1, FailedIInv DEF PodsNotReady
  <2> QED  BY <2>1, <2>2
<1>16. CASE PodsTimeout
  <2>1. objects' \subseteq DOMAIN Steps
    BY <1>16 DEF PodsTimeout, TypeOK
  <2> QED  BY <1>0, <1>16, <2>1, FailedIInv DEF PodsTimeout
<1>17. CASE EndTrial
  <2>1. TypeOK'  BY <1>17 DEF EndTrial, StartRestart, TypeOK
  <2>2. ClusterInv' /\ StepsInv'
    BY <1>17 DEF EndTrial, StartRestart, ClusterInv, StepsInv, OnCluster
  <2>3. Spent' = 0
    BY <1>17 DEF EndTrial, StartRestart, Spent
  <2>4. BudgetInv'
    BY <1>17, <2>3 DEF EndTrial, StartRestart, BudgetInv, Booting
  <2> QED  BY <2>1, <2>2, <2>4 DEF IInv
<1>18. CASE UNCHANGED vars
  <2>1. TypeOK'  BY <1>18 DEF vars, TypeOK
  <2>2. ClusterInv' /\ StepsInv'  BY <1>18 DEF vars, ClusterInv, StepsInv
  <2>3. BudgetInv'  BY <1>18 DEF vars, BudgetInv, Spent
  <2> QED  BY <2>1, <2>2, <2>3 DEF IInv
<1> QED
  BY <1>1, <1>2, <1>3, <1>4, <1>5, <1>6, <1>7, <1>8, <1>9, <1>10, <1>11, <1>12,
     <1>13, <1>14, <1>15, <1>16, <1>17, <1>18
  DEF Next, Command, Terminated

THEOREM Invariance == Spec => []IInv
  BY InitIInv, NextIInv, PTL DEF Spec

-----------------------------------------------------------------------------
\* The retry counters of restart_cluster, create_cluster, deploy_with_retry and
\* wait_for_pod_ready stay within their bounds.
THEOREM TypeCorrect == Spec => []TypeOK
<1>1. IInv => TypeOK  BY DEF IInv
<1> QED  BY <1>1, Invariance, PTL

\* Whatever was retried, a trial begins on a complete deployment and on a cluster
\* that no trial has used, for every deploy config.
THEOREM ReadyForTheTrial == Spec => []TrialIsReady
<1>1. IInv => TrialIsReady
  BY StepsLength DEF IInv, ClusterInv, StepsInv, OnCluster, TrialIsReady
<1> QED  BY <1>1, Invariance, PTL

\* kind create is only run when nothing of the cluster is left.
THEOREM NothingLeftOver == Spec => []CreatesOnNothing
<1>1. IInv => CreatesOnNothing
  BY DEF IInv, ClusterInv, CreatesOnNothing
<1> QED  BY <1>1, Invariance, PTL

\* A worker runs `kind create` at most RestartRetries * (CreateRetries + 1) times
\* for one restart, and exactly that often when its thread gives up.
THEOREM BoundedRetries == Spec => []RetriesBounded
<1>1. IInv => RetriesBounded
  BY DEF IInv, BudgetInv, RetriesBounded
<1> QED  BY <1>1, Invariance, PTL
=============================================================================
