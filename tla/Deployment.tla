----------------------------- MODULE Deployment -----------------------------
(***************************************************************************)
(* How a worker gets a fresh cluster with the operator under test:         *)
(* restart_cluster (acto/kubernetes_engine/base.py), Kind.create_cluster   *)
(* and delete_cluster (kind.py), Deploy.deploy and deploy_with_retry       *)
(* (acto/deploy.py), and the loop of TrialRunner.run around them.  The     *)
(* kind, kubectl and helm commands are the environment: each may fail, and *)
(* what a failed one leaves behind is still there for the next attempt.    *)
(***************************************************************************)
EXTENDS Integers, Sequences

CONSTANTS
  Steps,          \* deploy_config.steps: the kind of each step
  RestartRetries, \* restart_cluster's retry_count (3 in the code)
  CreateRetries,  \* create_cluster gives up when i is this (3 in the code)
  DeployRetries,  \* deploy_with_retry's retry_count (3 in the code)
  WaitRetries     \* wait_for_pod_ready's bound on i (3 in the code)

ASSUME DeploymentAssumption ==
  /\ Steps \in Seq({"apply", "helm", "wait"})
  /\ RestartRetries \in Nat \ {0}
  /\ CreateRetries \in Nat
  /\ DeployRetries \in Nat \ {0}
  /\ WaitRetries \in Nat \ {0}

\* How often restart_cluster runs `kind create` before the thread gives up.
MaxCreates == RestartRetries * (CreateRetries + 1)

VARIABLES
  pc,       \* where the worker is
  restarts, \* retry_count of restart_cluster: tries left
  tries,    \* i of create_cluster
  attempts, \* failed rounds of deploy_with_retry
  next,     \* step of the deploy config, one past the end for the label
  waits,    \* i of wait_for_pod_ready
  cluster,  \* environment: the kind cluster of this worker
  objects,  \* environment: the steps whose objects the cluster holds
  dirty,    \* environment: a trial has run on this cluster
  created   \* history: `kind create` commands since the restart began, up to one
            \* more than MaxCreates

retryVars == <<restarts, tries, attempts>>
envVars   == <<cluster, objects, dirty>>
vars == <<pc, retryVars, next, waits, envVars, created>>

Init ==
  /\ pc = "delete"
  /\ restarts = RestartRetries
  /\ tries = 0
  /\ attempts = 0
  /\ next = 1
  /\ waits = 0
  /\ cluster \in {"absent", "up"}     \* an earlier run of Acto may have left it
  /\ objects = {}
  /\ dirty = (cluster = "up")
  /\ created = 0

\* TrialRunner.run calls restart_cluster.
StartRestart ==
  /\ pc' = "delete"
  /\ restarts' = RestartRetries
  /\ tries' = 0
  /\ attempts' = 0
  /\ created' = 0

-----------------------------------------------------------------------------
(* restart_cluster, create_cluster, delete_cluster *)

Deleting == pc \in {"delete", "recreate"}

DeleteCluster ==
  /\ Deleting
  /\ cluster' = "absent"
  /\ objects' = {}
  /\ dirty' = FALSE
  /\ pc' = "create"
  /\ UNCHANGED <<retryVars, next, waits, created>>

\* The command is repeated for as long as it fails.
DeleteFails ==
  /\ Deleting
  /\ cluster = "up"
  /\ cluster' = "partial"
  /\ UNCHANGED <<pc, retryVars, next, waits, objects, dirty, created>>

CountCreate == created' = IF created <= MaxCreates THEN created + 1 ELSE created

CreateCluster ==
  /\ pc = "create"
  /\ cluster = "absent"
  /\ cluster' = "up"
  /\ CountCreate
  /\ pc' = "config"
  /\ UNCHANGED <<retryVars, next, waits, objects, dirty>>

\* Mutant: the cluster that was not created is not deleted before the next try.
CreateAgain == pc' = "create"

DeleteBeforeRetry == pc' = "recreate"

\* Mutant: one `kind create` too many.
OneMoreTry == tries <= CreateRetries

TriesLeft == tries < CreateRetries

\* Mutant: the restart starts over for ever.
KeepRestarts == UNCHANGED restarts

UseUpRestart == restarts' = restarts - 1

\* kind create fails, and always does so when something of the cluster exists.
CreateFails ==
  /\ pc = "create"
  /\ cluster' \in IF cluster = "absent" THEN {"absent", "partial"} ELSE {cluster}
  /\ CountCreate
  /\ TriesLeft
  /\ tries' = tries + 1
  /\ DeleteBeforeRetry
  /\ UNCHANGED <<restarts, attempts, next, waits, objects, dirty>>

\* RuntimeError: restart_cluster starts over, or gives up and the thread dies.
CreateGivesUp ==
  /\ pc = "create"
  /\ cluster' \in IF cluster = "absent" THEN {"absent", "partial"} ELSE {cluster}
  /\ CountCreate
  /\ ~TriesLeft
  /\ tries' = 0
  /\ UseUpRestart
  /\ pc' = IF restarts' = 0 THEN "crashed" ELSE "delete"
  /\ UNCHANGED <<attempts, next, waits, objects, dirty>>

\* load_kube_config and the API client: what they raise is not a RuntimeError.
LoadConfig ==
  /\ pc = "config"
  /\ \/ pc' = "deploy" /\ next' = 1 /\ waits' = 0
     \/ pc' = "crashed" /\ UNCHANGED <<next, waits>>
  /\ UNCHANGED <<retryVars, envVars, created>>

-----------------------------------------------------------------------------
(* Deploy.deploy and deploy_with_retry *)

\* Mutant: the failed rounds are not counted.
ForgetAttempt == UNCHANGED attempts

CountAttempt == attempts' = attempts + 1

\* deploy returned False: the next round starts with the first step, on the
\* same cluster; after the last one the worker asks for a new cluster.
DeployFailed ==
  IF attempts + 1 < DeployRetries
  THEN /\ CountAttempt
       /\ pc' = "deploy"
       /\ UNCHANGED <<restarts, tries, created>>
  ELSE StartRestart

\* Mutant: a step that failed is only logged, as create_namespace's failure is.
LogAndGoOn == /\ next' = next + 1
              /\ pc' = "deploy"
              /\ UNCHANGED <<retryVars, waits, created>>

Failed == DeployFailed /\ next' = 1 /\ waits' = 0

AtStep(kind) == pc = "deploy" /\ next \in DOMAIN Steps /\ Steps[next] = kind

\* kubectl apply --server-side; then the pods are waited for.
Apply ==
  /\ AtStep("apply")
  /\ objects' = objects \cup {next}
  /\ pc' = "pods"
  /\ waits' = 0
  /\ UNCHANGED <<retryVars, next, cluster, dirty, created>>

ApplyFails ==
  /\ AtStep("apply")
  /\ objects' \in {objects, objects \cup {next}}
  /\ Failed
  /\ UNCHANGED <<cluster, dirty>>

\* kubectl's own timeout is not caught.
ApplyHangs ==
  /\ AtStep("apply")
  /\ pc' = "crashed"
  /\ UNCHANGED <<retryVars, next, waits, envVars, created>>

HelmInstall ==
  /\ AtStep("helm")
  /\ next \notin objects
  /\ objects' = objects \cup {next}
  /\ next' = next + 1
  /\ UNCHANGED <<pc, retryVars, waits, cluster, dirty, created>>

\* Also when the release exists: helm does not reuse a name.
HelmFails ==
  /\ AtStep("helm")
  /\ objects' \in {objects, objects \cup {next}}
  /\ Failed
  /\ UNCHANGED <<cluster, dirty>>

Sleep ==
  /\ AtStep("wait")
  /\ next' = next + 1
  /\ UNCHANGED <<pc, retryVars, waits, envVars, created>>

\* add_acto_label, then the last wait; an API error is not caught.
Label ==
  /\ pc = "deploy"
  /\ next = Len(Steps) + 1
  /\ pc' \in {"pods", "crashed"}
  /\ waits' = 0
  /\ UNCHANGED <<retryVars, next, envVars, created>>

PodsReady ==
  /\ pc = "pods"
  /\ IF next \in DOMAIN Steps
     THEN next' = next + 1 /\ pc' = "deploy"
     ELSE UNCHANGED next /\ pc' = "trial"
  /\ UNCHANGED <<retryVars, waits, envVars, created>>

\* kubectl wait returned an error: once more, WaitRetries times in all.
PodsNotReady ==
  /\ pc = "pods"
  /\ IF waits + 1 < WaitRetries
     THEN waits' = waits + 1 /\ UNCHANGED <<pc, retryVars, next, created>>
     ELSE Failed
  /\ UNCHANGED envVars

\* TimeoutExpired: no retry, deploy fails.
PodsTimeout ==
  /\ pc = "pods"
  /\ Failed
  /\ UNCHANGED envVars

-----------------------------------------------------------------------------
EndTrial ==
  /\ pc = "trial"
  /\ dirty' = TRUE
  /\ StartRestart
  /\ UNCHANGED <<next, waits, cluster, objects>>

Terminated == pc = "crashed" /\ UNCHANGED vars

Command == \/ CreateCluster \/ CreateFails \/ CreateGivesUp \/ LoadConfig
           \/ Apply \/ ApplyFails \/ ApplyHangs \/ HelmInstall \/ HelmFails
           \/ Sleep \/ Label \/ PodsReady \/ PodsNotReady \/ PodsTimeout

Next == DeleteCluster \/ DeleteFails \/ Command \/ EndTrial \/ Terminated

Spec == Init /\ [][Next]_vars

\* The worker goes on, and `kind delete`, repeated for ever, succeeds at last.
FairSpec == Spec /\ WF_vars(Command) /\ SF_vars(DeleteCluster)

-----------------------------------------------------------------------------
(* Properties. *)

TypeOK ==
  /\ pc \in {"delete", "create", "recreate", "config", "deploy", "pods", "trial",
             "crashed"}
  /\ restarts \in 0 .. RestartRetries
  /\ tries \in 0 .. CreateRetries
  /\ attempts \in 0 .. DeployRetries - 1
  /\ next \in 1 .. Len(Steps) + 1
  /\ waits \in 0 .. WaitRetries - 1
  /\ cluster \in {"absent", "partial", "up"}
  /\ objects \subseteq DOMAIN Steps
  /\ dirty \in BOOLEAN
  /\ created \in 0 .. MaxCreates + 1

\* When a trial begins, every step of the deploy config has put its objects into
\* a cluster on which no trial has run: whatever failed and was retried before,
\* the state that the oracles judge is of this trial alone.
TrialIsReady ==
  pc = "trial" =>
    /\ cluster = "up" /\ ~dirty
    /\ \A i \in DOMAIN Steps : Steps[i] # "wait" => i \in objects

\* kind create is never run over what is left of a cluster: it would fail, and
\* use up the tries.
CreatesOnNothing == pc = "create" => cluster = "absent" /\ objects = {}

\* The two nested retries are bounded together, and a thread gives up only after
\* it has used up all of them (or for an exception that is not retried).
RetriesBounded ==
  /\ created <= MaxCreates
  /\ (pc = "crashed" /\ restarts = 0) => created = MaxCreates

\* A restart comes to its end: a cluster to deploy on, or a thread that dies.
RestartEnds == (pc = "delete") ~> (pc \in {"deploy", "crashed"})

\* So does the deployment: a trial, a request for a new cluster, or a crash.
DeployEnds == (pc = "deploy") ~> (pc \in {"trial", "delete", "crashed"})

\* The nested loops of restart_cluster, create_cluster and deploy_with_retry end.
DeploymentEnds == RestartEnds /\ DeployEnds
=============================================================================
