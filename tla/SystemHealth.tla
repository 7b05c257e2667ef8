---------------------------- MODULE SystemHealth ----------------------------
(***************************************************************************)
(* The health of the system under test as Runner.wait_for_system_converge  *)
(* asks for it: KubernetesSystemState.check_health and the check_health of *)
(* each kind (acto/system_state), and as the health oracle judges it       *)
(* afterwards (acto/checker/impl/health.py).  A cluster is a function from *)
(* the kinds of workload to the one workload of that kind, with the pods   *)
(* that belong to none of these besides (of Jobs, for example); the pods   *)
(* of a workload are as many as its status counts.                         *)
(***************************************************************************)
EXTENDS Integers, SequencesExt

None == -1

\* Kubernetes leaves a count out of a status while it is zero.
Reported(n) == IF n = 0 THEN None ELSE n

Workloads == {"daemon_set", "deployment", "replica_set", "stateful_set"}

\* The order of from_api_client's requests.  The other kinds, and Job, have a
\* check_health that always holds.
ReadOrder == <<"daemon_set", "deployment", "pod", "replica_set", "stateful_set">>

\* available: pods that have been ready for minReadySeconds.  seen:
\* status.observed_generation is metadata.generation.  rolled: the current revision
\* is the update revision.  stalled: the progress deadline is exceeded.  started: no
\* pod is Pending.  restarted: a container of a pod has a restart_count.
Workload == [wanted : Nat, running : Nat, ready : Nat, available : Nat,
             seen : BOOLEAN, rolled : BOOLEAN, onDelete : BOOLEAN, stalled : BOOLEAN,
             started : BOOLEAN, restarted : BOOLEAN]

\* A pod has no condition Ready before it is scheduled, nor after it was evicted.
Pod == [phase : {"Pending", "Running", "Succeeded", "Failed"},
        ready : {"True", "False", "absent"}]

\* forbidden: the CR's condition Ready is not True, and its message says "is
\* forbidden".
System == [workload : [Workloads -> Workload], pods : SUBSET Pod, forbidden : BOOLEAN]

-----------------------------------------------------------------------------
(* check_health of each kind. *)

DaemonSetHealthy(d) ==
  /\ d.seen
  /\ d.wanted = d.ready           \* both counts are required fields: 0 is 0
  /\ ~d.stalled

\* Mutant: the status may be older than the spec.
AnyGeneration(d) ==
  /\ d.wanted = Reported(d.ready)
  /\ ~d.stalled
  /\ Reported(d.running) = Reported(d.ready)
  /\ Reported(d.running - d.available) = None

\* The condition Available fails when less than the pods wanted are available (for
\* fewer than four of them; a fourth may be missing of more).
DeploymentAvailable(d) == d.available >= d.wanted

DeploymentHealthy(d) ==
  /\ d.seen
  /\ d.wanted = Reported(d.ready)
  /\ DeploymentAvailable(d)
  /\ ~d.stalled                                 \* condition Progressing
  /\ Reported(d.running) = Reported(d.ready)
  /\ Reported(d.running - d.available) = None   \* unavailable_replicas

\* The one case in which a missing count is what was asked for.
ScaledToZero(w) == w.wanted = 0 /\ Reported(w.ready) = None

ReplicaSetHealthy(r) ==
  /\ r.seen
  /\ ScaledToZero(r) \/ r.wanted = Reported(r.ready)

\* Mutant: a StatefulSet scaled to zero is compared like any other.
CountsAlone(s) ==
  /\ s.seen
  /\ s.rolled \/ s.onDelete
  /\ s.wanted = Reported(s.ready)

\* Mutant: what the status counts is ready, however many are asked for.
WithinStatus(s) ==
  /\ s.seen
  /\ s.rolled \/ s.onDelete
  /\ Reported(s.running) = Reported(s.ready)

StatefulSetHealthy(s) ==
  /\ s.seen
  /\ s.rolled \/ s.onDelete
  /\ ScaledToZero(s) \/ s.wanted = Reported(s.ready)

\* No pod's condition Ready fails.  That of a pod that has completed does, and its
\* phase is not looked at.
PodsHealthy(system) ==
  /\ \A k \in Workloads : system.workload[k].ready = system.workload[k].running
  /\ \A p \in system.pods : p.ready # "False"

KindHealthy(kind, system) ==
  CASE kind = "daemon_set"   -> DaemonSetHealthy(system.workload[kind])
    [] kind = "deployment"   -> DeploymentHealthy(system.workload[kind])
    [] kind = "pod"          -> PodsHealthy(system)
    [] kind = "replica_set"  -> ReplicaSetHealthy(system.workload[kind])
    [] kind = "stateful_set" -> StatefulSetHealthy(system.workload[kind])

-----------------------------------------------------------------------------
(* HealthChecker.check (acto/checker/impl/health.py): the health oracle judges *)
(* the collected state by rules of its own.  A Deployment has conditions from  *)
(* its controller's first look at it on; without any, the oracle would raise.  *)

StatefulSetAlarm(s) == ~ScaledToZero(s) /\ s.wanted # Reported(s.ready)

DeploymentAlarm(d) ==
  /\ d.wanted # 0
  /\ \/ d.wanted # Reported(d.ready)
     \/ ~DeploymentAvailable(d)
     \/ d.stalled

\* number_available is left out while it is zero, unlike the other two counts.
DaemonSetAlarm(d) == d.wanted # d.ready \/ d.wanted # Reported(d.available)

\* The phases are those of the pods that no Deployment and no DaemonSet owns.
PhaseAlarm(system) ==
  \/ ~system.workload["stateful_set"].started
  \/ \E p \in system.pods : p.phase \notin {"Running", "Succeeded"}

HealthAlarm(system) ==
  LET w == system.workload IN
  \/ StatefulSetAlarm(w["stateful_set"])
  \/ DeploymentAlarm(w["deployment"])
  \/ DaemonSetAlarm(w["daemon_set"])
  \/ PhaseAlarm(system)
  \/ w["deployment"].restarted
  \/ system.forbidden

-----------------------------------------------------------------------------
(* What Kubernetes calls done, for comparison. *)

\* The controller has acted on the latest spec and has nothing left to do but to
\* see the pods stay ready.
Done(w) ==
  /\ w.seen
  /\ w.running = w.wanted /\ w.ready = w.wanted
  /\ w.rolled \/ w.onDelete
  /\ ~w.stalled

Finished(system) == \A k \in Workloads : Done(system.workload[k])

\* ... and they have, and the other pods are at work or have ended.
Settled(system) ==
  /\ Finished(system)
  /\ \A k \in Workloads : system.workload[k].available = system.workload[k].wanted
  /\ \A p \in system.pods :
       p.phase \in {"Succeeded", "Failed"} \/ (p.phase = "Running" /\ p.ready = "True")

\* Settled systems that check_health never calls healthy: a Deployment with no
\* replicas (the case its siblings and the health oracle provide for), and pods
\* that have ended, as a completed Job's (which the oracle skips by their phase).
NeverHealthy(system) ==
  \/ system.workload["deployment"].wanted = 0
  \/ \E p \in system.pods : p.phase \in {"Succeeded", "Failed"} /\ p.ready = "False"

\* What the health oracle asks for and check_health does not: that as many pods of
\* a DaemonSet are available as it wants, which it never finds of one that wants
\* none; phases; restarts in a Deployment's pods; and the operator's own word.
Unasked(system) ==
  LET w == system.workload IN
  \/ w["daemon_set"].wanted # Reported(w["daemon_set"].available)
  \/ \E p \in system.pods : p.phase \notin {"Running", "Succeeded"}
  \/ w["deployment"].restarted
  \/ system.forbidden
=============================================================================
