----------------------------- MODULE MCConverge -----------------------------
(***************************************************************************)
(* Systems for TLC: one settled, and others that differ from it in one     *)
(* workload, in another pod, or in the condition of the CR.                *)
(***************************************************************************)
EXTENDS Converge

\* A workload whose controller is up to date with its spec.
Counts(wanted, running, ready) ==
  [wanted |-> wanted, running |-> running, ready |-> ready, available |-> ready,
   seen |-> TRUE, rolled |-> TRUE, onDelete |-> FALSE, stalled |-> FALSE,
   started |-> TRUE, restarted |-> FALSE]

AtRest == [workload |-> [k \in Workloads |-> Counts(1, 1, 1)],
           pods |-> {}, forbidden |-> FALSE]

But(k, w) == [AtRest EXCEPT !.workload[k] = w]

MCSystems == {
  AtRest,
  \* a Job's pod has completed
  [AtRest EXCEPT !.pods = {[phase |-> "Succeeded", ready |-> "False"]}],
  \* a pod was evicted, and the operator was denied a resource: only the oracle asks
  [AtRest EXCEPT !.pods = {[phase |-> "Failed", ready |-> "absent"]}, !.forbidden = TRUE],
  \* the operator has just asked for no replicas, and has got none
  But("stateful_set", [Counts(0, 1, 1) EXCEPT !.seen = FALSE]),
  But("stateful_set", Counts(0, 0, 0)),
  \* ... or for a second replica, that is not there yet
  But("stateful_set", Counts(2, 1, 1)),
  \* the spec of a Deployment changes, its new ReplicaSet starts, or it is scaled to zero
  But("deployment", [Counts(1, 1, 1) EXCEPT !.seen = FALSE]),
  But("replica_set", [Counts(1, 1, 0) EXCEPT !.started = FALSE]),
  [But("deployment", Counts(0, 0, 0)) EXCEPT !.workload["replica_set"] = Counts(0, 0, 0)],
  \* no node matches a DaemonSet, and a container of the Deployment was restarted
  [But("daemon_set", Counts(0, 0, 0)) EXCEPT !.workload["deployment"].restarted = TRUE] }
=============================================================================
