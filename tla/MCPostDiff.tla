----------------------------- MODULE MCPostDiff -----------------------------
(***************************************************************************)
(* A test run of two trials for TLC: both start with the seed CR and come  *)
(* to the same CR, one of them to another state than it should; the first  *)
(* goes back to the seed's CR, the second goes on with a step that the API *)
(* server rejected (kept) and one that was found invalid (left out).       *)
(***************************************************************************)
EXTENDS PostDiff

CONSTANTS seed, crA, crB, a0, a1, a2, b0, b1, b2, b3

MCInputOf == [s \in Steps |->
  CASE s \in {a0, a2, b0} -> seed
    [] s \in {a1, b1} -> crA
    [] s \in {b2, b3} -> crB]

Effect(i) == CASE i = seed -> 0 [] i = crA -> 1 [] i = crB -> 2

\* Every run has a number of its own, which shows in random names and in
\* whatever else differs from run to run.
RunOfStep(s) ==
  CASE s = a0 -> 1 [] s = a1 -> 11 [] s = a2 -> 10 [] s = b0 -> 3 [] s = b1 -> 4 [] s = b2 -> 5 [] s = b3 -> 6
FreshRun(i) == 7 + Effect(i)

Object(kind, base, random, owner, data) ==
  [kind |-> kind, base |-> base, random |-> random, owner |-> owner, data |-> data,
   custom |-> FALSE]

\* What the operator makes of a CR in a run: a config map with a note that differs
\* from run to run, the pods of a Deployment and of a StatefulSet of the same name,
\* with a mark on all three that only some runs leave; a config map and a secret with
\* random names; a Job's pod; a PVC that stays behind.  A step that depends on what
\* came before shows it in the mark of a DaemonSet alone (served), which has that
\* name too.
Marked(run) == IF run % 2 = 0 THEN [mark |-> 0] ELSE << >>

Made(effect, served, run) == {
  Object("config_map", 3, 0, "none", [spec |-> effect, note |-> run] @@ Marked(run)),
  Object("pod", 3, run, "ReplicaSet",
         [spec |-> effect, name |-> <<3, run>>] @@ Marked(run)),
  Object("pod", 3, 0, "StatefulSet",
         [spec |-> effect, uid |-> run, name |-> <<3, run>>] @@ Marked(run)),
  Object("pod", 3, run, "DaemonSet", [mark |-> served]),
  Object("pod", 2, run, "Job", [spec |-> run]),
  Object("config_map", 1, run, "none", [spec |-> effect]),
  Object("secret", 1, run, "none", [spec |-> run]),
  Object("pvc", 1, run, "none", [spec |-> run]) }

\* The config of the operator names the note.
MCIgnoreFields == {Pattern(<<"any", 0, 0, "note">>, {4})}

\* There on every cluster; a value of it may change (unsteady).
Installed(value) == {Object("config_map", 2, 0, "none", [spec |-> value])}

\* There in the test run, which has custom oracles.
OraclePod(run) ==
  [Object("pod", 4, 0, "StatefulSet", [spec |-> run]) EXCEPT !.custom = TRUE]

\* Tables, which TLC computes once.
States == [s \in Steps |->
  LET effect == Effect(MCInputOf[s]) IN
  Installed(IF s \in Unsteady THEN 1 ELSE 0) \cup {OraclePod(RunOfStep(s))}
    \cup Made(effect, IF s \in Diverged THEN 9 ELSE effect, RunOfStep(s))]
FreshStates == [i \in Inputs, operator \in BOOLEAN |->
  Installed(0) \cup (IF operator THEN Made(Effect(i), Effect(i), FreshRun(i)) ELSE {})]

MCStateOf(s) == States[s]
MCFreshState(i, operator) == FreshStates[i, operator]

\* crB asks for a replica that never becomes ready.
MCSystemOf(i) ==
  [workload |-> [k \in Workloads |->
     [wanted |-> 1, running |-> 1, available |-> 1,
      ready |-> IF i = crB /\ k = "stateful_set" THEN 0 ELSE 1,
      seen |-> TRUE, rolled |-> TRUE, onDelete |-> FALSE, stalled |-> FALSE,
      started |-> TRUE, restarted |-> FALSE]],
   pods |-> {}, forbidden |-> FALSE]
=============================================================================
