-------------------------- MODULE StateComparison --------------------------
(***************************************************************************)
(* How the runner collects the system state (acto/runner/runner.py:        *)
(* collect_system_state, group_pods), how the differential test compares   *)
(* two of them, and what it learns to ignore from the seed (acto/          *)
(* post_process/post_diff_test.py: compare_system_equality,                *)
(* compute_common_regex, get_diff_paths_helper).  A state is a set of      *)
(* objects with fields; the paths of a diff name the kind, the object and  *)
(* the field.  A name is a fixed part and a random suffix, 0 when there is *)
(* none.                                                                   *)
(***************************************************************************)
EXTENDS Integers, FiniteSetsExt, SequencesExt

\* In the order in which Python sorts the paths that begin with them; a path that
\* ends at the object is about it as a "whole".
Kinds == <<"config_map", "daemonset_pods", "deployment_pods", "pod", "pvc", "secret",
           "secret_number">>
Fields == <<"whole", "mark", "name", "note", "spec", "uid">>

\* What is in a namespace: finitely many objects, of the kinds that are collected,
\* with fields that the comparison knows.
IsObject(o) ==
  /\ o \in [kind : {"config_map", "pod", "pvc", "secret"}, base : Nat, random : Nat,
            owner : {o.owner}, data : {o.data}, custom : BOOLEAN]
  /\ DOMAIN o.data \subseteq ToSet(Fields)
IsNamespace(objects) == IsFiniteSet(objects) /\ \A o \in objects : IsObject(o)

\* The state of a run whose `kubectl apply` failed is an empty dict.
NotCollected == [collected |-> FALSE, objects |-> {}]

\* Mutant: the pods of a Deployment are known by their own names.
ByPodName(o) ==
  IF o.owner \in {"Deployment", "ReplicaSet"} THEN [o EXCEPT !.kind = "deployment_pods"] ELSE o

\* group_pods: the pods of a Deployment are listed under its name, which is that
\* of their ReplicaSet without the suffix; those of a DaemonSet likewise.
GroupedByOwner(o) ==
  CASE o.kind # "pod" -> o
    [] o.owner \in {"Deployment", "ReplicaSet"} ->
         [o EXCEPT !.kind = "deployment_pods", !.random = 0]
    [] o.owner = "DaemonSet" -> [o EXCEPT !.kind = "daemonset_pods", !.random = 0]
    [] OTHER -> o

\* Runner.collect_system_state: all but the pods that a custom oracle has started.
Collect(objects) ==
  [collected |-> TRUE,
   objects |-> {GroupedByOwner(o) : o \in {x \in objects : ~(x.kind = "pod" /\ x.custom)}}]

\* Pods without an owner and pods of Jobs are removed, PVCs are popped.
Compared(state) ==
  {o \in state.objects : o.kind # "pvc" /\ (o.kind = "pod" => o.owner \notin {"none", "Job"})}

Secrets(state) == {o \in state.objects : o.kind = "secret"}

Key(o) == <<o.kind, o.base, o.random>>

\* The built-in list: all of a secret, what the API server assigns, and the names
\* of a Deployment's pods.
IsExcluded(path) ==
  \/ path[1] = "secret"
  \/ path[4] = "uid"
  \/ path[1] = "deployment_pods" /\ path[4] = "name"

\* NameOperator: generated names are compared without their suffix.
SameValue(field, a, b) ==
  IF field = "name" /\ a[2] # 0 /\ b[2] # 0 THEN a[1] = b[1] ELSE a = b

\* What there is of an object among the objects of the other side.
Twins(o, B) == {b \in B : Key(b) = Key(o)}

\* The objects of A, and the fields of them, that B does not have.
Lacking(o, twins) == IF twins = {} THEN {"whole"}
                     ELSE {f \in DOMAIN o.data : \E b \in twins : f \notin DOMAIN b.data}
Missing(A, B) == UNION {{Append(Key(o), f) : f \in Lacking(o, Twins(o, B))} : o \in A}

\* The paths of DeepDiff's dictionary_item_removed and dictionary_item_added.
OneSided(prev, curr) ==
  LET P == Compared(prev)
      C == Compared(curr)
  IN  Missing(P, C) \cup Missing(C, P)

\* The paths of its values_changed and type_changes.
Changed(o, twins) ==
  {f \in DOMAIN o.data : \E b \in twins :
     f \in DOMAIN b.data /\ ~SameValue(f, o.data[f], b.data[f])}
ChangedValues(prev, curr) ==
  LET C == Compared(curr) IN
  UNION {{Append(Key(o), f) : f \in Changed(o, Twins(o, C))} : o \in Compared(prev)}

Differences(prev, curr) == OneSided(prev, curr) \cup ChangedValues(prev, curr)

-----------------------------------------------------------------------------
(* Patterns. *)

\* "^" + re.escape(path) + "$", or the path with wildcards for the parts
\* left out of keep.
Pattern(path, keep) == [path |-> path, keep |-> keep]
Exactly(path) == Pattern(path, 1 .. 4)
Matches(pattern, path) == \A i \in pattern.keep : path[i] = pattern.path[i]
MatchesAny(patterns, path) == \E p \in patterns : Matches(p, path)

\* compare_system_equality: the paths that remain, none of them when a state
\* was not collected, and the one root['secret_number'] when their number differs.
SystemDiff(curr, prev, ignored) ==
  IF ~curr.collected \/ ~prev.collected THEN {}
  ELSE IF Cardinality(Secrets(curr)) # Cardinality(Secrets(prev))
  THEN {<<"secret_number", 0, 0, "whole">>}
  ELSE {p \in Differences(prev, curr) : ~IsExcluded(p) /\ ~MatchesAny(ignored, p)}

SortKey(path) == <<SelectInSeq(Kinds, LAMBDA k : k = path[1]), path[2], path[3],
                   SelectInSeq(Fields, LAMBDA f : f = path[4])>>

SortsBefore(p, q) ==
  LET k == SortKey(p)
      l == SortKey(q)
  IN  \E i \in 1 .. 4 : k[i] < l[i] /\ \A j \in 1 .. i - 1 : k[j] = l[j]

Sorted(paths) ==
  LET place == [p \in paths |-> Cardinality({q \in paths : SortsBefore(q, p)})] IN
  [i \in 1 .. Cardinality(paths) |-> CHOOSE p \in paths : place[p] = i - 1]

\* Mutant: no wildcard, every path stands for itself.
Itself(p, q) == Exactly(p)

\* What two paths have in common, with a wildcard for what they have not.
Shared(p, q) == Pattern(p, {i \in 1 .. 4 : p[i] = q[i]})

\* Mutant: no matter what kinds of resource they are in.
AnyKind(sorted, i) == TRUE

\* Three paths in a row about the same kind of resource.
SameKind(sorted, i) == \A j \in {i + 1, i + 2} : sorted[j][1] = sorted[i][1]

CanJoin(sorted, i) ==
  /\ i + 2 <= Len(sorted)
  /\ SameKind(sorted, i)
  /\ Matches(Shared(sorted[i], sorted[i + 1]), sorted[i + 2])

NoPattern == [all |-> {}, latest |-> {}]

\* Mutant: a path that cannot be joined is left out.
GiveUp(found, path) == found

StandAlone(found, path) == [found EXCEPT !.all = @ \cup {Exactly(path)}]

Join(found, pattern) == [all |-> found.all \cup {pattern}, latest |-> {pattern}]

\* compute_common_regex: in sorted order, a path that the last pattern does not
\* match is joined with the next one if the path after that, of the same kind,
\* fits too; otherwise it stands for itself.
Look(sorted, found, i) ==
  IF MatchesAny(found.latest, sorted[i]) THEN found
  ELSE IF CanJoin(sorted, i) THEN Join(found, Shared(sorted[i], sorted[i + 1]))
  ELSE StandAlone(found, sorted[i])

CommonPatterns(paths) ==
  LET sorted == Sorted(paths) IN
  FoldLeft(LAMBDA found, i : Look(sorted, found, i), NoPattern, [i \in 1 .. Len(sorted) |-> i]).all
=============================================================================
