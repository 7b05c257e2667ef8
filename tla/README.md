# Acto in TLA+

Acto (`acto/`) tests Kubernetes operators end to end.  From the CRD and a seed
custom resource (CR) it generates test cases, deals them out to worker threads,
and each worker drives an operator on a cluster of its own through sequences of
CRs while oracles judge the system.  A second phase runs every distinct CR on a
fresh cluster and compares the states.

This directory models the parts of Acto whose correctness takes more than one
step to see: the worker's loop over trials and generations, the wait for
convergence, the way a cluster with the operator is obtained, the main thread,
the differential test and what it compares, fault injection, the consistency
oracle, and the way from a CRD to test cases and from test cases to CRs.  The
cluster and the operator are the environment: they answer in every way the code
can meet.

## 1. The system

| Part | Code | State | Operations | Hard behaviour |
|---|---|---|---|---|
| Main thread | `engine.py` class `Acto`, `__main__.py` | context file, partitioned plan, threads, `testrun_info.json` | learn, load or dump the context, generate the plan, start and join workers, summarise | killed between two writes; threads that die unseen |
| Worker | `engine.py` class `TrialRunner` | its plan, discarded tests, snapshots, generation | start trial, choose / set up / mutate / run / judge / revert / recover / delete | long sequences of refusals, reverts, aborted trials |
| Test plan | `input/testplan.py`, `input/input.py` | groups, their heads | chunk, partition, next, finish, discard | pops are blind; short last chunk, more workers than chunks |
| Runner | `runner/runner.py` | generation, current log positions | apply, wait, collect, delete | see the next row |
| Convergence wait | `Runner.wait_for_system_converge`, `utils/acto_timer.py` | queue, timer thread, watch process of each call | get, timeout, health check, cancel, terminate | late messages, event floods, watches that end |
| Cluster and deployment | `kubernetes_engine/`, `deploy.py`, `kubectl_client/helm.py` | cluster, objects on it, three nested retry counters | delete, create, apply, helm install, wait for pods, label | commands that fail half way; retries over what they left |
| Oracles | `checker/` | none | judge a snapshot and the one before | the padded snapshot (section 7) |
| Consistency oracle | `checker/impl/consistency.py`, `state_compare.py`, `common.py` | conditions of fields | diff, match, compare, verdict | sections switched off earlier in the trial; loose comparison |
| Differential test | `post_process/post_diff_test.py` | work queue, result and report files, processes, learned patterns | run each CR, learn from the seed, compare each step | several processes on one queue, processes that die; noise against real difference |
| Trial files | `snapshot.py`, `trial.py`, `result.py` | step files, `generation-NNN-*` | dump, load, delta | numbering without gaps |
| Reproduction | `reproduce.py` | the CRs of a trial directory | replay | file order |
| Schemas and values | `schema/`, `input/value_with_schema.py` | the schema tree | extract, generate, attach, get / set / create a path | values that do not fit, paths that do not exist |
| Test generation | `input/test_generators`, `input/testcase.py`, `input/k8s_schemas.py`, `input/input.py` | registry of generators, matched types | match types, generate, prune, set up, mutate | boundaries; sequences of mutations; exceptions end a thread |
| Known schemas | `input/known_schemas`, `input/get_matched_schemas.py` | none | match (for the consistency oracle) | - |
| System state | `system_state/` | none (queries) | collect, judge health | read kind by kind while it changes; counts that are left out when zero |
| Fault injection | `src/chactos` | work queue, steps of a trial, failure files | replay a trial with a failure at each step, start over after an alarm | order of steps, restarts, files shared by workers |
| Static analysis, CLI helpers, archives | `ssa/`, `acto/cli`, `utils/image_helper.py` | files | - | - |

How they interact: the main thread hands each worker a share of the plan (shared
memory, read once) and joins it.  A worker calls the deployment, then `Runner.run`
per generation, which calls `kubectl apply`, waits for convergence and collects;
the oracles are called on the last two snapshots.  Results leave a worker only as
files and as `discarded_testcases`, which the main thread reads after the join.
The differential test reads the trial directories; its processes share one queue.

What makes each part correct:

- *worker*: no test case is lost or consumed twice or popped unrun; step files are
  numbered without a gap; a generation starts from the CR the API server holds;
  the snapshot before an error exists; every trial and the whole share end.
- *convergence*: "converged" means nothing happened for the wait time, "timed out"
  means the hard timeout has passed, every call returns and leaves nothing behind.
- *deployment*: a trial begins on a clean cluster that holds every step's objects;
  the nested retries are bounded; nothing is created over a leftover cluster.
- *main thread*: shares are a partition of the unpruned test cases; the summary
  adds up; nothing is planned from half a context file.
- *differential test*: each CR is run once, alone on its cluster; its report is
  complete and final; both pools end.
- *comparison of states*: what differs from run to run is no difference, and what
  depends on history is one.
- *health*: converged means that the controllers are done, and done means converged;
  the health oracle reports such a system only for what the wait does not ask.
- *consistency oracle*: an operator that obeys is not reported, one that ignores a
  field is.
- *input generation*: a mutation changes its own path, and only that; CRs stay
  documents that fit their schema.
- *fault injection*: each step is sent under a failure once, from the step before it.

`PROJECT.json` lists the components with their status and the hazards with the
lines where they bite.

## 2. Modules

| Module | Models | Composition |
|---|---|---|
| `TestCampaign` | abstract: what a worker promises about its test cases | implemented by `TrialRunner` over its share, and by the threads of `Acto` together over the plan |
| `TrialRunner` | `TrialRunner.run`, `run_trial`, `run_testcases`, `run_and_check`, `run_recovery`, `run_delete`, `apply_testcase`, `TestGroup`, `DeterministicTestPlan` | `Campaign == INSTANCE TestCampaign` |
| `TestPartition` | `split_into_subgroups` and the round robin of `generate_test_plan` | extended by `Acto` |
| `Acto` | `Acto.__init__`, `__learn` with the analysis added to a loaded context, `generate_test_plan`, `run`, the thread exception hook, kill and restart | extends `TestPartition` |
| `SystemHealth` | `check_health` of every kind, the health oracle | extended by `Converge`, `PostDiff` |
| `Converge` | `wait_for_system_converge`, `ActoTimer`, `watch_system_events`, the reading of the system | extends `SystemHealth` |
| `Deployment` | `restart_cluster`, `Kind.create_cluster` / `delete_cluster`, `Deploy.deploy` / `deploy_with_retry`, `wait_for_pod_ready`, `Helm.install` | between `EndTrial` and `StartTrial` of `TrialRunner` |
| `StateComparison` | `collect_system_state`, `group_pods`, `compare_system_equality`, `compute_common_regex`, `get_diff_paths_helper` | extended by `PostDiff` |
| `PostDiff` | `PostDiffTest.__init__`, `post_process`, `DeployRunner.run`, `check`, `check_diff_test_result`, `check_diff_test_step` | extends `SystemHealth`, `StateComparison`; action `PostProcess` of `Acto` |
| `Chactos` | the fault injection driver, `ChactosTrialWorker`, the failures' files, the choice of pods | replays the trials `TrialRunner` leaves |
| `Schemas` | `acto/schema`: extraction, `gen`, paths | base of the next seven and of `KnownSchemas` |
| `ValueTree` | `value_with_schema.py` | extends `Schemas` |
| `PrimitiveTests`, `TestCases`, `SemanticTests` | test cases of primitive types, what test cases do, test cases of Kubernetes types | each extends the one before |
| `K8sMatcher` | `k8s_schemas.py` | extends `Schemas` |
| `TestGenerators` | the registry, `get_testcases`, configurations, `InputModel` up to the list of test cases | extends `SemanticTests`, `K8sMatcher` |
| `Inputs` | sequences of test cases on a CR (the data `TrialRunner` abstracts from) | extends `TestGenerators` |
| `KnownSchemas` | `known_schemas`, `get_matched_schemas.py` | extends `Schemas` |
| `Consistency` | the consistency oracle, and an operator it judges | extends `KnownSchemas` |
| `MC*` | constants of the instances | |
| `DataLemmas` | induction and recursion as lemmas, what flattening, folds, sums over disjoint sets and rankings compute | extended by `Acto_proofs`, `Chactos_proofs`, `PostDiff_proofs` |
| `*_proofs` | theorems | each extends the module it is named after |

### TrialRunner

`pc` is the place in the loops: `start` (head of `run`'s loop), `loop` (head of
`run_trial`'s), `run` (one attempt in `run_and_check`), `judge` (its result is
looked at), `recover`, `delete`, `done`.  `plan` is `test_plan.groups`, and
`finish_testcase` / `discard_testcase` pop the head of its first group without
looking at it, which is why `ConsumesWhatItRan` is a property.  A `Reply` is what
one apply and the oracles can say; `Replies` keeps the combinations that
`check_kubectl_cli`, `Runner.run` and `CheckerSet.check` allow.  `check_kubectl_cli`
looks for words in what kubectl printed and never at its return code: kubectl may warn
about a CR it accepts (such a reply is INVALID and yet stored), and a CR that is turned
away with "unchanged" in the message is UNCHANGED, and not reverted.  `snaps` keeps, of
a snapshot, its CR and whether its system state is empty, collected, or empty and
then padded by `Snapshot.delta`.  A CR is a function from fields to values;
`apply_testcase` sets one field and then solves the xor constraints (`Satisfy`).
A test case with a `Store` (`TwoStep`: k8s-scaleDownUp and its like) has a
precondition that fails when it is first asked and holds ever after, whatever the
CR; `asked` is the set of those whose Store is set.  It belongs to the test case and
survives the trial.
`strayed` is a history variable: an apply of this trial was turned away and its CR
is nevertheless the base of the next generation (`Strays`: the connection was refused
to the end, the reply was UNCHANGED, or the apply was a revert).

### Converge and SystemHealth

One queue, one timer and one watch process per call, because the code makes new
ones and does not join the old ones: a cancelled timer still puts its message.
Time is a `Tick` on saturating counters.  `HealthRaises` is the exception that
leaves the function without its clean-up.

A system is one workload of each kind with the counts of its status, and the pods of
a Job.  `Reported` leaves out a count of zero as Kubernetes does, which is what
most of the `check_health` functions are about.  The kinds are read one after
another (`ReadKind`), the system may change in between (`SystemChanges`), and
`moved` is a history variable that says that it did: `ConvergedMeansQuiet` and
`SettledConverges` speak of readings during which nothing moved, because the code
does not notice what does (the events that arrive meanwhile are thrown away with
the queue).  `NeverHealthy` names the two settled systems that the check refuses
(section 7).  Fault injection waits by the same function; the `wait_for_converge` in
`chactos/fault_injections.py` is called by nothing and not modelled.

`HealthAlarm` is the health oracle, which judges the collected state afterwards by rules
of its own: counts and conditions of StatefulSets and Deployments, the counts of
DaemonSets with `number_available`, the phases of pods that are nobody's or a
StatefulSet's, restarts in a Deployment's pods, and the CR's condition Ready.  `Unasked`
is what it asks for and the wait does not.  `AlarmsOnlyForUnasked` says that about
everything else the two agree.

### Deployment

Each command is an action that succeeds or fails, and what a failed command left
(`cluster = "partial"`, objects of a step) is still there for the next one.
`created` counts `kind create` commands of a restart, up to one more than the
bound that is claimed.

### PostDiff and StateComparison

`queue` is the multiprocessing queue of the phase.  It is filled before the
processes start and the items are independent, so it is a set, and a get that
times out is a get on an empty queue.  A process may die of an exception anywhere.

What was in the namespace at a step (`StateOf`) and what a CR leads to on a fresh
cluster (`FreshState`) are constants; `Collect` is the runner's collection with its
grouping of pods, and `StepDiff` the code's comparison of two collected states with
the patterns to ignore.  These are the config's (`IgnoreFields`) and those learned from
the seed: `Differences` are `OneSided` paths (an object, or a field of one, that one side
does not have: DeepDiff's dictionary items) and `ChangedValues`, and `SeedPaths` takes of
the seed's differences the first only (`Listed`), because `get_diff_paths_helper` skips
the categories of a diff that are not lists.  A state is a set of objects whose names are
a fixed part and a random suffix; a path names kind, object and field, and a learned
pattern is a path with wildcards for some of its parts, found as `compute_common_regex`
finds it: it goes through the sorted paths that differ among the seed's runs (`Look`),
leaves out those that the last joined pattern matches, joins a path with the next one
when the third, of the same kind, fits too (`CanJoin`), and lets it stand alone otherwise.
`VerdictsAreReal` compares the verdicts with `Diverged`, the steps whose state
really depends on the CRs before, and `Unsteady`, those with a value that differs from
run to run and is not named in the configuration: nothing is learned about those, and
they fail their comparison each time.

### Acto

A worker thread takes test cases from `pending` as `TestCampaign` says, ends when
none is left, or dies; `thread_excepthook` only logs.  `Campaign` is the instance of
`TestCampaign` that all threads are together; a start of the process begins it anew.
`AnalyseAgain` adds the analysis to a context that was loaded (`--learn-analysis`), which
is then written over the file it came from.  `open(..., "w")` and
`json.dump` of the context are two steps, and the process can be killed between
any two.

### Chactos

A worker's `pc` follows `__run_steps_until_error` from the deployment to the oracle;
`steps` is the Python list that the loop and its caller share, keys of `trial.steps`
sorted as strings (`SortsBefore`).  `base` is the CR the cluster was at when a step is
sent.  A failure is a file in `.failures`, named by what it selects and therefore
shared by workers: opening empties it (`OpenFile`, `WriteFile`), and kubectl may be
given a file cut short (`InjectFails`).  `DeployFails` is the early return after
which `__run_trial` calls again, for ever if need be.  The chosen fault type is not
modelled: the driver knows one.

### Schemas, ValueTree and the test cases

A value is tagged with its JSON type; text is an atom, a pattern the set of strings
that match it, and what the code draws at random is the *set* of its outcomes, in
which `Raised` is an exception.  A schema is a record with its path, its raw
keywords and, by kind, properties, items or alternatives.  `Attaches`, `ValueAt`,
`Stored` and `Created` are `attach_schema_to_value`, `get_value_by_path`,
`set_value_by_path` and `create_path`: the schema of a node follows from its place,
so the tree of `ValueWithSchema` is the plain value next to the root schema.

A test case is a record whose functions are named by tuples (`<<"integer",
"change">>`, `<<"is", v>>`), interpreted by `Pre`, `To` and `Setup` against the
schema their closure holds.  `SemanticTests` lists the generators of Kubernetes
types with what each matches, and `TestGenerators` registers, sorts and calls them
as `get_testcases` does, then prunes as `generate_test_plan` does.  `K8sMatcher`
matches the CRD with the Kubernetes definitions; the similarity of texts that ranks
matches is a constant.

### Inputs

`phase` follows one generation of `run_trial`: the snapshot's CR is attached to its
schema, the precondition asked, the setup run and asked again, the test run, the
answer judged.  Which test is next is left open, so every order of the plan is
covered.  An exception takes the worker to `dead`, where its thread stops: the run
does not check for deadlock.  `TestsMakeAChange` is about tests whose mutator looks at
the value; those that put a literal (`is`) may put the one that is there, and
string-change draws a text, which may be the same (`Regardless`).  `input_model` holds the schema of
the CRD and its test cases, which the code makes before the first trial; it is a
function of `case` and never changes, so the run has a `VIEW` without it.

### Consistency

A CR is a value, the system state a function from the paths of leaves to values.
`Check` is `ConsistencyChecker.check`; `Dependers` and `Conditions` build the
conditions in the order of the search through the CRD, `NearestParent` looks one up
as `find_nearest_parent` does, `Matching` is the search for the longest common end
of two paths, `EqualsAfterTransform` the comparison.  The environment is an operator
that obeys, ignores, bungles or reports a change (`Obey`, `Ignore`, `Bungle`,
`Report`: the message of a condition, with the names and values of fields it
contains), where `Enabled` says what it may rightly not show.  A bungled
value of which the right one is a part (10 for 1, `db:22` for `db`) is accepted by
`input_is_substring_of_output`; `Contained` names that exception of
`FaultsAreReported`, and the run has such values and others.  What text contains
what (`Parts`), canonical quantities and names in snake case are constants.

## 3. Runs

| Run | Question | Bounds |
|---|---|---|
| `trial_runner` | the worker's safety properties, its end, and `TestCampaign` implemented | 5 test cases in groups of 3 and 2, 3 fields of 3 values, one xor constraint, 3 generations, 2 retries (the code's MaxRetry) |
| `trial_runner_recovery`, `trial_runner_two_step` | expected violations, section 7 | same |
| `converge` | the convergence wait, and what the health oracle says of a system it accepted | 2 calls, wait time 2, hard timeout 3, one waiting event per queue, 10 systems |
| `post_diff` | the differential test, its comparison, and what it learns from the seed | 2 processes, 3 inputs, 7 steps of 2 trials, objects of four kinds under one name |
| `deployment` | restart and deployment | the code's own retry counts (3), 4 steps of all kinds |
| `acto` | plan, threads, summary, context file | 3 properties with 6 test cases, chunks of 2, 2 workers, 2 starts |
| `inputs` | from the CRD to mutated CRs | 7 CRDs, trials of 2 generations, no check for deadlock (a thread that died has stopped) |
| `consistency` | the consistency oracle | 18 changes of 10 fields, trials of 3 generations |
| `consistency_nested` | expected violation | one switch inside another, 2 generations |
| `chactos` | fault injection | 2 workers, 3 trials of up to 5 steps, 2 pods, ratio 50 % |
| `chactos_order` | expected violation | 1 worker, 1 trial of 12 steps |

Why these bounds show the interesting cases.  Three generations are enough for the
seed, a generation, and one in which a setup, its test case and a revert run past
`num_mutation`; the groups make a trial end by exhaustion of a group, of the plan
and of the generations.  The test cases are one of two steps (`downUp`), one that
needs a setup at the boundary (`shrink`), one for either side of the constraint
(`toggle`, `expose`), and one whose setup never works (`unfit`).  Two calls of the
convergence wait are the least with a late message; a hard timeout that is not a
multiple of the wait time lets the timer fire in the middle of a get; the systems
are one at rest and those that differ from it in the one workload or Job a rule is
about, some with a second trait that only the health oracle looks at.  Two processes and three inputs make a process run two inputs while the other
is at any point; the two trials of `post_diff` share the seed and a CR, and one of
them arrives there in another state, which shows in a DaemonSet's pods alone, while the
other comes back to the seed's CR.  Objects of three kinds there share a name and a
noisy field, so that only the comparison of kinds keeps their paths from being joined
over the DaemonSet's, which say nothing at the seed.  Six
test cases (one pruned) in chunks of two give a short last chunk and one worker a
group more than the other.  The CRDs of `inputs` have a property of every kind of
schema, types of Kubernetes found by name, by structure and by hand, an encoded
configuration, pruning and focus fields, a configuration held as text or null, and what
lies at a boundary: a Boolean on by default, an object without properties, a full sample,
ranges and enums of one value, a step that leads a draw back to the default, text under
int-or-string, an integer under alternatives with an array; two generations, each with a setup, let a
test meet what another left, or deleted.  Three generations of `consistency` are a
section switched off, a change inside it, and the section switched on again.  The
trials of `chactos` have an invalid input, an alarm at the end, a missing result, and
a single step.

What is bounded in the model and not in the code: `Calls`, `MaxQueue` (events
waiting, the watch process waits beyond it), `MaxStarts`, `MaxGenerations` of
`Inputs` and `Consistency` (num_mutation is the code's own bound, but larger), and
the saturating clocks and counter.  Lists of generated values are cut to what the
schemas of the run allow (bits, two or three items, enums).

## 4. Fairness

- `TrialRunner`: the thread keeps running (`WF` on `Next`).  The code retries a
  failing deployment for ever, so the run assumes that it is not always the
  failing branch that is taken (`WF` on `StartTrial`); that the seed is accepted by
  the oracles in some trial (`SF` on `SeedPasses`); and that setups and test cases
  are not refused in every trial (`SF` on `Answered`).  Without the last three
  Acto runs trials for ever, and that is what the code does: they are assumptions
  about the cluster.
- `Converge`: the worker (its gets, readings and decisions as one thread of control),
  the timers and time progress.  Nothing is assumed of the system, which may never
  be healthy and never be quiet.
- `Deployment`: the worker progresses; `kind delete`, which the code repeats
  without a bound, succeeds at last (`SF` on `DeleteCluster`).
- `PostDiff`, `Acto`: each process or thread that can run does; the main process
  goes on when it can (`WF` on `PhaseEnds`).
- `Chactos`: each worker thread runs, and a deployment that is tried over and over
  works in the end (`SF` on `Deploy`), because `__run_trial` has no bound on it.
- `Inputs` and `Consistency` have safety properties only.

## 5. Proofs

`TrialRunner_proofs`.  `TypeOK` is not inductive: `Front`, `Last` and
`snaps[Len(snaps) - 1]` are defined only because of what the control point says of
the length of the snapshots (`SnapsInv`), and `Tail(plan[1])` because a test case
under way is the head of the first group (`HeadInv`).  `IInv` is their
conjunction; `TypeCorrect` and `RecoveryFindsSnapshot` follow.  On top of it:
`EveryTestOnce` by lemma `PlanStep` (a step leaves the plan alone, drops an
exhausted group, or pops a test case into one of the two sets);
`ConsumesWhatItRan`; `ImplementsCampaign` (each step is a step of `TestCampaign` or
a stutter); `SetupsWork` (the Store of a two-step test case is set before its
setup runs, any other precondition depends only on the input under way);
`StepFilesNumbered` with `FilesInv` and `GenerationInv` (how many files
and generations each `pc` and `step` allow); `BaseIsApplied` with `AppliedInv` (what
the API server holds while a revert is under way, whatever `check_kubectl_cli` made of
the answers).  `ConstraintsSatisfied` is that of
`ConstraintsHold`: `GoodInv` says that the input under way *and* those of all
snapshots satisfy the xor constraints, since a revert goes back to one of these, and
`SatisfyKeeps` that setting one property and solving once keeps them.  It assumes
`IndependentConstraints`: the seed satisfies the constraints, a test case sets a
constrained property to a Boolean, and no property is in two constraints or on both
sides of one.  The last is needed, not a convenience: every constraint is solved from
what the test case changed, so a property that one constraint sets does not set the
other side of a second constraint it is in, which is then broken.  The constants of
`trial_runner` satisfy the assumption.

`Deployment_proofs`.  `ClusterInv` (what the place says about the cluster),
`StepsInv` (the steps before `next` have their objects) and `BudgetInv` (creates
spent so far against the two counters) make `IInv`; its type invariant and the three of the run follow for
every deploy config and every retry count.

`TestPartition_proofs`.  No test case is in two shares, two groups or twice in a
group, every test case is in a share, no group is empty or longer than a chunk, and
no worker has two groups more than another, for every number of test cases, workers
and chunk size.  These are what `PartitionAssumption` of `TrialRunner` asks for, and
`PlanIsPartition` of `Acto` is made of.

`PostDiff_proofs`.  `PlaceInv` says what each place of a process holds (who has an
input), `FilesInv` that the result files of a worker are of generations it has
passed, `ClusterInv` how many CRs its cluster has run at each place;
`EveryInputOnce` and `RunsOnCleanCluster` follow.  For `ReportsComplete`, `JudgeInv` says
that what a process has left to compare and what is judged cover the steps of its
input, `QueueInv` that the results in the queue have not been looked at, `ReportInv`
that a report holds the failed steps of its input and no others, and `SettledInv`
that every other result is accounted for.  Nothing is assumed of the comparison, so
these theorems hold for whatever `StateComparison` says.

What the check learns is proved in two parts, for the paths it does learn (objects and
fields on one side only).  `EveryPathIsLearned` is about
`compute_common_regex` alone: for any finite set of paths, its patterns match every path
they were made from, and none reaches into another kind of resource.  The paths' sort is a
strict total order (`PathsInOrder`), so the sorted list has every path (`SortedFacts`);
`FoldExists` gives the patterns after each of them (`PatternsByTurns`); and at each turn
the last joined pattern is among those found, so a path it matches is covered
(`LookFacts`).  `LearnInv` is the other part: from the second phase on `ignored` is what
was learned from `Noise`, which is a finite set of such paths because the states hold
finitely many known objects (`StatesAssumption`, `FinitePaths`) and the seed has one result
at most (`EveryInputOnce`).  Together with `VerdictInv` they give `LearningIsSound`
for any states, with no assumption such as the next one.  No exception is needed for the
number of secrets: `NumberIsNotOneSided` says that its path is never among those
compared there.

`VerdictsAreReal` needs more.  `VerdictInv` separates what the processes do
from what states are like: once the first pool is joined, `ignored` is what the one
result of the seed teaches (`LearnedFromSeed`, from `EveryInputOnce`), it does not
change while it is used, and a judged step is among the failed just when its
comparison with the result of *its own* input fails.  `VerdictsHold` adds
`SeedTellsApart`, an assumption on the constants `StateOf`, `FreshState` and
`IgnoreFields` alone: the seed is not refused on a fresh cluster, and what is left of a
difference without the paths that the config names and those that come and go at the
seed is there just when the operator went another way, was missing, or the step has an
unsteady value.
Whether real states are so is a question to the operator under test; TLC has
evaluated the assumption, and `VerdictInv`, on the states of `post_diff`.

`Converge_proofs`.  `TimeoutInv` ties a message in a call's queue to that call's own
elapsed time, which gives `NoFalseTimeout` for any number of calls whose timers are
still to wake.  `QuietInv` bounds the wait by the time without an event, and
`VerdictInv` says that, unless something moved, the verdict of a reading under way is
that of the kinds asked so far.
`ConvergedIsQuiet` and `SettledEndsTheWait` add what the checks of all kinds say
together; in the first the proof needs more than the run shows: `check_health` compares
revisions only of StatefulSets, and looks at a stuck rollout only of Deployments and
DaemonSets.  `Legible` says that the systems have no others.  A DaemonSet in the
middle of a rolling update whose old pods are ready is not legible, and is taken
for converged (a hazard in `PROJECT.json`).  `SettledEndsTheWait` and
`ConvergedAlarms` need no such assumption.  The second compares the runner's checks with
the health oracle's own rules, kind by kind: where both ask, the second never ask for
more than the first, although they look at other fields.  `SettledAlarms` is about what
Kubernetes calls settled, and says exactly which of those systems the oracle reports: a
DaemonSet that wants no pod, a failed pod, a restart in a Deployment's pods, or a CR that
says "is forbidden".

`Acto_proofs`.  `FileInv` (the context file is half written only at `dump`, or after a
kill there, and a context that is to be analysed again was read whole) gives
`ContextIsComplete` for any number of starts.  `PlanInv` (from the
plan's making on, the shares are a partition of the kept test cases, `IsPlan`) gives
`PlanIsPartition`; that `GenerateTestPlan` establishes it follows from the theorems on `TestPartition`; the lists the plan is
made of are concatenations and filters, whose members and lengths `DataLemmas`
states.  For `SummaryAddsUp`, `AccountInv` says that each share is the disjoint union of
what its thread has still to take, has finished and has discarded; the counts are sums
over the workers, which for disjoint sets is the size of their union.
`ThreadsImplementOneCampaign` is a refinement: `AccountInv` and the partition make the
pending, finished and discarded test cases of all threads the three parts of one campaign
over the plan, a step of one thread is a step of the campaign, and planning, joining and
the death of a thread are stutters; only a start of the process begins a new one.
`EveryShareSuitsItsRunner` closes the circle with `TrialRunner`, whose assumption on its
plan (`PartitionAssumption`) each share satisfies.

`DataLemmas`.  The prover cannot instantiate the library's induction theorems, which
take an operator.  `SetInduction` states induction with a *set* of numbers in the
operator's place: a number that is not in it would be a least one, by the library's
`WFMin`.  `RecursionExists`, `ConcatFacts` and `FlattenFacts` follow from it (what a
loop that appends computes), so does `FoldExists` (the function that `FoldLeft` chooses
exists, whatever it folds with), and `DisjointUnion`, `SumOfCardinalities` and
`RankFacts` (a sort by rank lists each member once, in order).

`Chactos_proofs`.  The keys of a trial are sorted as strings; `SortsBefore` is shown to
be a strict total order on numbers of up to three digits, so that `StepKeys` lists
each step of a trial once.  `ChactosInv` says of the queue that it is the end of the
jobs (`QueueInv`) and of each worker (`WorkersInv`) that the steps it has left are the
last ones of its trial (`Rest`), that each before them was tested, is bad, or is the
first, and none after the head was tested (`Progress`; whether the head was depends on
the place); a trial taken by one worker is not with another, so no two can test the
same step.  `TypeCorrect` and `TransitionsOnce` follow for any trials, alarms and
restarts.  `FaultsOnTransitions` is false for them (section 7), so the
theorem is about `ShortTrials`, those in which the order of strings and of numbers
agree because they have at most ten; there the base of a step is the last good key
before it (`FromLastGood`).  `FilesCutShortByOthers` follows from `FilesInv`: what a worker
has opened or written is in that state still, unless another that selects the same pods has
opened it since and is still to write it, or died at it.

The proofs assume only the named `ASSUME`s on the constants (`StatesAssumption`: a test run
has finitely many steps, and a namespace finitely many objects of the kinds that are
collected), and where a theorem says
so `Legible`, `IndependentConstraints`, `SeedTellsApart` or `ShortTrials`; the constants
of the passing runs satisfy all of them.  Every safety property that the passing runs check of
`TrialRunner`, `Converge`, `Deployment`, `PostDiff`, `Acto` and `Chactos` is a theorem.
The type invariants of `TrialRunner` and `Deployment` are proved only; no run repeats them.
Left to TLC: every liveness property (and whatever needs `ENABLED`), and all
properties of `Inputs` (`TypeOK`, `OnlyThePathChanges`, `TestsMakeAChange`) and `Consistency` (`NoFalseAlarm`, `FaultsAreReported`).  These two, and the modules below them, are
written with RECURSIVE operators over schemas and values, which the prover does not
take; what they compute would need induction over trees of unknown depth.

## 6. Abstractions and what is left out

- In `TrialRunner`, oracle verdicts are replies with the constraints of `Replies`
  between them, and a CR has a few fields; `Inputs` has real CRs and leaves out the
  order of the plan and the retries.  Each field is in at most one constraint in the
  run: the code does not propagate along constraints that share a property, and
  neither does `Satisfy`.
- A worker thread that dies of an exception is an action of `Acto`, and of `Inputs`
  where a test case raises it; `TrialRunner`'s exceptions in the middle of a trial
  are not followed further.
- Custom runner hooks, custom checkers, reproduce mode and whitebox analysis (the
  conditions it adds to the oracle and the constraints it finds) are left out.
- `StateComparison` leaves out the diff of lists (`compare_func` pairs items whose
  names begin with the same five letters); DeepDiff itself is a library.
- `Inputs`: decoding and encoding a configuration keep the document; decoding of a
  text that is none, or of `null`, raises.  Schemas nest as deep as the CRDs of the run.
- Only Kind is modelled; `__main__` creates no other cluster.

Not modelled, because nothing calls it: `valuegenerator.py` and the generators and
test cases of `known_schemas`; `mutate` of `ValueWithSchema`; `apply_default_value`
and `check_field_has_default_value`; the Kubernetes datetime schema; `AdditionalRunner`
(`run_check_indeterministic` is always False); the network and file failures of
chactos, its `wait_for_converge`, and the fault injection runner.

Not modelled for other reasons: reproduction (it replays one trial through the worker
that is modelled; its own part is the order of file names), log parsing and result
collection (pure functions of files), the static analysis (a Go program whose result
is a list of paths), the image archive (a library's file lock), k3d and minikube.

## 7. What disagrees with the code's own words

With a run:

- `RecoveryComparesObserved` (`trial_runner_recovery`): `Snapshot.delta` pads the
  previous snapshot's empty state; recovery no longer skips it, and reports a
  differential alarm where nothing was collected to compare with.
- `SetupComesFirst` (`trial_runner_two_step`): the Store of k8s-scaleDownUp and
  k8s-scaleUpDown remembers that the precondition was asked for, not that the setup
  was run.  After a refused setup the test case runs in the next trial, on a fresh
  cluster, without its first step.  (`SetupMakesReady` is what does hold:
  `apply_testcase` never finds the precondition broken after a setup.)
- `NoFalseAlarm` (`consistency_nested`): a field inside two sections, each with an
  `enabled`, depends on the inner one only, so a change that the operator rightly
  ignores is an alarm.  With switches that are not nested it holds (`consistency`).
- `FaultsOnTransitions` (`chactos_order`): steps are sorted as strings; from the
  eleventh on, failures are injected on transitions the test run never made.

Met while modelling, without a run of their own:

- `deploy_with_retry` repeats `helm install` over the release of the round before
  (`deploy.py:159`); its result is dropped by `DeployRunner.run`
  (`post_diff_test.py:486`), which `VerdictsAreReal` takes into account.
- `input.py:473` stores the pruned test cases as the primitive ones.
- `check_health` of Deployments and of pods never accepts a Deployment scaled to
  zero or a completed Job's pods (`NeverHealthy`), whose siblings and the health oracle
  provide for them: such a wait always lasts the hard timeout.
- `check_state_equality` looks for `owner_reference` where the key is
  `owner_references`, and does not remove a Job's pods (`engine.py:161`).
- `collect_operator_log` counts one line too many (`runner.py:324`).
- `EnumTestCase` takes `primitive` and does not hand it on (`testcase.py:130`), so
  enum tests are not pruned for Kubernetes types.
- A failed apply whose message holds "unchanged" is taken for a CR that changes nothing
  (`result.py:179`, which looks at neither the return code nor the error first): it is
  not reverted, and the next generation mutates a CR the API server never stored.
  `BaseMatchesCluster` excepts it (`strayed`).
- A DaemonSet that wants no pod is healthy for the wait and an alarm for the health
  oracle, since Kubernetes leaves out a `number_available` of zero (`health.py:87`).
- `__get_diff_paths` means to learn "the indeterministic fields"
  (`post_diff_test.py:984-1004`), but `get_diff_paths_helper` skips what is not a list
  (line 1048), and only added and removed dictionary items are made lists
  (lines 246-272).  A value that changes from run to run is never learned, and fails each
  comparison unless the configuration or the built-in list names it.
- "if input is int, then we want exact match to avoid mapping 10 to 1000, 2 to 20"
  (`state_compare.py:62`), but an integer that does not match exactly falls through to
  the comparison of texts, and `test_state_compare.py:44-47` expects that.
- The seed's digest is that of a file whose CR is renamed before it is run
  (`post_diff_test.py:759`); `VerdictsAreReal` assumes that it was found.
- `__get_diff_paths` learns from every step that has the seed's CR, not only from
  those of generation 0 (`post_diff_test.py:984`): if a trial comes back to the seed's
  CR and finds another state, which is what the differential test is there to find, the
  difference is taken for noise, at that step and, in the same place, at all others.
  `NoiseIsSkipped` (in `LearnsTheNoiseOnly`) states the first; `SeedTellsApart` excludes both.
- Setups that cannot make their precondition hold, so that the worker discards the test
  case (seen in `inputs`): boolean-deletion of a Boolean whose default is true and
  object-deletion and object-empty of an object without properties (what is generated
  counts as empty), integer-deletion where the draw can be nothing but the default or
  zero (`multipleOf`, a range around zero), array-push where the sample is full
  (`primitive.py:114`).
- What raises, and ends the worker's thread (the phase `dead` in `inputs`): array-push
  and array-pop ask for the length of an integer under `anyOf` of both; integer-change
  adds 2 to a text under int-or-string (`primitive.py:501`); integer-deletion and
  string-deletion draw from nothing where a range has one value or an enum only its default;
  the tests of a configuration decode `null`.
- `PostProcessor` reads `context.json` from the seed's directory whatever the
  configuration says (`post_process.py:18`); an error of the learning run is
  reported by a line that raises (`engine.py:1081`).

## 8. Plan

Done: `TrialRunner`, `TestCampaign`, `TestPartition`, `Deployment`, and `Converge` with
`SystemHealth`, `PostDiff` with `StateComparison` and `Acto`, each with proofs; `Inputs` and
the modules below it; `Consistency` with `KnownSchemas`; `Chactos`.

Next, most important first:

1. Proofs: the lemmas of `Consistency` that do not go through a recursive operator
   (the comparison of values, `NearestParent`), in a module of their own that both the
   oracle and its proofs extend.
2. The recovery's comparison as an operator of `StateComparison`, and with it the
   verdict of `Recover` in `TrialRunner`.
3. Conditions found by the whitebox analysis in `Consistency`.
