-------------------------------- MODULE Chactos --------------------------------
(***************************************************************************)
(* Fault injection: the driver and its worker threads (chactos/            *)
(* fault_injections.py, chactos/failures).  A worker takes a trial of an   *)
(* earlier test run, deploys, runs the first step, and sends each further  *)
(* step while a failure is injected.  When an oracle reports something it  *)
(* starts over, on a new cluster, with the step that failed.               *)
(*                                                                         *)
(* Directories are numbered by sequence and generation and only written;   *)
(* they are left out, as is every wait.                                    *)
(***************************************************************************)
EXTENDS Integers, FiniteSets, FiniteSetsExt, SequencesExt

CONSTANTS
  Workers,          \* worker threads
  Jobs,             \* the work queue: records [last, bad, missing] of trials
  PriorityPods,     \* pods with the priority selector's labels
  NormalPods,       \* pods with the application selector's labels
  FailureRatio      \* pod_failure_ratio, in percent

ASSUME ChactosAssumption ==
  /\ Jobs \in Seq([last : 0 .. 999, bad : SUBSET (0 .. 999), missing : SUBSET (0 .. 999)])
  /\ \A i \in DOMAIN Jobs :
       /\ Jobs[i].bad \cup Jobs[i].missing \subseteq 0 .. Jobs[i].last
       /\ Jobs[i].missing # 0 .. Jobs[i].last
  /\ IsFiniteSet(PriorityPods \cup NormalPods)
  /\ FailureRatio \in 0 .. 100

\* The keys of trial.steps: a step without its result file is not loaded.
Loaded(trial) == (0 .. trial.last) \ trial.missing

\* Keys are strings, so they are sorted by their digits, from the left.
Digits(n) ==
  IF n < 10 THEN <<n>>
  ELSE IF n < 100 THEN <<n \div 10, n % 10>>
  ELSE <<n \div 100, (n \div 10) % 10, n % 10>>

SortsBefore(m, n) ==
  LET s == Digits(m) t == Digits(n) IN
  \/ IsStrictPrefix(s, t)
  \/ \E i \in DOMAIN s \cap DOMAIN t :
       s[i] < t[i] /\ SubSeq(s, 1, i - 1) = SubSeq(t, 1, i - 1)

StepKeys(trial) ==
  LET keys == Loaded(trial) IN
  [i \in 1 .. Cardinality(keys) |->
     CHOOSE k \in keys : Cardinality({j \in keys : SortsBefore(j, k)}) = i - 1]

\* The pods that may be chosen to fail: priority pods first.
NumToFail(total) == (total * FailureRatio + 99) \div 100

SelectPods(priority, normal, number) ==
  {pods \in SUBSET (priority \cup normal) :
     /\ Cardinality(pods) = number
     /\ priority \subseteq pods \/ pods \subseteq priority}

VARIABLES
  queue,    \* jobs not taken yet, in order
  worker,   \* of each worker: where it is, and what it holds
  files,    \* .failures/: the failures' manifests, named by the pods they select
  tested    \* <<job, step>>: steps that were sent under a failure

vars == <<queue, worker, files, tested>>

Idle == [pc |-> "idle", job |-> 0, steps |-> << >>, base |-> -1,
         failure |-> {}, steady |-> TRUE]

Init ==
  /\ queue = [i \in DOMAIN Jobs |-> i]
  /\ worker = [w \in Workers |-> Idle]
  /\ files = [pods \in SUBSET (PriorityPods \cup NormalPods) |-> "absent"]
  /\ tested = {}

At(w, pc) == worker[w].pc = pc
Go(w, pc) == worker' = [worker EXCEPT ![w].pc = pc]
Trial(w) == Jobs[worker[w].job]
Step(w) == Head(worker[w].steps)

Take(w) ==
  /\ At(w, "idle") /\ queue # << >>
  /\ queue' = Tail(queue)
  /\ worker' = [worker EXCEPT ![w] =
       [Idle EXCEPT !.pc = "deploy", !.job = Head(queue), !.steps = StepKeys(Jobs[Head(queue)])]]
  /\ UNCHANGED <<files, tested>>

Stop(w) ==
  /\ At(w, "idle") /\ queue = << >>
  /\ Go(w, "done") /\ UNCHANGED <<queue, files, tested>>

\* A fresh cluster with the operator.
Deploy(w) ==
  /\ At(w, "deploy")
  /\ Go(w, "install") /\ UNCHANGED <<queue, files, tested>>

\* __run_steps_until_error returns early, and __run_trial calls it again.
DeployFails(w) ==
  /\ At(w, "deploy")
  /\ UNCHANGED vars

\* Chaos Mesh; a third failure raises.
Install(w) ==
  /\ At(w, "install")
  /\ Go(w, "initial") /\ UNCHANGED <<queue, files, tested>>

\* The first of the steps, whatever its result was, without a failure.
PopLast(steps) == Front(steps)
KeepInitial(steps) == steps
PopInitial(steps) == Tail(steps)
RunInitial(w) ==
  /\ At(w, "initial")
  /\ worker' = [worker EXCEPT ![w].pc = "loop", ![w].base = Step(w), ![w].steps = PopInitial(@)]
  /\ UNCHANGED <<queue, files, tested>>

\* Steps that were invalid or raised an alarm are not sent.
SkipNext(trial, step) == step \in trial.bad \/ step - 1 \in trial.bad
IsSkipped(trial, step) == step \in trial.bad
Skip(w) ==
  /\ At(w, "loop") /\ worker[w].steps # << >> /\ IsSkipped(Trial(w), Step(w))
  /\ worker' = [worker EXCEPT ![w].steps = Tail(@)]
  /\ UNCHANGED <<queue, files, tested>>

\* Both loops end: no step is left.
FinishTrial(w) ==
  /\ At(w, "loop") /\ worker[w].steps = << >>
  /\ Go(w, "idle") /\ UNCHANGED <<queue, files, tested>>

\* Choose among the pods there are now.
BuildFailure(w) ==
  /\ At(w, "loop") /\ worker[w].steps # << >> /\ ~IsSkipped(Trial(w), Step(w))
  /\ \E running \in SUBSET (PriorityPods \cup NormalPods) :
       \E pods \in SelectPods(PriorityPods \cap running, NormalPods \cap running,
                              NumToFail(Cardinality(running))) :
         worker' = [worker EXCEPT ![w].pc = "open", ![w].failure = pods, ![w].steady = TRUE]
  /\ UNCHANGED <<queue, files, tested>>

\* Failure.apply: write the manifest, which opening the file empties first, and
\* have kubectl read it.
OneFile(w) == {}
FailureFile(w) == worker[w].failure

OpenFile(w) ==
  /\ At(w, "open")
  /\ files' = [files EXCEPT ![FailureFile(w)] = "partial"]
  /\ Go(w, "write") /\ UNCHANGED <<queue, tested>>

WriteFile(w) ==
  /\ At(w, "write")
  /\ files' = [files EXCEPT ![FailureFile(w)] = "whole"]
  /\ Go(w, "inject") /\ UNCHANGED <<queue, tested>>

\* A failure that is not in place in time is a warning.
Inject(w) ==
  /\ At(w, "inject") /\ files[FailureFile(w)] = "whole"
  /\ Go(w, IF worker[w].steady THEN "lift" ELSE "send")
  /\ UNCHANGED <<queue, files, tested>>

InjectFails(w) ==
  /\ At(w, "inject") /\ files[FailureFile(w)] # "whole"
  /\ Go(w, "dead") /\ UNCHANGED <<queue, files, tested>>

\* Policy 2: the step's CR, under the failure.
Send(w) ==
  /\ At(w, "send")
  /\ worker' = [worker EXCEPT ![w].pc = "lift", ![w].base = Step(w)]
  /\ tested' = tested \cup {<<worker[w].job, Step(w)>>}
  /\ UNCHANGED <<queue, files>>

\* cleanup: a failure that cannot be deleted is an error message.  Policy 1, a
\* failure on the steady state, ends here: its result is written, and the
\* failure injected again.
Lift(w) ==
  /\ At(w, "lift")
  /\ worker' = IF worker[w].steady
               THEN [worker EXCEPT ![w].pc = "open", ![w].steady = FALSE]
               ELSE [worker EXCEPT ![w].pc = "judge"]
  /\ UNCHANGED <<queue, files, tested>>

\* The step's state is that of the original run, and healthy.
Recovered(w) ==
  /\ At(w, "judge")
  /\ worker' = [worker EXCEPT ![w].pc = "loop", ![w].steps = Tail(@)]
  /\ UNCHANGED <<queue, files, tested>>

\* Leave the loop with the step still at the head.
PopAfterAlarm(steps) == Tail(steps)
AfterAlarm(steps) == steps
Alarm(w) ==
  /\ At(w, "judge")
  /\ worker' = [worker EXCEPT ![w].pc = "deploy", ![w].steps = AfterAlarm(@)]
  /\ UNCHANGED <<queue, files, tested>>

\* Anything raised ends the thread, and the trial it holds with it.
Die(w) ==
  /\ ~ \E pc \in {"idle", "done", "dead"} : At(w, pc)
  /\ Go(w, "dead") /\ UNCHANGED <<queue, files, tested>>

Worker(w) ==
  \/ Take(w) \/ Stop(w) \/ Deploy(w) \/ Install(w) \/ RunInitial(w)
  \/ Skip(w) \/ FinishTrial(w) \/ BuildFailure(w)
  \/ OpenFile(w) \/ WriteFile(w) \/ Inject(w) \/ InjectFails(w)
  \/ Send(w) \/ Lift(w) \/ Recovered(w) \/ Alarm(w)

Terminated == \A w \in Workers : worker[w].pc \in {"done", "dead"}

Next ==
  \/ \E w \in Workers : Worker(w) \/ DeployFails(w) \/ Die(w)
  \/ Terminated /\ UNCHANGED vars

\* The threads run, and a deployment that is tried for ever works in the end.
Fairness == \A w \in Workers : WF_vars(Worker(w)) /\ SF_vars(Deploy(w))
Spec == Init /\ [][Next]_vars /\ Fairness

-----------------------------------------------------------------------------
(* Properties *)

\* What a worker has left of its trial is the end of the trial's steps in their
\* order, and no more pods are made to fail than the ratio allows.
TypeOK ==
  /\ queue = SubSeq([i \in DOMAIN Jobs |-> i], Len(Jobs) - Len(queue) + 1, Len(Jobs))
  /\ \A w \in Workers :
       /\ worker[w].job \in DOMAIN Jobs => IsSuffix(worker[w].steps, StepKeys(Trial(w)))
       /\ worker[w].failure \subseteq PriorityPods \cup NormalPods
       /\ Cardinality(worker[w].failure) <= NumToFail(Cardinality(PriorityPods \cup NormalPods))
  /\ \A pods \in DOMAIN files : files[pods] \in {"absent", "partial", "whole"}

\* The step that came before a step in its trial, among those that were good;
\* the first step always counts.
Predecessor(trial, step) ==
  Max({Min(Loaded(trial))} \cup {k \in Loaded(trial) \ trial.bad : k < step})

\* ChactosTrialWorker.run: "empty -> m1 -> m2 -> m3 -> m4" becomes
\* "empty -> m1 -> m2 -> m3, empty -> m3 -> m4 if m2 -> m3 fails": a step is sent
\* under a failure from the state the step before it left, in every sequence,
\* so that an alarm is about the same transition as in the test run.
FaultsOnTransitions ==
  \A w \in Workers : At(w, "send") => worker[w].base = Predecessor(Trial(w), Step(w))

\* The steps to be sent under a failure: all good ones but the one that is run first.
ToTest(i) ==
  {<<i, k>> : k \in Loaded(Jobs[i]) \ (Jobs[i].bad \cup {Head(StepKeys(Jobs[i]))})}

\* However often a trial is started over, no step is sent under a failure twice,
\* and when it is over none has been left out.
EveryTransitionOnce ==
  \A w \in Workers :
    /\ At(w, "send") => <<worker[w].job, Step(w)>> \notin tested
    /\ At(w, "idle") /\ worker[w].job # 0 => ToTest(worker[w].job) \subseteq tested

\* A failure's file is named by what it selects (PodFailure.name), and all
\* workers write to one directory: a worker that wrote its manifest finds it cut
\* short only when another is rewriting the one for the same pods, or died at it.
CutShortByAnother ==
  \A w \in Workers :
    At(w, "inject") /\ files[FailureFile(w)] # "whole" =>
      \E v \in Workers \ {w} :
        worker[v].pc \in {"write", "dead"} /\ worker[v].failure = worker[w].failure

\* The driver's joins return.
WorkersFinish == <>Terminated
=============================================================================
