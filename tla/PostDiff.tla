------------------------------ MODULE PostDiff ------------------------------
(***************************************************************************)
(* The differential test that follows a test run                           *)
(* (acto/post_process/post_diff_test.py, class PostDiffTest).  Every       *)
(* distinct CR of the test run is applied to a cluster of its own by a     *)
(* pool of DeployRunner processes (post_process), and the state it leads   *)
(* to is compared with what the steps of the test run saw, by a second     *)
(* pool (check).  Each pool shares a multiprocessing.Queue that is filled  *)
(* before the processes start; the order of its items means nothing to     *)
(* them, so it is a set.  A process can die of an exception at any point.  *)
(***************************************************************************)
EXTENDS SystemHealth, StateComparison

CONSTANTS
  Steps,       \* the steps of the trials of the test run
  Inputs,      \* the distinct CRs, known by their digest
  InputOf,     \* step.snapshot.input_cr
  SeedSteps,   \* the steps of generation 0
  Rejected,    \* steps whose cli_status is INVALID
  Invalid,     \* steps for which is_invalid_input() holds
  HealthAlarmed, \* steps that the health oracle has reported
  LogInvalid,  \* steps whose operator log has a message of invalid input
  RefusedAgain, \* inputs that the API server may refuse on a fresh cluster
  SeedDigest,  \* the digest of the seed file as it is, NoInput if no input has it
  StateOf(_),  \* what was in the namespace at a step of the test run
  FreshState(_, _), \* what an input leads to on a cluster of its own, with the
                    \* operator or without
  SystemOf(_), \* ... and its workloads, as the health oracle sees them
  IgnoreFields, \* config.diff_ignore_fields, as patterns; {} when it is None
  Diverged,    \* steps whose state depends on the CRs before it (history)
  Unsteady,    \* steps with a value that differs from run to run and is neither
               \* in IgnoreFields nor in the built-in list (history)
  Workers,     \* range(num_workers)
  NoInput

ASSUME StepsAssumption ==
  /\ InputOf \in [Steps -> Inputs]
  /\ SeedSteps \subseteq Steps
  /\ Rejected \subseteq Invalid /\ Invalid \subseteq Steps
  /\ HealthAlarmed \cup LogInvalid \cup Diverged \cup Unsteady \subseteq Steps
  /\ RefusedAgain \subseteq Inputs
  /\ NoInput \notin Inputs

ASSUME StatesAssumption ==
  /\ IsFiniteSet(Steps)
  /\ \A s \in Steps : IsNamespace(StateOf(s))
  /\ \A i \in Inputs, operator \in BOOLEAN : IsNamespace(FreshState(i, operator))

\* PostDiffTest.__init__ leaves out the inputs found to be invalid, except
\* those that the API server rejected, and groups the rest by digest.
Grouped == {s \in Steps : s \in Invalid => s \in Rejected}
Originals(i) == {s \in Grouped : InputOf[s] = i}
UniqueInputs == {i \in Inputs : Originals(i) # {}}

VARIABLES
  phase,     \* post_process ("run"), check ("check"), then "done"
  queue,     \* the workqueue of the phase
  proc,      \* what each process of the phase is doing
  input,     \* the input the process took from the queue
  gen,       \* DeployRunner.run's generation
  cluster,   \* the worker's cluster: is the operator there, how many CRs ran
  difftest,  \* trial-<worker>/difftest-<generation>.json
  ignored,   \* config.diff_ignore_fields, with what was learned from the seed
  todo,      \* originals the process has still to compare
  errs,      \* group_errs
  compare,   \* compare-results-<digest>.json
  judged,    \* history: steps that were compared
  failed,    \* history: steps whose comparison failed
  lost       \* history: inputs lost with a process, or never taken, per phase

runVars   == <<gen, cluster, difftest>>
checkVars == <<ignored, todo, errs, compare, judged, failed>>
vars == <<phase, queue, proc, input, lost, runVars, checkVars>>

NoCluster == [operator |-> FALSE, runs |-> 0]

Init ==
  /\ phase = "run"
  /\ queue = UniqueInputs
  /\ proc = [w \in Workers |-> "boot"]
  /\ input = [w \in Workers |-> NoInput]
  /\ gen = [w \in Workers |-> 0]
  /\ cluster = [w \in Workers |-> NoCluster]
  /\ difftest = << >>
  /\ ignored = IgnoreFields
  /\ todo = [w \in Workers |-> {}]
  /\ errs = [w \in Workers |-> {}]
  /\ compare = << >>
  /\ judged = {}
  /\ failed = {}
  /\ lost = [run |-> {}, check |-> {}]

At(w, where) == proc[w] = where
Go(w, where) == proc' = [proc EXCEPT ![w] = where]

-----------------------------------------------------------------------------
(* DeployRunner.run *)

\* restart_cluster and deploy_with_retry, whose result is ignored.
FreshCluster(w) ==
  \E deployed \in BOOLEAN :
    cluster' = [cluster EXCEPT ![w] = [operator |-> deployed, runs |-> 0]]

Boot(w) ==
  /\ At(w, "boot")
  /\ FreshCluster(w)
  /\ Go(w, "get")
  /\ UNCHANGED <<lost, phase, queue, input, gen, difftest, checkVars>>

\* The originals of an input that are compared: gen == 0 is not.
ToCompare(i) == Originals(i) \ SeedSteps

Take(w) ==
  /\ At(w, "get")
  /\ \E item \in queue :
       /\ queue' = queue \ {item}
       /\ IF phase = "run"
          THEN /\ input' = [input EXCEPT ![w] = item]
               /\ Go(w, "run")
               /\ UNCHANGED todo
          ELSE /\ input' = [input EXCEPT ![w] = difftest[item].input]
               /\ todo' = [todo EXCEPT ![w] = ToCompare(difftest[item].input)]
               /\ Go(w, "judge")
  /\ UNCHANGED <<lost, phase, runVars, ignored, errs, compare, judged, failed>>

\* Mutant: get blocks for ever, only the last process alive notices the end.
ExitWhenAlone(w) ==
  /\ At(w, "get")
  /\ \A v \in Workers \ {w} : proc[v] \in {"exited", "dead"}
  /\ queue = {}
  /\ Go(w, "exited")
  /\ UNCHANGED <<lost, phase, queue, input, runVars, checkVars>>

\* queue.Empty after five seconds.
Exit(w) ==
  /\ At(w, "get")
  /\ queue = {}
  /\ Go(w, "exited")
  /\ UNCHANGED <<lost, phase, queue, input, runVars, checkVars>>

\* runner.run(cr)
RunInput(w) ==
  /\ At(w, "run")
  /\ cluster' = [cluster EXCEPT ![w].runs = @ + 1]
  /\ Go(w, "record")
  /\ UNCHANGED <<lost, phase, queue, input, gen, difftest, checkVars>>

DiffTestFile(w) == <<w, gen[w]>>

\* Mutant: restart only after an error, as the variable err suggests.
RestartOnError(w) == \E err \in BOOLEAN : Go(w, IF err THEN "reboot" ELSE "next")

\* err = True
RestartAlways(w) == Go(w, "reboot")

\* DiffTestResult.to_file
Record(w) ==
  /\ At(w, "record")
  /\ \E refused \in BOOLEAN :
       /\ refused => input[w] \in RefusedAgain
       /\ difftest' = [f \in DOMAIN difftest \cup {DiffTestFile(w)} |->
                         IF f = DiffTestFile(w)
                         THEN [input |-> input[w], operator |-> cluster[w].operator,
                               runs |-> cluster[w].runs, stderr |-> refused]
                         ELSE difftest[f]]
  /\ input' = [input EXCEPT ![w] = NoInput]
  /\ RestartAlways(w)
  /\ UNCHANGED <<lost, phase, queue, gen, cluster, checkVars>>

Reboot(w) ==
  /\ At(w, "reboot")
  /\ FreshCluster(w)
  /\ Go(w, "next")
  /\ UNCHANGED <<lost, phase, queue, input, gen, difftest, checkVars>>

\* Mutant: every file of a worker is called difftest-000.
SameGeneration(w) == UNCHANGED gen

AdvanceGeneration(w) == gen' = [gen EXCEPT ![w] = @ + 1]

NextInput(w) ==
  /\ At(w, "next")
  /\ AdvanceGeneration(w)
  /\ Go(w, "get")
  /\ UNCHANGED <<lost, phase, queue, input, cluster, difftest, checkVars>>

-----------------------------------------------------------------------------
(* PostDiffTest.check_diff_test_step *)

Collected(result) ==
  IF result.stderr THEN NotCollected ELSE Collect(FreshState(result.input, result.operator))

\* The paths of the differential oracle's result, {} when it does not speak.
StepDiff(result, s) ==
  IF s \in HealthAlarmed \/ result.stderr \/ s \in Rejected \cup LogInvalid THEN {}
  ELSE SystemDiff(Collected(result), Collect(StateOf(s)), ignored)

\* An input that was rejected in the test run and is accepted on a fresh cluster
\* is judged by the health oracle alone.
RejectedFails(result, s) ==
  /\ s \in Rejected \ HealthAlarmed
  /\ ~result.stderr
  /\ result.operator /\ HealthAlarm(SystemOf(result.input))

StepFails(result, s) == StepDiff(result, s) # {} \/ RejectedFails(result, s)

\* Mutant: the paths of all categories of the diff.
AllOf(result, s) == StepDiff(result, s)

\* get_diff_paths_helper takes the categories of the diff that are lists: those
\* that postprocess_deepdiff has made lists, dictionary_item_removed and
\* dictionary_item_added.  A value that changed is not learned, nor is a different
\* number of secrets.
Listed(result, s) ==
  StepDiff(result, s) \cap OneSided(Collect(StateOf(s)), Collected(result))

\* __get_diff_paths: what the seed's run or a step of the test run that had the
\* same CR has, and not the other, is taken to be nondeterministic.
SeedResults == {r \in {difftest[f] : f \in DOMAIN difftest} : r.input = SeedDigest}
SeedPaths == UNION {Listed(r, s) : r \in SeedResults, s \in Originals(SeedDigest)}

-----------------------------------------------------------------------------
(* PostDiffTest.check_diff_test_result *)

ResultOf(i) == CHOOSE r \in {difftest[f] : f \in DOMAIN difftest} : r.input = i

Judge(w) ==
  /\ At(w, "judge")
  /\ \E s \in todo[w] :
       LET fails == StepFails(ResultOf(input[w]), s) IN
       /\ todo' = [todo EXCEPT ![w] = @ \ {s}]
       /\ judged' = judged \cup {s}
       /\ errs' = IF fails THEN [errs EXCEPT ![w] = @ \cup {s}] ELSE errs
       /\ failed' = IF fails THEN failed \cup {s} ELSE failed
  /\ UNCHANGED <<lost, phase, queue, proc, input, runVars, ignored, compare>>

\* Mutant: group_errs is not emptied for the next group.
KeepErrs(w) == UNCHANGED errs

ResetErrs(w) == errs' = [errs EXCEPT ![w] = {}]

ReportFile(w) == input[w]

WriteReport(w) ==
  /\ At(w, "judge")
  /\ todo[w] = {}
  /\ compare' = IF errs[w] = {} THEN compare
                ELSE [i \in DOMAIN compare \cup {ReportFile(w)} |->
                        IF i = ReportFile(w) THEN errs[w] ELSE compare[i]]
  /\ ResetErrs(w)
  /\ input' = [input EXCEPT ![w] = NoInput]
  /\ Go(w, "get")
  /\ UNCHANGED <<lost, phase, queue, runVars, ignored, todo, judged, failed>>

-----------------------------------------------------------------------------
(* Failures and the main process. *)

HoldsItem(w) == input[w] # NoInput

\* An uncaught exception ends the process; the item it took is gone with it.
Die(w) ==
  /\ proc[w] \notin {"exited", "dead"}
  /\ Go(w, "dead")
  /\ lost' = [lost EXCEPT ![phase] =
                IF HoldsItem(w) THEN @ \cup {input[w]} ELSE @]
  /\ UNCHANGED <<phase, queue, input, runVars, checkVars>>

\* p.join() returns however the process ended.
Joined == \A w \in Workers : proc[w] \in {"exited", "dead"}

\* check lists the result files, queues them, learns from the seed's and starts
\* processes of its own.
StartCheck ==
  /\ phase = "run"
  /\ Joined
  /\ phase' = "check"
  /\ lost' = [lost EXCEPT !.run = @ \cup queue]
  /\ queue' = DOMAIN difftest
  /\ proc' = [w \in Workers |-> "get"]
  /\ input' = [w \in Workers |-> NoInput]
  /\ gen' = [w \in Workers |-> 0]
  /\ cluster' = [w \in Workers |-> NoCluster]
  /\ ignored' = ignored \cup CommonPatterns(SeedPaths)
  /\ UNCHANGED <<difftest, todo, errs, compare, judged, failed>>

Finish ==
  /\ phase = "check"
  /\ Joined
  /\ phase' = "done"
  /\ lost' = [lost EXCEPT !.check = @ \cup {difftest[f].input : f \in queue}]
  /\ UNCHANGED <<queue, proc, input, runVars, checkVars>>

Terminated == phase = "done" /\ UNCHANGED vars

Worker(w) == \/ Boot(w) \/ Take(w) \/ Exit(w)
             \/ RunInput(w) \/ Record(w) \/ Reboot(w) \/ NextInput(w)
             \/ Judge(w) \/ WriteReport(w)

Next ==
  \/ \E w \in Workers : Worker(w) \/ Die(w)
  \/ StartCheck
  \/ Finish
  \/ Terminated

Spec == Init /\ [][Next]_vars

\* What StartCheck and Finish do to the phase.
PhaseEnds ==
  Joined /\ \/ phase = "run" /\ phase' = "check"
            \/ phase = "check" /\ phase' = "done"

\* Every process that can run does run; so does the main process.
FairSpec == /\ Spec
            /\ \A w \in Workers : WF_vars(Worker(w))
            /\ WF_phase(PhaseEnds)

-----------------------------------------------------------------------------
(* Properties. *)

Recorded == {difftest[f].input : f \in DOMAIN difftest}
Live == {w \in Workers : proc[w] # "dead"}
InHand == IF phase = "run" THEN {input[w] : w \in Live} \ {NoInput} ELSE {}
Waiting == IF phase = "run" THEN queue ELSE {}

\* Each distinct input is in exactly one place: waiting, with one process, in
\* one result file, or lost with a process that died.  Processes that take,
\* run, record and restart at different speeds neither run an input twice nor
\* overwrite the file of another one.
EveryInputOnce ==
  /\ UniqueInputs = Waiting \cup InHand \cup Recorded \cup lost.run
  /\ Waiting \cap (InHand \cup Recorded \cup lost.run) = {}
  /\ InHand \cap (Recorded \cup lost.run) = {}
  /\ Recorded \cap lost.run = {}
  /\ \A f, g \in DOMAIN difftest : difftest[f].input = difftest[g].input => f = g
  /\ phase = "run" => \A v, w \in Live :
       (v # w /\ input[v] = input[w]) => input[v] = NoInput

\* An input is run on a cluster that no other input has touched: what the
\* comparison sees is the effect of this CR alone.
RunsOnCleanCluster == \A f \in DOMAIN difftest : difftest[f].runs = 1

\* A comparison that failed is in the report of its own input, next to the
\* others of that input, unless the process died before it wrote the report.
ReportsComplete ==
  /\ \A i \in DOMAIN compare : compare[i] = failed \cap Originals(i)
  /\ phase = "done" =>
       \A i \in Recorded \ lost.check :
         /\ ToCompare(i) \subseteq judged
         /\ failed \cap Originals(i) # {} => i \in DOMAIN compare

\* The seed was run, with the operator, and a result has the digest of the seed
\* file (the CRs that were run are what the schema made of that file, and need not).
HasLearned == \E r \in SeedResults : r.operator

\* A comparison of two collected states fails when the operator went another way
\* in the test run, or was not there at all in the differential test, and never
\* because of names that differ from run to run, nor of objects and fields that
\* are there in some runs only.  The exception: a value that differs from run to
\* run and that the config does not name fails it every time, at the seed too.
VerdictsAreReal ==
  HasLearned =>
    \A i \in Recorded : \A s \in (judged \cap Originals(i)) \ Rejected :
      LET r == ResultOf(i)
          silent == s \in HealthAlarmed \cup LogInvalid \/ r.stderr
      IN  (s \in failed) <=> ~silent /\ (s \in Diverged \cup Unsteady \/ ~r.operator)

\* An object or a field that was on one side only at the seed is covered by a
\* pattern, however the paths were joined: a later step with the seed's CR is
\* never found to differ in one.  __get_diff_paths takes all steps with that CR to
\* be alike, not only the first of each trial.
NoiseIsSkipped ==
  \A s \in judged \cap Originals(SeedDigest) : Listed(ResultOf(SeedDigest), s) = {}

\* The kinds of which an object, or a field of one, was on one side only at the
\* seed, whatever values changed.
LoudAtSeed ==
  {p[1] : p \in UNION {SystemDiff(Collected(r), Collect(StateOf(s)), IgnoreFields)
                         \cap OneSided(Collect(StateOf(s)), Collected(r)) :
                       r \in SeedResults, s \in Originals(SeedDigest)}}

\* compute_common_regex gives up "to avoid a wildcard regex" across kinds: a
\* difference in a kind of resource that was quiet at the seed is always reported
\* (if the config does not name it), whatever was learned from the others.
QuietKindsSpeak ==
  LET loud == LoudAtSeed IN
  \A i \in Recorded :
    \A s \in (judged \cap Originals(i)) \ (HealthAlarmed \cup Rejected \cup LogInvalid \cup failed) :
      \A p \in SystemDiff(Collected(ResultOf(i)), Collect(StateOf(s)), IgnoreFields) :
        p[1] \in loud

\* What the check has learned covers all that comes and goes at the seed, and takes
\* no kind of resource from the comparison in which nothing did.
LearnsTheNoiseOnly == NoiseIsSkipped /\ QuietKindsSpeak

\* Both pools come to their end, however many of their processes die.
PostDiffEnds == <>(phase = "done")
=============================================================================
