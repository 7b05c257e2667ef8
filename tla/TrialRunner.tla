----------------------------- MODULE TrialRunner -----------------------------
(***************************************************************************)
(* One worker of Acto (acto/engine.py, class TrialRunner): it drains its   *)
(* share of the test plan in a series of trials.  A trial starts from a    *)
(* fresh cluster and a seed CR and runs up to NumMutation generations; a   *)
(* generation takes the next test case, runs its setup when the            *)
(* precondition fails, applies the mutated CR, waits, lets the oracles     *)
(* judge the system and decides what the next generation starts from.      *)
(*                                                                         *)
(* The Kubernetes cluster and the operator under test are the environment: *)
(* Replies is everything `kubectl apply` followed by the oracles can say.  *)
(***************************************************************************)
EXTENDS Integers, Sequences, SequencesExt

CONSTANTS
  Tests,        \* the test cases of this worker
  Partition,    \* normal_test_plan_partitioned[worker_id]: a sequence of groups
  Fields,       \* properties of the CR
  Values,       \* values of a property
  FieldOf,      \* the property a test case is about
  Accepts,      \* TestCase.preconditions: values on which the test can run
  TwoStep,      \* test cases with a Store: their precondition fails once, and
                \* holds for ever after
  MutateTo,     \* TestCase.mutator
  SetupTo,      \* TestCase.setup
  Constraints,  \* operator_config.constraints: the xor of two properties each
  Negate,       \* `not`, on those of the values that are Booleans
  Seed,         \* the seed CR
  NumMutation,  \* run_trial's num_mutation (10 in the code)
  MaxRetry,     \* run_and_check gives up when retry > MaxRetry (2 in the code)
  NoTest, NoInput, NoReply

Input == [Fields -> Values]

TestsOf(p) == UNION {Range(p[i]) : i \in DOMAIN p}

ASSUME TestsAssumption ==
  /\ FieldOf  \in [Tests -> Fields]
  /\ Accepts  \in [Tests -> SUBSET Values]
  /\ TwoStep \subseteq Tests
  /\ MutateTo \in [Tests -> [Values -> Values]]
  /\ SetupTo  \in [Tests -> [Values -> Values]]
  /\ Constraints \in Seq([left : Fields, right : Fields])
  /\ DOMAIN Negate \subseteq Values
  /\ Negate \in [DOMAIN Negate -> DOMAIN Negate]
  /\ Seed \in Input
  /\ NoTest \notin Tests
  /\ NoInput \notin Input

ASSUME BoundsAssumption ==
  /\ NumMutation \in Nat \ {0}
  /\ MaxRetry \in Nat

\* generate_test_plan puts every test case in exactly one group of one worker.
ASSUME PartitionAssumption ==
  /\ Partition \in Seq(Seq(Tests))
  /\ \A i, j \in DOMAIN Partition : \A k \in DOMAIN Partition[i] :
       \A l \in DOMAIN Partition[j] :
         Partition[i][k] = Partition[j][l] => i = j /\ k = l

-----------------------------------------------------------------------------
(* What one `kubectl apply` and the oracles can answer. *)

CliStatus == {"INVALID", "UNCHANGED", "CONNECTION_REFUSED", "PASS"}

\* accepted: kubectl returned 0, the API server stored the CR.
\* seen:     the snapshot holds a non-empty system state.
\* fatal:    the crash, health or custom oracle has a result.
\* olog:     the operator log says the input is invalid.
\* cons:     what the consistency oracle returned.
Reply == [cli : CliStatus, accepted : BOOLEAN, seen : BOOLEAN,
          fatal : BOOLEAN, olog : BOOLEAN, cons : {"none", "alarm", "invalid"}]

\* check_kubectl_cli looks for words in what kubectl printed, never at the return
\* code: the message of an apply that failed may hold "unchanged", and a warning
\* about a CR that was accepted may hold anything.  Only "no stderr" excludes a
\* failure.  A failed apply returns before anything is collected, and a reply
\* without a system state is not judged (CheckerSet.check).
Replies ==
  {r \in Reply :
     /\ ~r.accepted => r.cli # "PASS" /\ ~r.seen
     /\ ~r.seen => ~r.fatal /\ ~r.olog /\ r.cons = "none"}

Refused(r) == r.cli = "CONNECTION_REFUSED"

\* RunResult.is_invalid_input
IsInvalid(r) == r.cli = "INVALID" \/ r.olog \/ r.cons = "invalid"

\* An invalid input that no other oracle complains about: reverted, not reported.
Discountable(r) == IsInvalid(r) /\ ~r.fatal

\* OracleResults.is_error before differential and deletion are filled in.
IsError(r) == r.fatal \/ r.cons # "none"

-----------------------------------------------------------------------------
VARIABLES
  pc,         \* where the worker is
  plan,       \* thread_vars.normal_test_plan.groups
  finished,   \* test cases popped by finish_testcase
  discarded,  \* self.discarded_testcases
  asked,      \* two-step test cases whose Store is set
  generation, \* generation of the next step of this trial
  snaps,      \* self.snapshots: input CR and what is known of the system state
  input,      \* curr_input_with_schema
  testing,    \* the test case of this iteration, NoTest for the seed
  step,       \* which call of run_and_check is under way
  retry,      \* refused attempts of this run_and_check
  result,     \* run_result of the setup or of the test case
  files,      \* mutated-<generation>.yaml in the trial directory
  applied,    \* environment: the CR the API server holds
  strayed,    \* history: an attempt of this trial left `applied` behind snaps
  trialErr    \* the trial's error, as TrialResult reports it

vars == <<pc, plan, finished, discarded, asked, generation, snaps, input,
          testing, step, retry, result, files, applied, strayed, trialErr>>

planVars == <<plan, finished, discarded>>
runVars  == <<asked, retry, result, files, applied, strayed>>

\* A snapshot's system_state is empty ("none"), collected ("real"), or empty
\* and then filled with one empty dict per resource kind by delta ("padded").
Snapshot == [input : Input, state : {"none", "real", "padded"}]

\* The errors of a trial: none, or an oracle's with the recovery's comparison.
\* base is the state of the snapshot that the differential was computed from.
NoError == [error |-> FALSE, differential |-> FALSE, base |-> "none"]
TrialErr == [error : BOOLEAN, differential : BOOLEAN,
             base : {"none", "real", "padded"}]

CurrentGroup == plan[1]
PlanEmpty == TestsOf(plan) = {}          \* len(test_plan) == 0

\* test_precondition, what a first call that fails leaves behind, and a second
\* call on the CR the setup produced.
Precondition(t, cr) == IF t \in TwoStep THEN t \in asked
                       ELSE cr[FieldOf[t]] \in Accepts[t]
Established(t, cr)  == t \in TwoStep \/ cr[FieldOf[t]] \in Accepts[t]

\* Mutant: the precondition of a two-step test case fails every time.
ForgetAsked(t) == asked' = asked

RememberAsked(t) == asked' = asked \cup ({t} \cap TwoStep)

\* XorCondition.solve: the constraint sets f when only its other side has become
\* a Boolean.
OtherSide(c, f) == IF c.left = f THEN c.right ELSE c.left
Sets(c, f, assumed) ==
  f \in {c.left, c.right} \ assumed /\ OtherSide(c, f) \in assumed

\* Mutant: the constraints are not looked at.
LeaveAsIs(prev, curr) == curr

\* The constraints are solved one after another, each from what the test case
\* changed: the last one that sets a property wins.
Satisfy(prev, curr) ==
  LET assumed    == {f \in Fields : curr[f] # prev[f] /\ curr[f] \in DOMAIN Negate}
      setter(f)  == {i \in DOMAIN Constraints :
                       /\ Sets(Constraints[i], f, assumed)
                       /\ \A j \in i + 1 .. Len(Constraints) :
                            ~Sets(Constraints[j], f, assumed)}
      last(f)    == Constraints[CHOOSE i \in setter(f) : TRUE]
  IN  [f \in Fields |-> IF setter(f) = {} THEN curr[f]
                        ELSE Negate[curr[OtherSide(last(f), f)]]]

ApplySetup(t, cr)   == Satisfy(cr, [cr EXCEPT ![FieldOf[t]] = SetupTo[t][@]])
ApplyMutator(t, cr) == Satisfy(cr, [cr EXCEPT ![FieldOf[t]] = MutateTo[t][@]])

\* Mutant: the test case is read but never popped.
PopNothing == UNCHANGED plan

\* TestGroup.finish_testcase and discard_testcase pop the head of the group.
PopTest == plan' = [plan EXCEPT ![1] = Tail(@)]

\* Mutant: popped, and recorded nowhere.
ForgetTest == PopTest /\ UNCHANGED <<finished, discarded>>

FinishTest  == /\ PopTest
               /\ finished' = finished \cup {CurrentGroup[1]}
               /\ UNCHANGED discarded
DiscardTest == /\ PopTest
               /\ discarded' = discarded \cup {CurrentGroup[1]}
               /\ UNCHANGED finished

-----------------------------------------------------------------------------
Init ==
  /\ pc = "start"
  /\ plan = Partition
  /\ finished = {} /\ discarded = {}
  /\ asked = {}
  /\ generation = 0
  /\ snaps = << >>
  /\ input = Seed
  /\ testing = NoTest
  /\ step = "test"
  /\ retry = 0
  /\ result = NoReply
  /\ files = << >>
  /\ applied = NoInput
  /\ strayed = FALSE
  /\ trialErr = NoError

-----------------------------------------------------------------------------
(* TrialRunner.run: the loop over trials. *)

\* The plan is empty, at the head of the loop or after a trial: "Test finished".
Finish ==
  /\ pc = "start"
  /\ PlanEmpty
  /\ pc' = "done"
  /\ UNCHANGED <<planVars, generation, snaps, input, testing, step, runVars, trialErr>>

\* The cluster restarts but the operator does not deploy: "Try again!".
DeployFails ==
  /\ pc = "start"
  /\ ~PlanEmpty
  /\ applied' = NoInput
  /\ UNCHANGED <<pc, planVars, asked, generation, snaps, input, testing, step,
                 retry, result, files, strayed, trialErr>>

\* Fresh cluster, operator deployed, new trial directory, and run_trial puts
\* the seed in the snapshots as a placeholder without a system state.
StartTrial ==
  /\ pc = "start"
  /\ ~PlanEmpty
  /\ pc' = "loop"
  /\ generation' = 0
  /\ snaps' = << [input |-> Seed, state |-> "none"] >>
  /\ files' = << >>
  /\ applied' = NoInput
  /\ strayed' = FALSE
  /\ trialErr' = NoError
  /\ testing' = NoTest
  /\ UNCHANGED <<planVars, asked, input, step, retry, result>>

-----------------------------------------------------------------------------
(* TrialRunner.run_trial: the loop over generations. *)

\* Leave the loop for run_delete.
Leave(why) ==
  /\ pc = "loop"
  /\ why
  /\ pc' = "delete"
  /\ UNCHANGED <<planVars, generation, snaps, input, testing, step, runVars, trialErr>>

OutOfGenerations == Leave(generation >= NumMutation)
OutOfTests == Leave(generation \in 1 .. NumMutation - 1 /\ PlanEmpty)

\* Run the seed: no test case, the CR of the placeholder.
RunSeed ==
  /\ pc = "loop"
  /\ generation = 0
  /\ pc' = "run"
  /\ step' = "test"
  /\ testing' = NoTest
  /\ input' = Last(snaps).input
  /\ UNCHANGED <<planVars, generation, snaps, runVars, trialErr>>

\* Mutant: the exhausted group stays at the head of the plan.
KeepGroup == UNCHANGED plan

DropGroup == plan' = Tail(plan)

Choosing == pc = "loop" /\ generation \in 1 .. NumMutation - 1 /\ ~PlanEmpty

\* DeterministicTestPlan.next_group drops an exhausted group and returns None,
\* which ends the trial.
GroupExhausted ==
  /\ Choosing
  /\ CurrentGroup = << >>
  /\ DropGroup
  /\ pc' = "delete"
  /\ UNCHANGED <<finished, discarded, generation, snaps, input, testing, step,
                 runVars, trialErr>>

\* The precondition holds on the last snapshot's CR: run the mutated CR.
RunReadyTest ==
  /\ Choosing
  /\ CurrentGroup # << >>
  /\ LET t == CurrentGroup[1]
         cr == Last(snaps).input
     IN  /\ Precondition(t, cr)
         /\ testing' = t
         /\ input' = ApplyMutator(t, cr)
  /\ pc' = "run"
  /\ step' = "test"
  /\ UNCHANGED <<planVars, generation, snaps, runVars, trialErr>>

\* It does not, and the setup establishes it: run the CR the setup produced.
RunSetup ==
  /\ Choosing
  /\ CurrentGroup # << >>
  /\ LET t == CurrentGroup[1]
         cr == Last(snaps).input
     IN  /\ ~Precondition(t, cr)
         /\ Established(t, ApplySetup(t, cr))
         /\ RememberAsked(t)
         /\ testing' = t
         /\ input' = ApplySetup(t, cr)
  /\ pc' = "run"
  /\ step' = "setup"
  /\ UNCHANGED <<planVars, generation, snaps, retry, result, files, applied,
                 strayed, trialErr>>

\* The setup does not establish it: the test case is dropped without a run.
DropTest ==
  /\ Choosing
  /\ CurrentGroup # << >>
  /\ LET t == CurrentGroup[1]
         cr == Last(snaps).input
     IN  ~Precondition(t, cr) /\ ~Established(t, ApplySetup(t, cr))
  /\ DiscardTest
  /\ UNCHANGED <<pc, generation, snaps, input, testing, step, runVars, trialErr>>

-----------------------------------------------------------------------------
(* TrialRunner.run_and_check: one attempt of Runner.run and, unless the     *)
(* connection was refused and a retry is left, the oracles' judgement.      *)

WriteCR == files' = [g \in DOMAIN files \cup {generation} |->
                       IF g = generation THEN input ELSE files[g]]

RetryLeft == retry < MaxRetry

RetryRefused ==
  /\ pc = "run"
  /\ RetryLeft
  /\ WriteCR
  /\ retry' = retry + 1
  /\ applied' \in {applied, input}
  /\ UNCHANGED <<pc, planVars, asked, generation, snaps, input, testing, step,
                 result, strayed, trialErr>>

\* Snapshot.delta adds the missing resource kinds to the *previous* snapshot.
Padded(s, r) ==
  IF r.seen /\ s.state = "none" THEN [s EXCEPT !.state = "padded"] ELSE s

\* Mutant: the snapshots of reverts are not kept.
RecordUnlessRevert(r) ==
  IF step \in {"setup", "test"}
  THEN Append([snaps EXCEPT ![Len(snaps)] = Padded(@, r)],
              [input |-> input, state |-> IF r.seen THEN "real" ELSE "none"])
  ELSE snaps

RecordSnapshot(r) ==
  Append([snaps EXCEPT ![Len(snaps)] = Padded(@, r)],
         [input |-> input, state |-> IF r.seen THEN "real" ELSE "none"])

\* Mutant: a revert takes no generation of its own.
FreeRevert(r)  == IF step \in {"setup", "test"} THEN generation + 1 ELSE generation

NextGeneration(r) == generation + 1

\* Rejected, and kept as the base: a revert, or a run that is not called INVALID.
Strays(r) == /\ ~r.accepted
             /\ r.cli # "INVALID" \/ step \in {"revertSetup", "revertTest"}
             /\ applied # input

Observe(r) ==
  /\ pc = "run"
  /\ Refused(r) => ~RetryLeft
  /\ WriteCR
  /\ retry' = 0
  /\ applied' = IF r.accepted THEN input ELSE applied
  /\ snaps' = RecordSnapshot(r)
  /\ generation' = NextGeneration(r)
  /\ pc' = "judge"
  /\ result' = IF step \in {"setup", "test"} THEN r ELSE result
  /\ strayed' = (strayed \/ Strays(r))
  /\ UNCHANGED <<planVars, asked, input, testing, step, trialErr>>

-----------------------------------------------------------------------------
(* What run_trial and run_testcases do with the result. *)

\* Mutant: the snapshot is dropped, but its predecessor is not applied again.
SkipRevert(next) ==
  /\ snaps' = Front(snaps)
  /\ input' = Last(Front(snaps)).input
  /\ step' = next
  /\ pc' = "loop"

\* revert() runs the CR of the last snapshot left after the pop.
StartRevert(next) ==
  /\ snaps' = Front(snaps)
  /\ input' = Last(Front(snaps)).input
  /\ step' = next
  /\ pc' = "run"

Judging(s) == pc = "judge" /\ step = s

\* "Connection refused, exiting": the trial ends, the test case stays.
SetupRefused ==
  /\ Judging("setup")
  /\ Refused(result)
  /\ pc' = "delete"
  /\ trialErr' = NoError
  /\ UNCHANGED <<planVars, generation, snaps, input, testing, step, runVars>>

\* "Setup produced invalid input".
SetupInvalid ==
  /\ Judging("setup")
  /\ ~Refused(result)
  /\ Discountable(result)
  /\ DiscardTest
  /\ StartRevert("revertSetup")
  /\ UNCHANGED <<generation, testing, runVars, trialErr>>

SetupError ==
  /\ Judging("setup")
  /\ ~Refused(result)
  /\ ~Discountable(result)
  /\ IsError(result)
  /\ DiscardTest
  /\ pc' = "recover"
  /\ UNCHANGED <<generation, snaps, input, testing, step, runVars, trialErr>>

\* "Setup produced unchanged input".
SetupUnchanged ==
  /\ Judging("setup")
  /\ result.cli = "UNCHANGED"
  /\ ~Discountable(result)
  /\ ~IsError(result)
  /\ DiscardTest
  /\ pc' = "loop"
  /\ UNCHANGED <<generation, snaps, input, testing, step, runVars, trialErr>>

\* The setup worked: run the test case on the CR the setup produced.
SetupDone ==
  /\ Judging("setup")
  /\ result.cli = "PASS"
  /\ ~Discountable(result)
  /\ ~IsError(result)
  /\ input' = ApplyMutator(testing, input)
  /\ step' = "test"
  /\ pc' = "run"
  /\ UNCHANGED <<planVars, generation, snaps, testing, runVars, trialErr>>

\* "All setups failed": next iteration, whatever the revert's oracles said.
SetupReverted ==
  /\ Judging("revertSetup")
  /\ pc' = "loop"
  /\ UNCHANGED <<planVars, generation, snaps, input, testing, step, runVars, trialErr>>

\* run_trial after run_testcases: an error ends the trial with a recovery, an
\* empty plan ends it, anything else is followed by the next iteration.
AfterTest(err) ==
  /\ pc' = IF err THEN "recover" ELSE IF TestsOf(plan') = {} THEN "delete" ELSE "loop"
  /\ UNCHANGED trialErr

\* The refused test case stays in the plan; its CR stays in the snapshots.
TestRefused ==
  /\ Judging("test")
  /\ Refused(result)
  /\ UNCHANGED <<planVars, generation, snaps, input, testing, step, runVars>>
  /\ AfterTest(IsError(result))

TestInvalid ==
  /\ Judging("test")
  /\ ~Refused(result)
  /\ Discountable(result)
  /\ StartRevert("revertTest")
  /\ UNCHANGED <<planVars, generation, testing, runVars, trialErr>>

\* Mutant: the seed run finishes a test case, too.
FinishAnyRun == FinishTest

\* The seed run has no test case to finish.
FinishRun == IF testing = NoTest THEN UNCHANGED planVars ELSE FinishTest

\* After the revert run_trial still asks whether the reverted run was an error.
TestReverted ==
  /\ Judging("revertTest")
  /\ FinishRun
  /\ AfterTest(IsError(result))
  /\ UNCHANGED <<generation, snaps, input, testing, step, runVars>>

TestDone ==
  /\ Judging("test")
  /\ ~Refused(result)
  /\ ~Discountable(result)
  /\ FinishRun
  /\ AfterTest(IsError(result))
  /\ UNCHANGED <<generation, snaps, input, testing, step, runVars>>

-----------------------------------------------------------------------------
(* The end of a trial. *)

\* RECOVERY_SNAPSHOT = -2: "the immediate snapshot before the error".
RecoverySnapshot == snaps[Len(snaps) - 1]

\* run_recovery applies the CR of that snapshot as generation -1 and compares.
\* check_state_equality skips an empty state; a padded one always differs.
Recover ==
  /\ pc = "recover"
  /\ files' = [g \in DOMAIN files \cup {-1} |->
                 IF g = -1 THEN RecoverySnapshot.input ELSE files[g]]
  /\ \E accepted, seen, differs \in BOOLEAN :
       /\ ~accepted => ~seen
       /\ differs => seen /\ RecoverySnapshot.state # "none"
       /\ seen /\ RecoverySnapshot.state = "padded" => differs
       /\ applied' = IF accepted THEN RecoverySnapshot.input ELSE applied
       /\ trialErr' = [error |-> TRUE, differential |-> differs,
                       base |-> RecoverySnapshot.state]
  /\ pc' = "delete"
  /\ UNCHANGED <<planVars, asked, generation, snaps, input, testing, step, retry,
                 result, strayed>>

\* run_delete removes the CR with the file of generation 0; the operator pod is
\* deleted, the result dumped and the snapshots forgotten.  The test for an
\* empty plan that follows is the one at the head of the loop (Finish).
EndTrial ==
  /\ pc = "delete"
  /\ \E deletionFailed \in BOOLEAN :
       /\ applied' = IF deletionFailed THEN applied ELSE NoInput
       /\ trialErr' = [trialErr EXCEPT !.error = @ \/ deletionFailed]
  /\ snaps' = << >>
  /\ result' = NoReply
  /\ pc' = "start"
  /\ UNCHANGED <<planVars, asked, generation, input, testing, step, retry, files,
                 strayed>>

-----------------------------------------------------------------------------
Terminated == pc = "done" /\ UNCHANGED vars

Next ==
  \/ Finish
  \/ DeployFails
  \/ StartTrial
  \/ OutOfGenerations
  \/ OutOfTests
  \/ RunSeed
  \/ GroupExhausted
  \/ RunReadyTest
  \/ RunSetup
  \/ DropTest
  \/ RetryRefused
  \/ \E r \in Replies : Observe(r)
  \/ SetupRefused
  \/ SetupInvalid
  \/ SetupError
  \/ SetupUnchanged
  \/ SetupDone
  \/ SetupReverted
  \/ TestRefused
  \/ TestInvalid
  \/ TestReverted
  \/ TestDone
  \/ Recover
  \/ EndTrial
  \/ Terminated

Spec == Init /\ [][Next]_vars

(***************************************************************************)
(* The worker thread keeps running (WF on Next).  What it cannot force is  *)
(* the environment's: a deployment that is retried for ever succeeds, the  *)
(* seed is not reported as an error in every trial, and no setup and no    *)
(* test case is refused in every trial.                                    *)
(***************************************************************************)
SeedPasses == \E r \in Replies :
                testing = NoTest /\ step = "test" /\ ~IsError(r) /\ Observe(r)
Answered(s) == \E r \in Replies :
                 testing # NoTest /\ step = s /\ ~Refused(r) /\ Observe(r)

FairSpec == /\ Spec
            /\ WF_vars(Next)
            /\ WF_vars(StartTrial)
            /\ SF_vars(SeedPasses)
            /\ SF_vars(Answered("setup"))
            /\ SF_vars(Answered("test"))

-----------------------------------------------------------------------------
(* Properties. *)

\* The variables hold what the attributes and locals of the code can hold.
TypeOK ==
  /\ pc \in {"start", "loop", "run", "judge", "recover", "delete", "done"}
  /\ plan \in Seq(Seq(Tests))
  /\ finished \in SUBSET Tests
  /\ discarded \in SUBSET Tests
  /\ asked \in SUBSET TwoStep
  /\ generation \in Nat
  /\ snaps \in Seq(Snapshot)
  /\ input \in Input
  /\ testing \in Tests \cup {NoTest}
  /\ step \in {"setup", "test", "revertSetup", "revertTest"}
  /\ retry \in 0 .. MaxRetry
  /\ result \in Replies \cup {NoReply}
  /\ DOMAIN files \subseteq Int /\ \A g \in DOMAIN files : files[g] \in Input
  /\ applied \in Input \cup {NoInput}
  /\ strayed \in BOOLEAN
  /\ trialErr \in TrialErr

\* Every test case of the worker is in exactly one place: once in the plan, or
\* finished, or discarded.  Refusals, reverts, aborted trials and exhausted
\* groups neither lose a test case nor run it to its end twice.
EveryTestOnce ==
  /\ \A i, j \in DOMAIN plan : \A k \in DOMAIN plan[i] : \A l \in DOMAIN plan[j] :
       plan[i][k] = plan[j][l] => i = j /\ k = l
  /\ TestsOf(plan) \cap (finished \cup discarded) = {}
  /\ finished \cap discarded = {}
  /\ TestsOf(plan) \cup finished \cup discarded = TestsOf(Partition)

\* finish_testcase and discard_testcase pop the head of the group blindly: what
\* they pop is the test case that was run and got an answer, or the one whose
\* setup was found not to work.
ConsumesWhatItRan ==
  [][ /\ \A t \in finished' \ finished :
           t = testing /\ step \in {"test", "revertTest"} /\ ~Refused(result)
      /\ \A t \in discarded' \ discarded :
           \/ pc = "loop" /\ ~Precondition(t, Last(snaps).input)
           \/ pc = "judge" /\ step = "setup" /\ t = testing /\ ~Refused(result) ]_vars

\* The step files of a trial directory are numbered 0, 1, 2 ... without a gap:
\* Trial.load stops at the first number that is missing, and a number used
\* twice would overwrite a step.  A trial ends after at most NumMutation + 2 of
\* them, a setup, its test case and a revert starting in the last generation.
StepFilesContiguous ==
  pc \notin {"start", "done"} =>
    /\ DOMAIN files \ {-1} \in {0 .. generation - 1, 0 .. generation}
    /\ (pc = "run" /\ retry = 0) => DOMAIN files = 0 .. generation - 1
    /\ pc # "run" => DOMAIN files \ {-1} = 0 .. generation - 1
    /\ generation <= NumMutation + 2

\* run_recovery always finds a snapshot before the one that showed the error,
\* although reverts pop snapshots and the first one is only a placeholder.
RecoveryHasPredecessor ==
  /\ pc = "recover" => Len(snaps) >= 2 /\ Last(snaps).input = input
  /\ pc \in {"loop", "run"} => Len(snaps) >= 1

\* A generation mutates the CR the API server really holds, so that the change a
\* test case makes is the only one -- as long as the API server turned no CR away
\* that the worker keeps as its base (Strays: refused to the end, reported with
\* the word "unchanged", or a revert).
BaseMatchesCluster ==
  (pc = "loop" /\ generation > 0 /\ ~strayed) => Last(snaps).input = applied

\* "Satisfy constraints" (engine.py:104): if the seed satisfies the constraints,
\* so does every CR that is run, whatever sequence of setups, test cases and
\* reverts led to it.
Xor(c, cr) == cr[c.left] \in DOMAIN Negate /\ cr[c.right] = Negate[cr[c.left]]
ConstraintsHold == \A i \in DOMAIN Constraints : Xor(Constraints[i], input)

\* apply_testcase raises "Running test case while precondition fails" (and the
\* worker dies) when the precondition does not hold any more after the setup has
\* been run, retried and judged.  It never does.
SetupMakesReady == (pc = "judge" /\ step = "setup") => Precondition(testing, input)

\* The setup is there "to set up the precondition if the precondition fails, so
\* that we can run this test case next time" (testcase.py:43): a two-step test
\* case, which scales down and then up, or up and then down, takes its second
\* step only after its first.
SetupComesFirst ==
  [][ (pc # "run" /\ pc' = "run" /\ step' = "test" /\ testing' \in TwoStep)
        => (pc = "judge" /\ step = "setup") ]_vars

\* A differential alarm compares two states collected from a cluster.  The code
\* means it: check_state_equality skips empty states.
RecoveryComparesObserved == trialErr.differential => trialErr.base = "real"

\* The worker gets through its whole share of the plan and stops.
WorkerTerminates == <>[](pc = "done" /\ TestsOf(plan) = {})

\* What one worker promises the rest of Acto.
Campaign == INSTANCE TestCampaign WITH
              Assigned <- TestsOf(Partition), pending <- TestsOf(plan)
CampaignSpec == Campaign!Spec
=============================================================================
