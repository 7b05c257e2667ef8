-------------------------------- MODULE Acto --------------------------------
(***************************************************************************)
(* The main thread of Acto (acto/engine.py, class Acto, and                *)
(* acto/__main__.py): learn what the operator looks like, or load it from  *)
(* the context file of an earlier run; generate the test plan; let one     *)
(* thread per worker run its share; write testrun_info.json; hand over to  *)
(* the differential test.  A worker is what TestCampaign promises of it,   *)
(* except that its thread may die of an exception (thread_excepthook only  *)
(* logs it).  The process can be killed and started again; only the        *)
(* context file outlives it.                                               *)
(***************************************************************************)
EXTENDS TestPartition, FiniteSets, FiniteSetsExt, SequencesExt

CONSTANTS
  Paths,      \* the properties of the CRD
  CasesOf,    \* get_testcases: the test cases of each property, a sequence
  Primitive,  \* TestCase.primitive
  OnK8s,      \* TestCase.kubernetes_schema
  MaxStarts,  \* bound of the model: how often Acto is started
  NoInfo

CasesOn(p) == Range(CasesOf[p])
AllCases == UNION {CasesOn(p) : p \in Paths}

ASSUME CasesAssumption ==
  /\ IsFiniteSet(Paths)
  /\ \A p \in Paths : CasesOf[p] \in Seq(AllCases) /\ IsInjective(CasesOf[p])
  /\ \A p, q \in Paths : p # q => CasesOn(p) \cap CasesOn(q) = {}
  /\ Primitive \subseteq AllCases /\ OnK8s \subseteq AllCases
  /\ MaxStarts \in Nat \ {0}

\* Primitive test cases of Kubernetes schemas are pruned.
Pruned == Primitive \cap OnK8s

VARIABLES
  pc,         \* where the main thread is; "off" when the process is gone
  starts,     \* how often the process was started
  context,    \* the context file
  partition,  \* normal_test_plan_partitioned
  thread,     \* the worker threads
  pending, finished, discarded,   \* test cases of each worker
  metadata,   \* input_model.metadata
  info        \* testrun_info.json

workVars == <<thread, pending, finished, discarded>>
vars == <<pc, starts, context, partition, workVars, metadata, info>>

Nothing == [w \in Worker |-> {}]

Init ==
  /\ pc = "start"
  /\ starts = 1
  /\ context = "none"
  /\ partition = [w \in Worker |-> << >>]
  /\ thread = [w \in Worker |-> "idle"]
  /\ pending = Nothing /\ finished = Nothing /\ discarded = Nothing
  /\ metadata = NoInfo
  /\ info = NoInfo

-----------------------------------------------------------------------------
(* Acto.__init__: __learn and generate_test_plan *)

\* Mutant: any file that exists will do.
FileExists == context # "none"

FileLoads == context = "complete"

LoadContext ==
  /\ pc = "start"
  /\ FileLoads
  /\ pc' = "plan"
  /\ UNCHANGED <<starts, context, partition, workVars, metadata, info>>

\* json.load raises, and the exception ends the main thread.
LoadFails ==
  /\ pc = "start"
  /\ context = "truncated"
  /\ pc' = "off"
  /\ UNCHANGED <<starts, context, partition, workVars, metadata, info>>

\* --learn-analysis: the file is loaded, the operator's source analysed, and the
\* context written over the file it came from.  A clone that fails raises.
AnalyseAgain ==
  /\ pc = "start"
  /\ FileLoads
  /\ pc' \in {"learnt", "off"}
  /\ UNCHANGED <<starts, context, partition, workVars, metadata, info>>

\* No file: the learning run.  A deployment that fails or a seed that is not
\* healthy raises RuntimeError.
Learn ==
  /\ pc = "start"
  /\ context = "none"
  /\ pc' \in {"learnt", "off"}
  /\ UNCHANGED <<starts, context, partition, workVars, metadata, info>>

\* open(context_file, "w") empties the file; then json.dump fills it.
OpenContext ==
  /\ pc = "learnt"
  /\ context' = "truncated"
  /\ pc' = "dump"
  /\ UNCHANGED <<starts, partition, workVars, metadata, info>>

DumpContext ==
  /\ pc = "dump"
  /\ context' = "complete"
  /\ pc' = "plan"
  /\ UNCHANGED <<starts, partition, workVars, metadata, info>>

\* The loop over a property's test cases, which leaves the pruned ones out.
Kept(cases) ==
  LET kept[n \in 0 .. Len(cases)] ==
        IF n = 0 THEN << >>
        ELSE IF cases[n] \in Pruned THEN kept[n - 1]
        ELSE Append(kept[n - 1], cases[n])
  IN kept[Len(cases)]

KeptCases == AllCases \ Pruned

Orders == {s \in [1 .. Cardinality(Paths) -> Paths] : IsInjective(s)}

\* The properties are shuffled, and their test cases put one after another.
Shuffled(order) == FlattenSeq([i \in DOMAIN order |-> Kept(CasesOf[order[i]])])

TestsOf(groups) == UNION {Range(groups[i]) : i \in DOMAIN groups}

\* num_pruned_test_cases is assigned to the number of primitive ones, too.
Counts == [total     |-> Cardinality(AllCases),
           run       |-> Cardinality(KeptCases),
           primitive |-> Cardinality(Pruned),
           pruned    |-> Cardinality(Pruned)]

GenerateTestPlan ==
  /\ pc = "plan"
  /\ \E order \in Orders :
       partition' = Partitioned(Subgroups(Shuffled(order)))
  /\ pending' = [w \in Worker |-> TestsOf(partition'[w])]
  /\ metadata' = Counts
  /\ pc' = "test"
  /\ thread' = [w \in Worker |-> "running"]
  /\ UNCHANGED <<starts, context, finished, discarded, info>>

-----------------------------------------------------------------------------
(* Acto.run *)

\* A thread runs until it ends, whatever the main thread does.
Running(w) == pc # "off" /\ thread[w] = "running"

Consume(w, t) ==
  /\ Running(w)
  /\ t \in pending[w]
  /\ pending' = [pending EXCEPT ![w] = @ \ {t}]

FinishCase(w, t) ==
  /\ Consume(w, t)
  /\ finished' = [finished EXCEPT ![w] = @ \cup {t}]
  /\ UNCHANGED <<pc, starts, context, partition, thread, discarded, metadata, info>>

DiscardCase(w, t) ==
  /\ Consume(w, t)
  /\ discarded' = [discarded EXCEPT ![w] = @ \cup {t}]
  /\ UNCHANGED <<pc, starts, context, partition, thread, finished, metadata, info>>

ThreadEnds(w) ==
  /\ Running(w)
  /\ pending[w] = {}
  /\ thread' = [thread EXCEPT ![w] = "done"]
  /\ UNCHANGED <<pc, starts, context, partition, pending, finished, discarded, metadata, info>>

\* An uncaught exception: the thread ends, the other workers are not told.
ThreadDies(w) ==
  /\ Running(w)
  /\ thread' = [thread EXCEPT ![w] = "dead"]
  /\ UNCHANGED <<pc, starts, context, partition, pending, finished, discarded, metadata, info>>

\* Mutants: a thread that died is waited for; only the first thread is joined.
AllDone     == \A w \in Worker : thread[w] = "done"
FirstJoined == thread[0] \in {"done", "dead"}

\* t.join() returns for a thread that died, too.
Joined == \A w \in Worker : thread[w] \in {"done", "dead"}

Summarise ==
  /\ pc = "test"
  /\ Joined
  /\ info' = [num_total_testcases |-> metadata,
              num_total_failed |-> MapThenSumSet(LAMBDA w : Cardinality(discarded[w]), Worker)]
  /\ pc' = "post"
  /\ UNCHANGED <<starts, context, partition, workVars, metadata>>

\* PostDiffTest.post_process and check: module PostDiff.
PostProcess ==
  /\ pc = "post"
  /\ pc' = "done"
  /\ UNCHANGED <<starts, context, partition, workVars, metadata, info>>

-----------------------------------------------------------------------------
Kill ==
  /\ pc \notin {"off", "done"}
  /\ pc' = "off"
  /\ UNCHANGED <<starts, context, partition, workVars, metadata, info>>

\* A new process in a new working directory: the memory is empty.
Restart ==
  /\ pc = "off"
  /\ starts < MaxStarts
  /\ starts' = starts + 1
  /\ pc' = "start"
  /\ partition' = [w \in Worker |-> << >>]
  /\ thread' = [w \in Worker |-> "idle"]
  /\ pending' = Nothing /\ finished' = Nothing /\ discarded' = Nothing
  /\ metadata' = NoInfo
  /\ info' = NoInfo
  /\ UNCHANGED context

Terminated == pc \in {"off", "done"} /\ UNCHANGED vars

Main == \/ LoadContext \/ AnalyseAgain \/ LoadFails \/ Learn \/ OpenContext \/ DumpContext
        \/ GenerateTestPlan \/ Summarise \/ PostProcess

Thread(w) == \/ \E t \in pending[w] : FinishCase(w, t) \/ DiscardCase(w, t)
             \/ ThreadEnds(w)

Next == \/ Main
        \/ \E w \in Worker : Thread(w) \/ ThreadDies(w)
        \/ Kill
        \/ Restart
        \/ Terminated

Spec == Init /\ [][Next]_vars

\* The main thread and the worker threads that can run do run.
FairSpec == /\ Spec
            /\ WF_vars(Main)
            /\ \A w \in Worker : WF_vars(Thread(w))

-----------------------------------------------------------------------------
(* Properties. *)

Planned == pc \in {"test", "post", "done"}
SetOfAll(f) == UNION {f[w] : w \in Worker}

\* However the properties are shuffled, the workers' shares cover every test case
\* that is not pruned, no two workers and no two groups share one, no group is
\* longer than a trial can take, and no worker has two groups more than another.
PlanIsPartition ==
  Planned =>
    /\ SetOfAll([w \in Worker |-> TestsOf(partition[w])]) = KeptCases
    /\ \A v, w \in Worker : \A i \in DOMAIN partition[v] : \A j \in DOMAIN partition[w] :
         \A k \in DOMAIN partition[v][i] : \A l \in DOMAIN partition[w][j] :
           partition[v][i][k] = partition[w][j][l] => <<v, i, k>> = <<w, j, l>>
    /\ \A v, w \in Worker :
         /\ Len(partition[v]) <= Len(partition[w]) + 1
         /\ \A i \in DOMAIN partition[v] : Len(partition[v][i]) \in 1 .. ChunkSize

\* testrun_info.json is written when no worker can change its account any more:
\* num_total_failed is the number of test cases discarded, and unless a thread
\* died, every other test case that was to be run has finished.
SummaryAddsUp ==
  info # NoInfo =>
    /\ info.num_total_failed = Cardinality(SetOfAll(discarded))
    /\ \A w \in Worker : thread[w] # "dead" => pending[w] = {}
    /\ (\A w \in Worker : thread[w] # "dead") =>
         Cardinality(SetOfAll(finished)) + info.num_total_failed = metadata.run

\* Whenever the process was killed before, it never plans or tests with a
\* context that was not written to its end.
ContextIsComplete == pc \in {"plan", "test", "post", "done"} => context = "complete"

\* No thread was started: all that is to be run is still to be done.
Idle == \A w \in Worker : thread[w] = "idle"

Campaign == INSTANCE TestCampaign WITH
  Assigned  <- KeptCases,
  pending   <- IF Idle THEN KeptCases ELSE SetOfAll(pending),
  finished  <- SetOfAll(finished),
  discarded <- SetOfAll(discarded)

\* The threads together are to Acto what one worker is by itself: the plan they
\* share is consumed one test case at a time, each by one of them and for good,
\* until the process is gone; one that is started again begins with all of it.
ThreadsAreOneCampaign ==
  /\ Campaign!Init
  /\ [][Campaign!Next \/ (pc = "off" /\ Campaign!Init')]_(Campaign!campaignVars)

\* A worker thread that dies does not keep Acto from its summary.
TestingEnds == (pc = "test") ~> (pc # "test")
=============================================================================
