---------------------------- MODULE TestPartition ----------------------------
(***************************************************************************)
(* How generate_test_plan (acto/input/input.py) deals the test cases out:  *)
(* split_into_subgroups cuts the list into chunks of CHUNK_SIZE, and the   *)
(* chunks go round the workers.                                            *)
(***************************************************************************)
EXTENDS Integers, Sequences

CONSTANTS
  ChunkSize,   \* CHUNK_SIZE (10 in the code)
  NumWorkers   \* self.num_workers

ASSUME ChunkAssumption == ChunkSize \in Nat \ {0} /\ NumWorkers \in Nat \ {0}

Worker == 0 .. NumWorkers - 1

CeilDiv(a, b) == (a + b - 1) \div b

\* Mutant: the chunk ends before its last element.
ShortChunk(cases, first) ==
  SubSeq(cases, first + 1, IF first + ChunkSize <= Len(cases)
                           THEN first + ChunkSize - 1 ELSE Len(cases))

\* all_testcases[i : i + CHUNK_SIZE]
Chunk(cases, first) ==
  SubSeq(cases, first + 1, IF first + ChunkSize <= Len(cases)
                           THEN first + ChunkSize ELSE Len(cases))

Subgroups(cases) ==
  [i \in 1 .. CeilDiv(Len(cases), ChunkSize) |-> Chunk(cases, (i - 1) * ChunkSize)]

\* Mutant: every worker is given the whole plan.
WholePlan(groups) == [w \in Worker |-> groups]

\* normal_test_plan_partitioned: group i goes to worker i % num_workers.
Partitioned(groups) ==
  [w \in Worker |->
     [k \in 1 .. CeilDiv(Len(groups) - w, NumWorkers) |->
        groups[(k - 1) * NumWorkers + w + 1]]]
=============================================================================
