----------------------------- MODULE Acto_proofs -----------------------------
(***************************************************************************)
(* What is proved of Acto, for every set of properties and test cases,     *)
(* number of workers and number of starts: the protocol of the context     *)
(* file, that the plan is a partition, that the summary adds up, and that  *)
(* the threads together are the one worker of TestCampaign.                *)
(***************************************************************************)
EXTENDS Acto, TestPartition_proofs, DataLemmas

\* The file is in one of three states, and it is half written only from its
\* opening to its dump, or because the process was killed between the two.
FileInv ==
  /\ context \in {"none", "truncated", "complete"}
  /\ pc \in {"start", "learnt", "dump", "plan", "test", "post", "done", "off"}
  /\ pc = "learnt" => context # "truncated"
  /\ pc = "dump" => context = "truncated"
  /\ ContextIsComplete

LEMMA FileInit == Init => FileInv
  BY DEF Init, FileInv, ContextIsComplete

LEMMA MainKeepsFile ==
  ASSUME FileInv, Main
  PROVE  FileInv'
<1> USE DEF FileInv, ContextIsComplete
<1>1. CASE LoadContext \/ AnalyseAgain
  BY <1>1 DEF LoadContext, AnalyseAgain, FileLoads
<1>2. CASE LoadFails
  BY <1>2 DEF LoadFails
<1>3. CASE Learn
  BY <1>3 DEF Learn
<1>4. CASE OpenContext
  BY <1>4 DEF OpenContext
<1>5. CASE DumpContext
  BY <1>5 DEF DumpContext
<1>6. CASE GenerateTestPlan
  <2> SUFFICES pc = "plan" /\ pc' = "test" /\ context' = context
    OBVIOUS
  <2> QED  BY <1>6 DEF GenerateTestPlan
<1>7. CASE Summarise
  <2> SUFFICES pc = "test" /\ pc' = "post" /\ context' = context
    OBVIOUS
  <2> QED  BY <1>7 DEF Summarise
<1>8. CASE PostProcess
  BY <1>8 DEF PostProcess
<1> QED  BY <1>1, <1>2, <1>3, <1>4, <1>5, <1>6, <1>7, <1>8 DEF Main

\* The threads of the workers write neither the file nor the main thread's place.
LEMMA ThreadsLeaveFile ==
  ASSUME NEW w \in Worker, Thread(w) \/ ThreadDies(w)
  PROVE  pc' = pc /\ context' = context
<1>1. CASE \E t \in pending[w] : FinishCase(w, t) \/ DiscardCase(w, t)
  BY <1>1 DEF FinishCase, DiscardCase
<1>2. CASE ThreadEnds(w)
  BY <1>2 DEF ThreadEnds
<1>3. CASE ThreadDies(w)
  BY <1>3 DEF ThreadDies
<1> QED  BY <1>1, <1>2, <1>3 DEF Thread

LEMMA FileStep ==
  ASSUME FileInv, [Next]_vars
  PROVE  FileInv'
<1>1. CASE Main
  BY <1>1, MainKeepsFile
<1>2. CASE \E w \in Worker : Thread(w) \/ ThreadDies(w)
  <2> pc' = pc /\ context' = context
    BY <1>2, ThreadsLeaveFile
  <2> QED  BY DEF FileInv, ContextIsComplete
<1>3. CASE Kill
  BY <1>3 DEF Kill, FileInv, ContextIsComplete
<1>4. CASE Restart
  <2> pc' = "start" /\ context' = context
    BY <1>4 DEF Restart
  <2> QED  BY DEF FileInv, ContextIsComplete
<1>5. CASE Terminated \/ UNCHANGED vars
  <2> pc' = pc /\ context' = context
    BY <1>5 DEF Terminated, vars
  <2> QED  BY DEF FileInv, ContextIsComplete
<1> QED  BY <1>1, <1>2, <1>3, <1>4, <1>5 DEF Next

\* Whatever run was killed between opening and dumping the context file, no
\* later one plans or tests with a context that is not whole.
THEOREM ContextsAreWhole == Spec => []ContextIsComplete
<1>1. FileInv => ContextIsComplete
  BY DEF FileInv
<1> QED  BY FileInit, FileStep, <1>1, PTL DEF Spec

-----------------------------------------------------------------------------
(* The test plan *)

\* What is kept of a property's test cases.
LEMMA KeptFacts ==
  ASSUME NEW S, NEW cases \in Seq(S)
  PROVE  /\ Kept(cases) \in Seq(S)
         /\ Range(Kept(cases)) = Range(cases) \ Pruned
         /\ IsInjective(cases) => IsInjective(Kept(cases))
<1> DEFINE n == Len(cases)
           Q == Seq(S)
           none == << >>
           Add(s, i) == IF cases[i] \in Pruned THEN s ELSE Append(s, cases[i])
           Solves(g) == g = [i \in 0 .. n |-> IF i = 0 THEN none ELSE Add(g[i - 1], i)]
           f == CHOOSE g : Solves(g)
           Upto(i) == {cases[j] : j \in 1 .. i}
           Sofar(s, i) == /\ s \in Q
                          /\ Range(s) = Upto(i) \ Pruned
                          /\ IsInjective(cases) => IsInjective(s)
<1>1. n \in Nat /\ DOMAIN cases = 1 .. n /\ \A i \in 1 .. n : cases[i] \in S
  OBVIOUS
<1>2. Kept(cases) = f[n]
  BY DEF Kept
<1>3. none \in Q /\ \A s \in Q, i \in 1 .. n : Add(s, i) \in Q
  BY <1>1
<1>4. Sofar(none, 0)
  <2>1. DOMAIN none = {} /\ 1 .. 0 = {}
    OBVIOUS
  <2> QED  BY <1>3, <2>1 DEF Range, IsInjective
<1>5. ASSUME NEW i \in Nat, i + 1 \in 1 .. n, NEW s, Sofar(s, i) PROVE Sofar(Add(s, i + 1), i + 1)
  <2> DEFINE c == cases[i + 1]
  <2>1. 1 .. i + 1 = 1 .. i \cup {i + 1} /\ i + 1 \notin 1 .. i /\ 1 .. i \subseteq 1 .. n
    BY <1>1, <1>5
  <2>2. Upto(i + 1) = Upto(i) \cup {c}
    BY <2>1
  <2>3. CASE c \in Pruned
    <3>1. Add(s, i + 1) = s /\ Upto(i + 1) \ Pruned = Upto(i) \ Pruned
      BY <2>2, <2>3
    <3> HIDE DEF Add, Upto
    <3> QED  BY <1>5, <3>1
  <2>4. CASE c \notin Pruned
    <3> DEFINE u == <<c>>
    <3>1. u \in Seq(S) /\ Range(u) = {c} /\ IsInjective(u)
      BY <1>1, <1>5 DEF Range, IsInjective
    <3>2. Add(s, i + 1) = Append(s, c) /\ s \in Seq(S) /\ c \in S
      BY <1>1, <1>5, <2>4
    <3>3. Append(s, c) = s \o u
      BY <3>2
    <3>4. IsInjective(cases) => c \notin Upto(i)
      <4> SUFFICES ASSUME IsInjective(cases), NEW j \in 1 .. i, cases[j] = c PROVE FALSE
        OBVIOUS
      <4>1. j \in 1 .. n /\ i + 1 \in 1 .. n /\ j # i + 1
        BY <1>5, <2>1
      <4> QED  BY <1>1, <4>1 DEF IsInjective
    <3>5. Upto(i + 1) \ Pruned = (Upto(i) \ Pruned) \cup {c}
      BY <2>2, <2>4
    <3> HIDE DEF Add, Upto, u, c
    <3>6. s \o u \in Seq(S) /\ Range(s \o u) = Range(s) \cup Range(u)
          /\ (IsInjective(s) /\ IsInjective(u) /\ Range(s) \cap Range(u) = {}
                => IsInjective(s \o u))
      BY <3>1, <3>2, ConcatFacts
    <3> QED  BY <1>5, <3>1, <3>2, <3>3, <3>4, <3>5, <3>6
  <2> QED  BY <2>3, <2>4
<1> HIDE DEF n, Q, none, Add, f
<1>6. \E g : Solves(g)
  <2> DEFINE step == [x \in Q \X (Nat \ {0}) |->
                        IF x[2] \in 1 .. n THEN Add(x[1], x[2]) ELSE none]
  <2>1. step \in [Q \X (Nat \ {0}) -> Q]
    BY <1>3
  <2>2. \A s \in Q, i \in 1 .. n : step[<<s, i>>] = Add(s, i)
    <3> TAKE s \in Q, i \in 1 .. n
    <3>1. <<s, i>> \in Q \X (Nat \ {0}) /\ <<s, i>>[1] = s /\ <<s, i>>[2] = i
      BY <1>1
    <3> QED  BY <3>1
  <2> HIDE DEF step
  <2>3. PICK h : Recursion(h, Q, none, step, n)
    BY <1>1, <1>3, <2>1, RecursionExists
  <2>4. \A i \in 0 .. n : h[i] = IF i = 0 THEN none ELSE Add(h[i - 1], i)
    <3> TAKE i \in 0 .. n
    <3>1. i # 0 => i \in 1 .. n /\ i - 1 \in 0 .. n
      BY <1>1
    <3> QED  BY <2>2, <2>3, <3>1 DEF Recursion
  <2>5. h = [i \in 0 .. n |-> h[i]]
    BY <2>3 DEF Recursion
  <2>6. Solves(h)
    BY <2>4, <2>5
  <2> HIDE DEF Solves
  <2> QED  BY <2>6
<1>7. Solves(f)
  <2> HIDE DEF Solves
  <2> QED  BY <1>6 DEF f
<1>8. f[0] = none /\ \A i \in Nat : i + 1 \in 1 .. n => f[i + 1] = Add(f[i], i + 1)
  <2>1. \A i \in 0 .. n : f[i] = IF i = 0 THEN none ELSE Add(f[i - 1], i)
    BY <1>7
  <2>2. 0 \in 0 .. n
    BY <1>1
  <2>3. \A i \in Nat : i + 1 \in 1 .. n => i + 1 \in 0 .. n /\ i + 1 # 0 /\ (i + 1) - 1 = i
    BY <1>1
  <2> QED  BY <2>1, <2>2, <2>3
<1>9. Sofar(f[n], n)
  <2> HIDE DEF Sofar, Solves
  <2> DEFINE P == {i \in Nat : i <= n => Sofar(f[i], i)}
  <2>1. 0 \in P /\ \A i \in Nat : i \in P => i + 1 \in P
    <3>1. \A i \in Nat : i + 1 <= n => i + 1 \in 1 .. n /\ i <= n
      BY <1>1
    <3> QED  BY <1>4, <1>5, <1>8, <3>1
  <2> HIDE DEF P
  <2>2. n \in P
    BY <1>1, <2>1, SetInduction
  <2> QED  BY <1>1, <2>2 DEF P
<1>10. Upto(n) = Range(cases)
  BY <1>1 DEF Range
<1> HIDE DEF Upto
<1> QED  BY <1>2, <1>9, <1>10 DEF Q

LEMMA CasesFinite ==
  /\ IsFiniteSet(AllCases) /\ IsFiniteSet(KeptCases) /\ IsFiniteSet(Worker)
  /\ \A p \in Paths : CasesOf[p] \in Seq(AllCases) /\ CasesOn(p) \subseteq AllCases
<1>1. ASSUME NEW p \in Paths PROVE IsFiniteSet(CasesOn(p))
  <2> DEFINE s == CasesOf[p]
             n == Len(s)
  <2>1. s \in Seq(AllCases)
    BY CasesAssumption
  <2>2. n \in Nat /\ DOMAIN s = 1 .. n
    BY <2>1
  <2>3. s \in Surjection(1 .. n, CasesOn(p))
    BY <2>1, <2>2 DEF Surjection, CasesOn, Range
  <2> HIDE DEF s, n
  <2>4. IsFiniteSet(1 .. n)
    BY <2>2, FS_Interval
  <2> QED  BY <2>3, <2>4, FS_Surjection
<1> DEFINE Sets == {CasesOn(p) : p \in Paths}
<1>2. IsFiniteSet(Sets)
  <2> DEFINE f == [p \in Paths |-> CasesOn(p)]
  <2>1. f \in Surjection(Paths, Sets)
    BY DEF Surjection
  <2> HIDE DEF f, Sets
  <2> QED  BY <2>1, CasesAssumption, FS_Surjection
<1>3. IsFiniteSet(AllCases)
  <2>1. \A T \in Sets : IsFiniteSet(T)
    BY <1>1
  <2> HIDE DEF Sets
  <2>2. IsFiniteSet(UNION Sets)
    BY <1>2, <2>1, FS_UNION
  <2> QED  BY <2>2 DEF AllCases, Sets
<1>4. IsFiniteSet(KeptCases)
  <2>1. KeptCases \in SUBSET AllCases
    BY DEF KeptCases
  <2> QED  BY <1>3, <2>1, FS_Subset
<1>5. IsFiniteSet(Worker)
  <2>1. 0 \in Int /\ NumWorkers - 1 \in Int
    BY ChunkAssumption
  <2> QED  BY <2>1, FS_Interval DEF Worker
<1>6. \A p \in Paths : CasesOf[p] \in Seq(AllCases) /\ CasesOn(p) \subseteq AllCases
  BY CasesAssumption DEF AllCases
<1> QED  BY <1>3, <1>4, <1>5, <1>6

\* The shuffle is a permutation: no property is left out.
LEMMA OrderFacts ==
  ASSUME NEW order \in Orders
  PROVE  /\ Cardinality(Paths) \in Nat
         /\ order \in [1 .. Cardinality(Paths) -> Paths]
         /\ IsInjective(order)
         /\ \A p \in Paths : \E i \in 1 .. Cardinality(Paths) : order[i] = p
<1> DEFINE n == Cardinality(Paths)
<1>1. n \in Nat /\ IsFiniteSet(Paths)
  BY CasesAssumption, FS_CardinalityType
<1>2. order \in Injection(1 .. n, Paths)
  BY DEF Orders, Injection
<1>3. Cardinality(1 .. n) = n
  BY <1>1, FS_Interval
<1> HIDE DEF n
<1>4. order \in Surjection(1 .. n, Paths)
  <2>1. Cardinality(1 .. n) = Cardinality(Paths)
    BY <1>3 DEF n
  <2> QED  BY <1>1, <1>2, <2>1, FS_Injection
<1> QED  BY <1>1, <1>2, <1>4 DEF Injection, Surjection, n

LEMMA ShuffledFacts ==
  ASSUME NEW order \in Orders
  PROVE  /\ Shuffled(order) \in Seq(KeptCases)
         /\ Range(Shuffled(order)) = KeptCases
         /\ IsInjective(Shuffled(order))
<1> DEFINE n == Cardinality(Paths)
           seqs == [i \in DOMAIN order |-> Kept(CasesOf[order[i]])]
<1>1. /\ n \in Nat /\ DOMAIN order = 1 .. n
      /\ \A i \in 1 .. n : order[i] \in Paths
      /\ \A i, j \in 1 .. n : order[i] = order[j] => i = j
      /\ \A p \in Paths : \E i \in 1 .. n : order[i] = p
  BY OrderFacts DEF IsInjective
<1> HIDE DEF n
<1>2. ASSUME NEW p \in Paths
      PROVE  /\ Kept(CasesOf[p]) \in Seq(KeptCases)
             /\ Range(Kept(CasesOf[p])) = CasesOn(p) \ Pruned
             /\ IsInjective(Kept(CasesOf[p]))
  <2>1. CasesOf[p] \in Seq(AllCases) /\ IsInjective(CasesOf[p]) /\ CasesOn(p) \subseteq AllCases
    BY CasesAssumption, CasesFinite
  <2> DEFINE k == Kept(CasesOf[p])
  <2>2. k \in Seq(AllCases) /\ Range(k) = CasesOn(p) \ Pruned /\ IsInjective(k)
    BY <2>1, KeptFacts DEF CasesOn
  <2> HIDE DEF k
  <2>3. \A i \in DOMAIN k : k[i] \in KeptCases
    BY <2>1, <2>2 DEF Range, KeptCases
  <2>4. k \in Seq(KeptCases)
    <3>1. Len(k) \in Nat /\ DOMAIN k = 1 .. Len(k) /\ k = [i \in 1 .. Len(k) |-> k[i]]
      BY <2>2
    <3> QED  BY <2>3, <3>1
  <2> QED  BY <2>2, <2>4 DEF k
<1>3. seqs \in Seq(Seq(KeptCases)) /\ DOMAIN seqs = 1 .. n
  BY <1>1, <1>2
<1>4. \A i \in 1 .. n : Range(seqs[i]) = CasesOn(order[i]) \ Pruned /\ IsInjective(seqs[i])
  BY <1>1, <1>2
<1>5. \A i, j \in 1 .. n : i # j => Range(seqs[i]) \cap Range(seqs[j]) = {}
  <2> SUFFICES ASSUME NEW i \in 1 .. n, NEW j \in 1 .. n, i # j
               PROVE  Range(seqs[i]) \cap Range(seqs[j]) = {}
    OBVIOUS
  <2>1. Range(seqs[i]) \subseteq CasesOn(order[i]) /\ Range(seqs[j]) \subseteq CasesOn(order[j])
    BY <1>4
  <2>2. order[i] \in Paths /\ order[j] \in Paths /\ order[i] # order[j]
    BY <1>1
  <2>3. CasesOn(order[i]) \cap CasesOn(order[j]) = {}
    BY <2>2, CasesAssumption
  <2> HIDE DEF seqs
  <2> QED  BY <2>1, <2>3
<1>6. UNION {Range(seqs[i]) : i \in 1 .. n} = KeptCases
  <2>1. \A x : x \in KeptCases <=> \E p \in Paths : x \in CasesOn(p) \ Pruned
    BY DEF KeptCases, AllCases
  <2>2. \A x : (\E p \in Paths : x \in CasesOn(p) \ Pruned)
               <=> \E i \in 1 .. n : x \in CasesOn(order[i]) \ Pruned
    BY <1>1
  <2>3. \A x : (\E i \in 1 .. n : x \in CasesOn(order[i]) \ Pruned)
               <=> \E i \in 1 .. n : x \in Range(seqs[i])
    BY <1>4
  <2> HIDE DEF seqs
  <2> QED  BY <2>1, <2>2, <2>3
<1> HIDE DEF seqs
<1>7. /\ FlattenSeq(seqs) \in Seq(KeptCases)
      /\ Range(FlattenSeq(seqs)) = KeptCases
      /\ IsInjective(FlattenSeq(seqs))
  BY <1>3, <1>4, <1>5, <1>6, FlattenFacts
<1> QED  BY <1>7 DEF Shuffled, seqs

\* What PlanIsPartition says of a plan.
IsPlan(plan) ==
  /\ SetOfAll([w \in Worker |-> TestsOf(plan[w])]) = KeptCases
  /\ \A v, w \in Worker : \A i \in DOMAIN plan[v] : \A j \in DOMAIN plan[w] :
       \A k \in DOMAIN plan[v][i] : \A l \in DOMAIN plan[w][j] :
         plan[v][i][k] = plan[w][j][l] => <<v, i, k>> = <<w, j, l>>
  /\ \A v, w \in Worker :
       /\ Len(plan[v]) <= Len(plan[w]) + 1
       /\ \A i \in DOMAIN plan[v] : Len(plan[v][i]) \in 1 .. ChunkSize

\* An injective list without repetitions, dealt out, is a plan for its elements.
LEMMA SharesArePlan ==
  ASSUME NEW cases, cases \in Seq(KeptCases), Range(cases) = KeptCases, IsInjective(cases)
  PROVE  IsPlan(Shares(cases))
<1> DEFINE plan == Shares(cases)
<1>1. \A v, w \in Worker : \A i \in DOMAIN plan[v] : \A j \in DOMAIN plan[w] :
        \A k \in DOMAIN plan[v][i] : \A l \in DOMAIN plan[w][j] :
          plan[v][i][k] = plan[w][j][l] => <<v, i, k>> = <<w, j, l>>
  <2> SUFFICES ASSUME NEW v \in Worker, NEW w \in Worker,
                      NEW i \in DOMAIN plan[v], NEW j \in DOMAIN plan[w],
                      NEW k \in DOMAIN plan[v][i], NEW l \in DOMAIN plan[w][j],
                      plan[v][i][k] = plan[w][j][l]
               PROVE  v = w /\ i = j /\ k = l
    OBVIOUS
  <2>1. \A p, q \in DOMAIN cases : cases[p] = cases[q] => p = q
    BY DEF IsInjective
  <2> QED  BY <2>1, SharesAreDisjoint
<1>2. \A v, w \in Worker :
        /\ Len(plan[v]) <= Len(plan[w]) + 1
        /\ \A i \in DOMAIN plan[v] : Len(plan[v][i]) \in 1 .. ChunkSize
  BY SharesAreEven, GroupsFitTrials
<1>3. ASSUME NEW t \in KeptCases
      PROVE  \E w \in Worker : t \in TestsOf(plan[w])
  <2>1. PICK p \in DOMAIN cases : cases[p] = t
    BY DEF Range
  <2>2. PICK w \in Worker : \E i \in DOMAIN plan[w] : \E k \in DOMAIN plan[w][i] : plan[w][i][k] = t
    BY <2>1, SharesCoverThePlan
  <2> HIDE DEF plan
  <2>3. PICK i \in DOMAIN plan[w] : \E k \in DOMAIN plan[w][i] : plan[w][i][k] = t
    BY <2>2
  <2>4. t \in Range(plan[w][i])
    BY <2>3 DEF Range
  <2> QED  BY <2>4 DEF TestsOf
<1>4. ASSUME NEW w \in Worker, NEW t \in TestsOf(plan[w])
      PROVE  t \in KeptCases
  <2>1. PICK i \in DOMAIN plan[w] : t \in Range(plan[w][i])
    BY DEF TestsOf
  <2>2. plan[w][i] \in Seq(KeptCases)
    BY GroupsFitTrials
  <2> HIDE DEF plan
  <2> QED  BY <2>1, <2>2 DEF Range
<1> HIDE DEF plan
<1>5. SetOfAll([w \in Worker |-> TestsOf(plan[w])]) = KeptCases
  BY <1>3, <1>4 DEF SetOfAll
<1> QED  BY <1>1, <1>2, <1>5 DEF IsPlan, plan

LEMMA NewPlan ==
  ASSUME GenerateTestPlan
  PROVE  IsPlan(partition')
<1>1. PICK order \in Orders : partition' = Partitioned(Subgroups(Shuffled(order)))
  BY DEF GenerateTestPlan
<1>2. partition' = Shares(Shuffled(order))
  BY <1>1 DEF Shares
<1> DEFINE cases == Shuffled(order)
<1>3. cases \in Seq(KeptCases) /\ Range(cases) = KeptCases /\ IsInjective(cases)
  BY ShuffledFacts
<1> HIDE DEF cases
<1>4. IsPlan(Shares(cases))
  BY <1>3, SharesArePlan
<1> QED  BY <1>2, <1>4 DEF cases

\* In a plan, a test case is one worker's.
LEMMA OneWorkersTest ==
  ASSUME NEW plan, IsPlan(plan), NEW v \in Worker, NEW w \in Worker,
         NEW t, t \in TestsOf(plan[v]), t \in TestsOf(plan[w])
  PROVE  v = w
<1>1. PICK i \in DOMAIN plan[v], j \in DOMAIN plan[w] : t \in Range(plan[v][i]) \cap Range(plan[w][j])
  BY DEF TestsOf
<1>2. PICK k \in DOMAIN plan[v][i], l \in DOMAIN plan[w][j] : plan[v][i][k] = plan[w][j][l]
  BY <1>1 DEF Range
<1>3. <<v, i, k>> = <<w, j, l>>
  BY <1>2 DEF IsPlan
<1> QED  BY <1>3

\* The plan is made when there is none, and not touched until a restart.
PlanInv == Planned => IsPlan(partition)

LEMMA PlanStep ==
  ASSUME PlanInv, [Next]_vars
  PROVE  PlanInv'
<1>1. CASE GenerateTestPlan
  <2>1. IsPlan(partition)'
    BY <1>1, NewPlan DEF IsPlan
  <2> QED  BY <2>1 DEF PlanInv
<1>2. CASE ~Planned' \/ (Planned /\ partition' = partition)
  BY <1>2 DEF PlanInv, IsPlan
<1>3. CASE LoadContext \/ AnalyseAgain \/ LoadFails \/ Learn \/ OpenContext \/ DumpContext \/ Kill \/ Restart
  <2>1. pc' \in {"plan", "off", "learnt", "dump", "start"}
    BY <1>3 DEF LoadContext, AnalyseAgain, LoadFails, Learn, OpenContext, DumpContext, Kill, Restart
  <2> QED  BY <1>2, <2>1 DEF Planned
<1>4. CASE Summarise \/ PostProcess
  <2>1. Planned /\ partition' = partition
    BY <1>4 DEF Summarise, PostProcess, Planned
  <2> QED  BY <1>2, <2>1
<1>5. CASE \E w \in Worker : Thread(w) \/ ThreadDies(w)
  <2>1. pc' = pc /\ partition' = partition
    BY <1>5 DEF Thread, ThreadDies, ThreadEnds, FinishCase, DiscardCase
  <2> QED  BY <1>2, <2>1 DEF Planned
<1>6. CASE Terminated \/ UNCHANGED vars
  <2>1. pc' = pc /\ partition' = partition
    BY <1>6 DEF Terminated, vars
  <2> QED  BY <1>2, <2>1 DEF Planned
<1> QED  BY <1>1, <1>3, <1>4, <1>5, <1>6 DEF Next, Main

\* generate_test_plan deals out every test case that is not pruned, each once,
\* in groups a trial can take and evenly, however the properties are shuffled.
THEOREM PlansArePartitions == Spec => []PlanIsPartition
<1>1. Init => PlanInv
  BY DEF Init, PlanInv, Planned
<1>2. PlanInv => PlanIsPartition
  BY DEF PlanInv, IsPlan, PlanIsPartition
<1> QED  BY <1>1, <1>2, PlanStep, PTL DEF Spec

-----------------------------------------------------------------------------
(* The summary *)

Owned(w) == pending[w] \cup finished[w] \cup discarded[w]
OwnedBy == [w \in Worker |-> Owned(w)]

AccountTypes ==
  /\ pending \in [Worker -> SUBSET KeptCases]
  /\ finished \in [Worker -> SUBSET KeptCases]
  /\ discarded \in [Worker -> SUBSET KeptCases]
  /\ thread \in [Worker -> {"idle", "running", "done", "dead"}]

\* A test case is in one place of one worker's account.
AccountsApart ==
  /\ \A w \in Worker : /\ pending[w] \cap finished[w] = {}
                       /\ pending[w] \cap discarded[w] = {}
                       /\ finished[w] \cap discarded[w] = {}
  /\ \A v, w \in Worker : v # w => Owned(v) \cap Owned(w) = {}

NotPlanned == pc \in {"start", "learnt", "dump", "plan"}

Whole == SetOfAll(OwnedBy) = KeptCases /\ metadata = Counts

AccountInv ==
  /\ AccountTypes
  /\ AccountsApart
  /\ \A w \in Worker : thread[w] = "done" => pending[w] = {}
  /\ NotPlanned => pending = Nothing /\ finished = Nothing /\ discarded = Nothing /\ info = NoInfo
  /\ Planned => Whole
  /\ info # NoInfo =>
       /\ Joined /\ Whole
       /\ pc \in {"post", "done", "off"}
       /\ info = [num_total_testcases |-> metadata,
                  num_total_failed    |-> Cardinality(SetOfAll(discarded))]

LEMMA AccountInit == Init => AccountInv
<1> SUFFICES ASSUME Init PROVE AccountInv
  OBVIOUS
<1>1. /\ pending = Nothing /\ finished = Nothing /\ discarded = Nothing
      /\ info = NoInfo /\ pc = "start" /\ thread = [w \in Worker |-> "idle"]
  BY DEF Init
<1>2. AccountTypes
  BY <1>1 DEF AccountTypes, Nothing
<1>3. AccountsApart
  BY <1>1 DEF AccountsApart, Nothing, Owned
<1> QED  BY <1>1, <1>2, <1>3 DEF AccountInv, Planned

\* The steps that leave every account alone.
LEMMA AccountsLeft ==
  ASSUME AccountInv, UNCHANGED <<pending, finished, discarded, metadata>>,
         thread' \in [Worker -> {"idle", "running", "done", "dead"}],
         \A w \in Worker : thread'[w] = "done" => pending[w] = {}
  PROVE  /\ AccountTypes' /\ AccountsApart'
         /\ \A w \in Worker : thread'[w] = "done" => pending'[w] = {}
         /\ Whole' <=> Whole
         /\ SetOfAll(discarded') = SetOfAll(discarded)
<1>1. AccountTypes'
  BY DEF AccountInv, AccountTypes
<1>2. AccountsApart'
  BY DEF AccountInv, AccountsApart, Owned
<1>3. Whole' <=> Whole
  BY DEF Whole, OwnedBy, Owned, SetOfAll
<1> QED  BY <1>1, <1>2, <1>3 DEF SetOfAll

LEMMA PlanOpensAccounts ==
  ASSUME AccountInv, GenerateTestPlan
  PROVE  AccountInv'
<1>1. IsPlan(partition')
  BY NewPlan
<1>2. /\ pc = "plan" /\ pc' = "test"
      /\ pending' = [w \in Worker |-> TestsOf(partition'[w])]
      /\ metadata' = Counts
      /\ thread' = [w \in Worker |-> "running"]
      /\ finished' = finished /\ discarded' = discarded /\ info' = info
  <2> HIDE DEF Counts
  <2> QED  BY DEF GenerateTestPlan
<1>3. finished = Nothing /\ discarded = Nothing /\ info = NoInfo
  BY <1>2 DEF AccountInv, NotPlanned
<1>4. SetOfAll(pending') = KeptCases
  BY <1>1, <1>2 DEF IsPlan
<1>5. \A w \in Worker : pending'[w] \subseteq KeptCases
  BY <1>4 DEF SetOfAll
<1>6. \A v, w \in Worker : v # w => pending'[v] \cap pending'[w] = {}
  BY <1>1, <1>2, OneWorkersTest
<1>7. \A w \in Worker : /\ finished'[w] = {} /\ discarded'[w] = {}
                        /\ Owned(w)' = pending'[w]
  BY <1>2, <1>3 DEF Nothing, Owned
<1>8. AccountTypes'
  <2>1. pending' \in [Worker -> SUBSET KeptCases]
    <3>1. pending' = [w \in Worker |-> pending'[w]]
      BY <1>2
    <3> QED  BY <1>5, <3>1
  <2> QED  BY <1>2, <1>3, <2>1 DEF AccountTypes, Nothing
<1>9. AccountsApart'
  BY <1>6, <1>7 DEF AccountsApart
<1>10. Whole'
  BY <1>2, <1>4, <1>7 DEF Whole, OwnedBy, SetOfAll
<1>11. \A w \in Worker : thread'[w] # "done"
  BY <1>2
<1>12. Planned' /\ ~NotPlanned'
  BY <1>2 DEF Planned, NotPlanned
<1>13. info' = NoInfo
  BY <1>2, <1>3
<1> QED  BY <1>8, <1>9, <1>10, <1>11, <1>12, <1>13 DEF AccountInv

LEMMA MainKeepsAccounts ==
  ASSUME AccountInv, Main
  PROVE  AccountInv'
<1>1. CASE LoadContext \/ AnalyseAgain \/ LoadFails \/ Learn \/ OpenContext \/ DumpContext
  <2>1. /\ UNCHANGED <<pending, finished, discarded, metadata, thread, info>>
        /\ NotPlanned /\ (NotPlanned' \/ pc' = "off")
    BY <1>1 DEF LoadContext, AnalyseAgain, LoadFails, Learn, OpenContext, DumpContext, NotPlanned, workVars
  <2>2. info' = NoInfo /\ ~Planned'
    BY <2>1 DEF AccountInv, NotPlanned, Planned
  <2>3. /\ AccountTypes' /\ AccountsApart'
        /\ \A w \in Worker : thread'[w] = "done" => pending'[w] = {}
    BY <2>1, AccountsLeft DEF AccountInv, AccountTypes
  <2> QED  BY <2>1, <2>2, <2>3 DEF AccountInv
<1>2. CASE GenerateTestPlan
  BY <1>2, PlanOpensAccounts
<1>3. CASE Summarise
  <2>1. /\ pc = "test" /\ pc' = "post" /\ Joined
        /\ UNCHANGED <<pending, finished, discarded, metadata, thread>>
        /\ info' = [num_total_testcases |-> metadata,
                    num_total_failed |-> MapThenSumSet(LAMBDA w : Cardinality(discarded[w]), Worker)]
    BY <1>3 DEF Summarise, workVars
  <2>2. MapThenSumSet(LAMBDA w : Cardinality(discarded[w]), Worker) = Cardinality(SetOfAll(discarded))
    <3>1. \A w \in Worker : IsFiniteSet(discarded[w])
      <4>1. \A w \in Worker : discarded[w] \in SUBSET KeptCases
        BY DEF AccountInv, AccountTypes
      <4> QED  BY <4>1, CasesFinite, FS_Subset
    <3>2. \A v, w \in Worker : v # w => discarded[v] \cap discarded[w] = {}
      BY DEF AccountInv, AccountsApart, Owned
    <3>3. FiniteAndApart(discarded, Worker)
      BY <3>1, <3>2, CasesFinite DEF FiniteAndApart
    <3>4. SumOfSizes(discarded, Worker) = Cardinality(UnionOf(discarded, Worker))
      BY <3>3, SumOfCardinalities
    <3>5. UnionOf(discarded, Worker) = SetOfAll(discarded)
      BY DEF UnionOf, SetOfAll
    <3>6. MapThenSumSet(LAMBDA w : Cardinality(discarded[w]), Worker) = SumOfSizes(discarded, Worker)
      BY DEF SumOfSizes, MapThenSumSet, MapThenFoldSet
    <3> QED  BY <3>4, <3>5, <3>6
  <2>3. Planned /\ Planned' /\ ~NotPlanned' /\ Joined'
    BY <2>1 DEF Planned, NotPlanned, Joined
  <2>4. Whole
    BY <2>3 DEF AccountInv
  <2>5. /\ AccountTypes' /\ AccountsApart'
        /\ \A w \in Worker : thread'[w] = "done" => pending'[w] = {}
        /\ Whole'
        /\ SetOfAll(discarded') = SetOfAll(discarded)
    BY <2>1, <2>4, AccountsLeft DEF AccountInv, AccountTypes
  <2>6. info' = [num_total_testcases |-> metadata',
                 num_total_failed |-> Cardinality(SetOfAll(discarded'))]
    BY <2>1, <2>2, <2>5
  <2>7. pc' \in {"post", "done", "off"}
    BY <2>1
  <2> QED  BY <2>3, <2>5, <2>6, <2>7 DEF AccountInv
<1>4. CASE PostProcess
  <2>1. /\ pc = "post" /\ pc' = "done"
        /\ UNCHANGED <<pending, finished, discarded, metadata, thread, info>>
    BY <1>4 DEF PostProcess, workVars
  <2>2. Planned /\ Planned' /\ ~NotPlanned' /\ (Joined' <=> Joined)
    BY <2>1 DEF Planned, NotPlanned, Joined
  <2>3. /\ AccountTypes' /\ AccountsApart'
        /\ \A w \in Worker : thread'[w] = "done" => pending'[w] = {}
        /\ Whole'
        /\ SetOfAll(discarded') = SetOfAll(discarded)
    BY <2>1, <2>2, AccountsLeft DEF AccountInv, AccountTypes
  <2> QED  BY <2>1, <2>2, <2>3 DEF AccountInv
<1> QED  BY <1>1, <1>2, <1>3, <1>4 DEF Main

\* What a running thread does with its account stays within it.
LEMMA ThreadsKeepAccounts ==
  ASSUME AccountInv, NEW w \in Worker, Thread(w) \/ ThreadDies(w)
  PROVE  AccountInv'
<1>1. Running(w) /\ UNCHANGED <<pc, metadata, info>>
  BY DEF Thread, FinishCase, DiscardCase, Consume, ThreadEnds, ThreadDies
<1>2. info' = NoInfo
  <2>1. ~Joined
    BY <1>1 DEF Running, Joined
  <2> QED  BY <1>1, <2>1 DEF AccountInv
<1>3. (NotPlanned' <=> NotPlanned) /\ (Planned' <=> Planned)
  BY <1>1 DEF NotPlanned, Planned
<1>4. CASE \E t \in pending[w] : FinishCase(w, t) \/ DiscardCase(w, t)
  <2>1. PICK t \in pending[w] : FinishCase(w, t) \/ DiscardCase(w, t)
    BY <1>4
  <2>2. /\ thread' = thread
        /\ pending' = [pending EXCEPT ![w] = @ \ {t}]
        /\ \/ finished' = [finished EXCEPT ![w] = @ \cup {t}] /\ discarded' = discarded
           \/ discarded' = [discarded EXCEPT ![w] = @ \cup {t}] /\ finished' = finished
    BY <2>1 DEF FinishCase, DiscardCase, Consume
  <2>3. AccountTypes /\ AccountsApart
    BY DEF AccountInv
  <2>4. t \in KeptCases
    BY <2>3 DEF AccountTypes
  <2>5. AccountTypes'
    BY <2>2, <2>3, <2>4 DEF AccountTypes
  <2>6. \A v \in Worker : v # w => /\ pending'[v] = pending[v] /\ finished'[v] = finished[v]
                                   /\ discarded'[v] = discarded[v]
    BY <2>2, <2>3 DEF AccountTypes
  <2>7. /\ pending'[w] = pending[w] \ {t}
        /\ \/ finished'[w] = finished[w] \cup {t} /\ discarded'[w] = discarded[w]
           \/ discarded'[w] = discarded[w] \cup {t} /\ finished'[w] = finished[w]
    BY <2>2, <2>3 DEF AccountTypes
  <2>8. \A v \in Worker : Owned(v)' = Owned(v)
    <3>1. Owned(w)' = Owned(w)
      BY <2>7 DEF Owned
    <3> QED  BY <2>6, <3>1 DEF Owned
  <2>9. AccountsApart'
    <3>1. \A v \in Worker : /\ pending'[v] \cap finished'[v] = {}
                            /\ pending'[v] \cap discarded'[v] = {}
                            /\ finished'[v] \cap discarded'[v] = {}
      BY <2>3, <2>6, <2>7 DEF AccountsApart
    <3> QED  BY <2>3, <2>8, <3>1 DEF AccountsApart
  <2>10. \A v \in Worker : thread'[v] = "done" => pending'[v] = {}
    BY <2>2, <2>6, <2>7 DEF AccountInv
  <2>11. ~NotPlanned
    <3>1. pending # Nothing
      BY DEF Nothing
    <3> QED  BY <3>1 DEF AccountInv
  <2>12. Whole' <=> Whole
    BY <1>1, <2>8 DEF Whole, OwnedBy, SetOfAll
  <2> QED  BY <1>2, <1>3, <2>5, <2>9, <2>10, <2>11, <2>12 DEF AccountInv
<1>5. CASE ThreadEnds(w) \/ ThreadDies(w)
  <2>1. /\ UNCHANGED <<pending, finished, discarded>>
        /\ \/ pending[w] = {} /\ thread' = [thread EXCEPT ![w] = "done"]
           \/ thread' = [thread EXCEPT ![w] = "dead"]
    BY <1>5 DEF ThreadEnds, ThreadDies
  <2>2. /\ thread' \in [Worker -> {"idle", "running", "done", "dead"}]
        /\ \A v \in Worker : thread'[v] = "done" => pending[v] = {}
    BY <2>1 DEF AccountInv, AccountTypes
  <2>3. /\ AccountTypes' /\ AccountsApart'
        /\ \A v \in Worker : thread'[v] = "done" => pending'[v] = {}
        /\ Whole' <=> Whole
    BY <1>1, <2>1, <2>2, AccountsLeft
  <2> QED  BY <1>2, <1>3, <2>1, <2>3 DEF AccountInv
<1> QED  BY <1>4, <1>5 DEF Thread

LEMMA AccountStep ==
  ASSUME AccountInv, [Next]_vars
  PROVE  AccountInv'
<1>1. CASE Main
  BY <1>1, MainKeepsAccounts
<1>2. CASE \E w \in Worker : Thread(w) \/ ThreadDies(w)
  BY <1>2, ThreadsKeepAccounts
<1>3. CASE Kill \/ Terminated \/ UNCHANGED vars
  <2>1. /\ UNCHANGED <<pending, finished, discarded, metadata, thread, info>>
        /\ pc' = "off" \/ pc' = pc
    BY <1>3 DEF Kill, Terminated, vars, workVars
  <2>2. (Planned' => Planned) /\ (NotPlanned' => NotPlanned) /\ (Joined' <=> Joined)
    BY <2>1 DEF Planned, NotPlanned, Joined
  <2>3. /\ AccountTypes' /\ AccountsApart'
        /\ \A w \in Worker : thread'[w] = "done" => pending'[w] = {}
        /\ Whole' <=> Whole
        /\ SetOfAll(discarded') = SetOfAll(discarded)
    BY <2>1, AccountsLeft DEF AccountInv, AccountTypes
  <2> QED  BY <2>1, <2>2, <2>3 DEF AccountInv
<1>4. CASE Restart
  <2>1. /\ pending' = Nothing /\ finished' = Nothing /\ discarded' = Nothing
        /\ info' = NoInfo /\ pc' = "start" /\ thread' = [w \in Worker |-> "idle"]
    BY <1>4 DEF Restart
  <2>2. AccountTypes'
    BY <2>1 DEF AccountTypes, Nothing
  <2>3. AccountsApart'
    BY <2>1 DEF AccountsApart, Nothing, Owned
  <2>4. ~Planned'
    BY <2>1 DEF Planned
  <2> QED  BY <2>1, <2>2, <2>3, <2>4 DEF AccountInv
<1> QED  BY <1>1, <1>2, <1>3, <1>4 DEF Next

LEMMA AccountsGiveSummary == AccountInv => SummaryAddsUp
<1> SUFFICES ASSUME AccountInv, info # NoInfo
             PROVE  /\ info.num_total_failed = Cardinality(SetOfAll(discarded))
                    /\ \A w \in Worker : thread[w] # "dead" => pending[w] = {}
                    /\ (\A w \in Worker : thread[w] # "dead") =>
                         Cardinality(SetOfAll(finished)) + info.num_total_failed = metadata.run
  BY DEF SummaryAddsUp
<1>1. /\ Joined /\ Whole
      /\ info.num_total_failed = Cardinality(SetOfAll(discarded))
  BY DEF AccountInv
<1>2. \A w \in Worker : thread[w] # "dead" => pending[w] = {}
  BY <1>1 DEF AccountInv, Joined
<1>3. ASSUME \A w \in Worker : thread[w] # "dead"
      PROVE  Cardinality(SetOfAll(finished)) + Cardinality(SetOfAll(discarded)) = metadata.run
  <2> DEFINE F == SetOfAll(finished)
             D == SetOfAll(discarded)
  <2>1. F \cup D = KeptCases
    <3>1. \A w \in Worker : Owned(w) = finished[w] \cup discarded[w]
      BY <1>2, <1>3 DEF Owned
    <3> QED  BY <1>1, <3>1 DEF Whole, OwnedBy, SetOfAll
  <2>2. F \cap D = {}
    <3>1. ASSUME NEW v \in Worker, NEW w \in Worker, NEW t \in finished[v] \cap discarded[w]
          PROVE  FALSE
      <4>1. t \in Owned(v) \cap Owned(w)
        BY DEF Owned
      <4>2. v = w
        BY <4>1 DEF AccountInv, AccountsApart
      <4> QED  BY <3>1, <4>2 DEF AccountInv, AccountsApart
    <3> QED  BY <3>1 DEF SetOfAll
  <2> HIDE DEF F, D
  <2>3. IsFiniteSet(F) /\ IsFiniteSet(D)
    BY <2>1, CasesFinite, FS_Subset
  <2>4. Cardinality(KeptCases) = Cardinality(F) + Cardinality(D)
    BY <2>1, <2>2, <2>3, DisjointUnion
  <2>5. metadata.run = Cardinality(KeptCases)
    BY <1>1 DEF Whole, Counts
  <2> QED  BY <2>4, <2>5 DEF F, D
<1> QED  BY <1>1, <1>2, <1>3

\* The number of failed test cases that testrun_info.json states is that of the
\* test cases discarded; they and the finished ones are all that were to be run,
\* unless the thread of a worker died.
THEOREM SummariesAddUp == Spec => []SummaryAddsUp
  BY AccountInit, AccountStep, AccountsGiveSummary, PTL DEF Spec

-----------------------------------------------------------------------------
(* The threads together, and each by itself *)

\* A step of a thread: it takes one of its own test cases, or ends.
Takes(w, t) ==
  /\ t \in pending[w]
  /\ pending' = [pending EXCEPT ![w] = @ \ {t}]
  /\ \/ finished' = [finished EXCEPT ![w] = @ \cup {t}] /\ discarded' = discarded
     \/ discarded' = [discarded EXCEPT ![w] = @ \cup {t}] /\ finished' = finished

LEMMA ThreadSteps ==
  ASSUME NEW w \in Worker, Thread(w) \/ ThreadDies(w)
  PROVE  /\ Running(w) /\ UNCHANGED <<pc, partition>>
         /\ \/ thread' = thread /\ \E t \in pending[w] : Takes(w, t)
            \/ /\ UNCHANGED <<pending, finished, discarded>>
               /\ \E end \in {"done", "dead"} : thread' = [thread EXCEPT ![w] = end]
<1>1. CASE \E t \in pending[w] : FinishCase(w, t) \/ DiscardCase(w, t)
  BY <1>1 DEF FinishCase, DiscardCase, Consume, Takes
<1>2. CASE ThreadEnds(w)
  BY <1>2 DEF ThreadEnds
<1>3. CASE ThreadDies(w)
  BY <1>3 DEF ThreadDies
<1> QED  BY <1>1, <1>2, <1>3 DEF Thread

\* Taking a test case from one worker's account takes it from them all.
LEMMA TakesFromAll ==
  ASSUME AccountInv, NEW w \in Worker, NEW t \in pending[w], Takes(w, t)
  PROVE  /\ t \in SetOfAll(pending)
         /\ SetOfAll(pending') = SetOfAll(pending) \ {t}
         /\ \/ /\ SetOfAll(finished') = SetOfAll(finished) \cup {t}
               /\ SetOfAll(discarded') = SetOfAll(discarded)
            \/ /\ SetOfAll(discarded') = SetOfAll(discarded) \cup {t}
               /\ SetOfAll(finished') = SetOfAll(finished)
         /\ \A v \in Worker : Owned(v)' = Owned(v)
<1>1. AccountTypes /\ AccountsApart
  BY DEF AccountInv
<1>2. \A v \in Worker : v # w => /\ pending'[v] = pending[v] /\ t \notin pending[v]
                                 /\ finished'[v] = finished[v] /\ discarded'[v] = discarded[v]
  BY <1>1 DEF Takes, AccountTypes, AccountsApart, Owned
<1>3. /\ pending'[w] = pending[w] \ {t}
      /\ \/ finished'[w] = finished[w] \cup {t} /\ discarded' = discarded
         \/ discarded'[w] = discarded[w] \cup {t} /\ finished' = finished
  BY <1>1 DEF Takes, AccountTypes
<1>4. SetOfAll(pending') = SetOfAll(pending) \ {t}
  BY <1>2, <1>3 DEF SetOfAll
<1>5. \A v \in Worker : Owned(v)' = Owned(v)
  <2>1. Owned(w)' = Owned(w)
    BY <1>3 DEF Owned
  <2> QED  BY <1>2, <2>1 DEF Owned
<1>6. CASE finished'[w] = finished[w] \cup {t} /\ discarded' = discarded
  BY <1>2, <1>4, <1>5, <1>6 DEF SetOfAll
<1>7. CASE discarded'[w] = discarded[w] \cup {t} /\ finished' = finished
  BY <1>2, <1>4, <1>5, <1>7 DEF SetOfAll
<1> QED  BY <1>3, <1>6, <1>7

\* No thread is started before there is a plan, and none is idle after.
IdleInv ==
  /\ NotPlanned => Idle
  /\ Idle => pending = Nothing /\ finished = Nothing /\ discarded = Nothing

LEMMA IdleStep ==
  ASSUME IdleInv, AccountInv, [Next]_vars
  PROVE  IdleInv'
<1>0. 0 \in Worker
  BY ChunkAssumption DEF Worker
<1>1. CASE GenerateTestPlan
  <2>1. pc' = "test" /\ thread' = [w \in Worker |-> "running"]
    BY <1>1 DEF GenerateTestPlan
  <2> QED  BY <1>0, <2>1 DEF IdleInv, Idle, NotPlanned
<1>2. CASE \E w \in Worker : Thread(w) \/ ThreadDies(w)
  <2>1. PICK w \in Worker : Thread(w) \/ ThreadDies(w)
    BY <1>2
  <2>2. /\ Running(w) /\ pc' = pc
        /\ \/ thread' = thread
           \/ \E end \in {"done", "dead"} : thread' = [thread EXCEPT ![w] = end]
    BY <2>1, ThreadSteps
  <2>3. thread'[w] # "idle"
    BY <2>2 DEF Running, AccountInv, AccountTypes
  <2>4. ~Idle
    BY <2>2 DEF Running, Idle
  <2> QED  BY <2>2, <2>3, <2>4 DEF IdleInv, Idle, NotPlanned
<1>3. CASE Restart
  BY <1>3 DEF Restart, IdleInv, Idle, Nothing
<1>4. CASE \/ LoadContext \/ AnalyseAgain \/ LoadFails \/ Learn \/ OpenContext \/ DumpContext
           \/ Summarise \/ PostProcess \/ Kill \/ Terminated \/ UNCHANGED vars
  <2>1. UNCHANGED workVars /\ (NotPlanned' => NotPlanned)
    BY <1>4 DEF LoadContext, AnalyseAgain, LoadFails, Learn, OpenContext, DumpContext, Summarise,
                PostProcess, Kill, Terminated, vars, NotPlanned
  <2> QED  BY <2>1 DEF IdleInv, Idle, workVars
<1> QED  BY <1>1, <1>2, <1>3, <1>4 DEF Next, Main

LEMMA NothingAtAll == SetOfAll(Nothing) = {}
  BY DEF SetOfAll, Nothing

\* The variables of the campaign after the steps that do not touch an account.
LEMMA CampaignLeft ==
  ASSUME UNCHANGED workVars
  PROVE  UNCHANGED Campaign!campaignVars
  BY DEF workVars, Campaign!campaignVars, Idle, SetOfAll

LEMMA CampaignStep ==
  ASSUME IdleInv, AccountInv, [Next]_vars
  PROVE  [Campaign!Next \/ (pc = "off" /\ Campaign!Init')]_(Campaign!campaignVars)
<1>0. 0 \in Worker
  BY ChunkAssumption DEF Worker
<1>1. CASE GenerateTestPlan
  <2>1. /\ pc = "plan" /\ thread' = [w \in Worker |-> "running"]
        /\ pending' = [w \in Worker |-> TestsOf(partition'[w])]
        /\ finished' = finished /\ discarded' = discarded
    BY <1>1 DEF GenerateTestPlan
  <2>2. Idle /\ ~Idle'
    BY <1>0, <2>1 DEF IdleInv, NotPlanned, Idle
  <2>3. SetOfAll(pending') = KeptCases
    BY <1>1, <2>1, NewPlan DEF IsPlan
  <2> QED  BY <2>1, <2>2, <2>3 DEF Campaign!campaignVars, SetOfAll
<1>2. CASE \E w \in Worker : Thread(w) \/ ThreadDies(w)
  <2>1. PICK w \in Worker : Thread(w) \/ ThreadDies(w)
    BY <1>2
  <2>2. /\ Running(w)
        /\ \/ thread' = thread /\ \E t \in pending[w] : Takes(w, t)
           \/ /\ UNCHANGED <<pending, finished, discarded>>
              /\ \E end \in {"done", "dead"} : thread' = [thread EXCEPT ![w] = end]
    BY <2>1, ThreadSteps
  <2>3. ~Idle /\ ~Idle'
    BY <2>2 DEF Running, Idle, AccountInv, AccountTypes
  <2>4. CASE UNCHANGED <<pending, finished, discarded>>
    BY <2>3, <2>4 DEF Campaign!campaignVars, SetOfAll
  <2>5. CASE \E t \in pending[w] : Takes(w, t)
    <3>1. PICK t \in pending[w] : Takes(w, t)
      BY <2>5
    <3>2. /\ t \in SetOfAll(pending)
          /\ SetOfAll(pending') = SetOfAll(pending) \ {t}
          /\ \/ /\ SetOfAll(finished') = SetOfAll(finished) \cup {t}
                /\ SetOfAll(discarded') = SetOfAll(discarded)
             \/ /\ SetOfAll(discarded') = SetOfAll(discarded) \cup {t}
                /\ SetOfAll(finished') = SetOfAll(finished)
      BY <3>1, TakesFromAll
    <3>3. /\ SetOfAll(pending)' = SetOfAll(pending') /\ SetOfAll(finished)' = SetOfAll(finished')
          /\ SetOfAll(discarded)' = SetOfAll(discarded')
      BY DEF SetOfAll
    <3>4. Campaign!Finish(t) \/ Campaign!Discard(t)
      BY <2>3, <3>2, <3>3 DEF Campaign!Finish, Campaign!Discard, Campaign!Consume
    <3> QED  BY <2>3, <3>2, <3>4 DEF Campaign!Next
  <2> QED  BY <2>2, <2>4, <2>5
<1>3. CASE Restart
  <2>1. /\ pc = "off" /\ Idle'
        /\ finished' = Nothing /\ discarded' = Nothing
    BY <1>3 DEF Restart, Idle
  <2>2. SetOfAll(finished)' = {} /\ SetOfAll(discarded)' = {}
    BY <2>1, NothingAtAll DEF SetOfAll
  <2> QED  BY <2>1, <2>2 DEF Campaign!Init
<1>4. CASE \/ LoadContext \/ AnalyseAgain \/ LoadFails \/ Learn \/ OpenContext \/ DumpContext
           \/ Summarise \/ PostProcess \/ Kill \/ Terminated \/ UNCHANGED vars
  <2>1. UNCHANGED workVars
    BY <1>4 DEF LoadContext, AnalyseAgain, LoadFails, Learn, OpenContext, DumpContext, Summarise,
                PostProcess, Kill, Terminated, vars
  <2> QED  BY <2>1, CampaignLeft
<1> QED  BY <1>1, <1>2, <1>3, <1>4 DEF Next, Main

\* The worker threads of one process implement, together, the campaign over all
\* the test cases to be run that a worker implements over its share: planning
\* and the death of a thread are not seen from outside.
THEOREM ThreadsImplementOneCampaign == Spec => ThreadsAreOneCampaign
<1>1. Init => IdleInv /\ Campaign!Init
  BY NothingAtAll DEF Init, IdleInv, Idle, Campaign!Init
<1> QED  BY <1>1, AccountInit, AccountStep, IdleStep, CampaignStep, PTL
         DEF Spec, ThreadsAreOneCampaign

\* What TrialRunner assumes of the partition it is given (PartitionAssumption).
RunnersShare(share) ==
  /\ share \in Seq(Seq(KeptCases))
  /\ \A i, j \in DOMAIN share : \A k \in DOMAIN share[i] : \A l \in DOMAIN share[j] :
       share[i][k] = share[j][l] => i = j /\ k = l

ShareInv ==
  Planned => \A w \in Worker : RunnersShare(partition[w]) /\ Owned(w) = TestsOf(partition[w])

LEMMA NewShares ==
  ASSUME GenerateTestPlan
  PROVE  \A w \in Worker : RunnersShare(partition'[w])
<1>1. PICK order \in Orders : partition' = Partitioned(Subgroups(Shuffled(order)))
  BY DEF GenerateTestPlan
<1> DEFINE cases == Shuffled(order)
<1>2. cases \in Seq(KeptCases)
  BY ShuffledFacts
<1> HIDE DEF cases
<1>3. Subgroups(cases) \in Seq(Seq(KeptCases))
  BY <1>2, SubgroupsFact
<1>4. partition' \in [Worker -> Seq(Seq(KeptCases))]
  BY <1>1, <1>3, PartitionedFact DEF cases
<1>5. \A w \in Worker : \A i, j \in DOMAIN partition'[w] :
        \A k \in DOMAIN partition'[w][i] : \A l \in DOMAIN partition'[w][j] :
          partition'[w][i][k] = partition'[w][j][l] => i = j /\ k = l
  BY NewPlan DEF IsPlan
<1> QED  BY <1>4, <1>5 DEF RunnersShare

LEMMA ShareStep ==
  ASSUME ShareInv, AccountInv, [Next]_vars
  PROVE  ShareInv'
<1>1. CASE GenerateTestPlan
  <2>1. \A w \in Worker : RunnersShare(partition'[w])
    BY <1>1, NewShares
  <2>2. /\ pc = "plan" /\ pending' = [w \in Worker |-> TestsOf(partition'[w])]
        /\ finished' = finished /\ discarded' = discarded
    BY <1>1 DEF GenerateTestPlan
  <2>3. finished = Nothing /\ discarded = Nothing
    BY <2>2 DEF AccountInv, NotPlanned
  <2>4. \A w \in Worker : Owned(w)' = TestsOf(partition'[w])
    BY <2>2, <2>3 DEF Owned, Nothing
  <2> QED  BY <2>1, <2>4 DEF ShareInv, RunnersShare, TestsOf
<1>2. CASE \E w \in Worker : Thread(w) \/ ThreadDies(w)
  <2>1. PICK w \in Worker : Thread(w) \/ ThreadDies(w)
    BY <1>2
  <2>2. /\ pc' = pc /\ partition' = partition
        /\ \/ \E t \in pending[w] : Takes(w, t)
           \/ UNCHANGED <<pending, finished, discarded>>
    BY <2>1, ThreadSteps
  <2>3. \A v \in Worker : Owned(v)' = Owned(v)
    BY <2>2, TakesFromAll DEF Owned
  <2> QED  BY <2>2, <2>3 DEF ShareInv, Planned, RunnersShare, TestsOf
<1>3. CASE LoadContext \/ AnalyseAgain \/ LoadFails \/ Learn \/ OpenContext \/ DumpContext \/ Kill \/ Restart
  <2>1. ~Planned'
    BY <1>3 DEF LoadContext, AnalyseAgain, LoadFails, Learn, OpenContext, DumpContext, Kill, Restart, Planned
  <2> QED  BY <2>1 DEF ShareInv
<1>4. CASE Summarise \/ PostProcess \/ Terminated \/ UNCHANGED vars
  <2>1. UNCHANGED <<partition, pending, finished, discarded>> /\ (Planned' => Planned)
    BY <1>4 DEF Summarise, PostProcess, Terminated, vars, workVars, Planned
  <2> QED  BY <2>1 DEF ShareInv, RunnersShare, TestsOf, Owned
<1> QED  BY <1>1, <1>2, <1>3, <1>4 DEF Next, Main

\* The share of each worker is one that TrialRunner can take (it has no test
\* case twice, PartitionAssumption), and what a worker has pending, finished
\* and discarded is exactly that share as long as it works.
THEOREM EveryShareSuitsItsRunner ==
  Spec => [](Planned => \A w \in Worker :
               RunnersShare(partition[w]) /\ Owned(w) = TestsOf(partition[w]))
<1>1. Init => ShareInv
  BY DEF Init, ShareInv, Planned
<1>2. ShareInv <=> (Planned => \A w \in Worker :
                      RunnersShare(partition[w]) /\ Owned(w) = TestsOf(partition[w]))
  BY DEF ShareInv
<1> QED  BY <1>1, <1>2, AccountInit, AccountStep, ShareStep, PTL DEF Spec
=============================================================================
