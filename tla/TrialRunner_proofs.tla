------------------------- MODULE TrialRunner_proofs -------------------------
(***************************************************************************)
(* Proofs about TrialRunner, for every set of tests, every partition and   *)
(* every bound.  The inductive invariant is TypeOK together with SnapsInv  *)
(* (how many snapshots there are at each pc, and what the last one holds)  *)
(* and HeadInv (the test case under way is still the head of its group);   *)
(* the other theorems add what their property needs, in a section each.    *)
(***************************************************************************)
EXTENDS TrialRunner, TLAPS

-----------------------------------------------------------------------------
(* Facts about sequences. *)

\* Popping and reading the last snapshot.
LEMMA FrontLast ==
  ASSUME NEW S, NEW s \in Seq(S), Len(s) >= 2
  PROVE  /\ Front(s) \in Seq(S)
         /\ Len(Front(s)) = Len(s) - 1
         /\ Last(Front(s)) = s[Len(s) - 1]
         /\ Last(Front(s)) \in S
  BY DEF Front, Last

\* The last element of a non-empty sequence, and of one with an element appended.
LEMMA LastElement ==
  ASSUME NEW S, NEW s \in Seq(S), s # << >>
  PROVE  Len(s) >= 1 /\ Last(s) \in S
  BY DEF Last

LEMMA LastAppend ==
  ASSUME NEW S, NEW s \in Seq(S), NEW e \in S
  PROVE  /\ Append(s, e) \in Seq(S)
         /\ Len(Append(s, e)) = Len(s) + 1
         /\ Last(Append(s, e)) = e
  BY DEF Last

-----------------------------------------------------------------------------
(* Facts about plans. *)

\* No test case is at two places of the plan.
OnceEach(p) ==
  \A i, j \in DOMAIN p : \A k \in DOMAIN p[i] : \A l \in DOMAIN p[j] :
    p[i][k] = p[j][l] => i = j /\ k = l

\* The test cases of a plan, by their places.
LEMMA TestsOfMember ==
  ASSUME NEW p \in Seq(Seq(Tests)), NEW t
  PROVE  t \in TestsOf(p) <=> \E i \in DOMAIN p : \E k \in DOMAIN p[i] : p[i][k] = t
  BY DEF TestsOf, Range

LEMMA PlanNotEmpty ==
  ASSUME NEW p \in Seq(Seq(Tests)), TestsOf(p) # {}
  PROVE  p # << >> /\ p[1] \in Seq(Tests)
  BY DEF TestsOf

Popped(p) == [p EXCEPT ![1] = Tail(@)]

\* Popping the head of the first group removes exactly that test case.
LEMMA PopOne ==
  ASSUME NEW p \in Seq(Seq(Tests)), p # << >>, p[1] # << >>
  PROVE  /\ Popped(p) \in Seq(Seq(Tests))
         /\ p[1][1] \in Tests
         /\ p[1][1] \in TestsOf(p)
         /\ OnceEach(p) => /\ OnceEach(Popped(p))
                           /\ TestsOf(Popped(p)) = TestsOf(p) \ {p[1][1]}
  <1> DEFINE g == p[1]
             q == Popped(p)
  <1>1. g \in Seq(Tests) /\ Len(g) >= 1 /\ 1 \in DOMAIN p /\ 1 \in DOMAIN g
    OBVIOUS
  <1>2. /\ Tail(g) \in Seq(Tests)
        /\ DOMAIN Tail(g) = 1 .. Len(g) - 1
        /\ \A k \in DOMAIN Tail(g) : Tail(g)[k] = g[k + 1]
    BY <1>1
  <1>3. /\ q \in Seq(Seq(Tests))
        /\ DOMAIN q = DOMAIN p
        /\ q[1] = Tail(g)
        /\ \A i \in DOMAIN p : i # 1 => q[i] = p[i]
    BY <1>1, <1>2 DEF Popped
  <1>4. p[1][1] \in Tests /\ p[1][1] \in TestsOf(p)
    BY <1>1, TestsOfMember
  <1> DEFINE At(m, n) == IF m = 1 THEN n + 1 ELSE n
  <1>5. ASSUME NEW m \in DOMAIN q, NEW n \in DOMAIN q[m]
        PROVE  /\ m \in DOMAIN p /\ n \in Nat
               /\ At(m, n) \in DOMAIN p[m] /\ p[m][At(m, n)] = q[m][n]
               /\ ~(m = 1 /\ At(m, n) = 1)
    <2> HIDE DEF q
    <2>1. CASE m = 1
      BY <2>1, <1>1, <1>2, <1>3
    <2>2. CASE m # 1
      BY <2>2, <1>1, <1>3
    <2> QED BY <2>1, <2>2
  <1>6. ASSUME OnceEach(p)
        PROVE  OnceEach(q)
    <2> SUFFICES ASSUME NEW i \in DOMAIN q, NEW j \in DOMAIN q,
                        NEW k \in DOMAIN q[i], NEW l \in DOMAIN q[j],
                        q[i][k] = q[j][l]
                 PROVE  i = j /\ k = l
      BY DEF OnceEach
    <2> HIDE DEF q
    <2>1. i = j /\ At(i, k) = At(j, l)
      BY <1>5, <1>6 DEF OnceEach
    <2> QED BY <2>1, <1>5
  <1>7. ASSUME OnceEach(p)
        PROVE  TestsOf(q) = TestsOf(p) \ {p[1][1]}
    <2>1. ASSUME NEW t \in TestsOf(q)
          PROVE  t \in TestsOf(p) \ {p[1][1]}
      <3>1. PICK i \in DOMAIN q : \E k \in DOMAIN q[i] : q[i][k] = t
        BY <2>1, <1>3, TestsOfMember
      <3>0. PICK k \in DOMAIN q[i] : q[i][k] = t
        BY <3>1
      <3>2. t # p[1][1]
        BY <3>0, <1>5, <1>1, <1>7 DEF OnceEach
      <3> QED BY <3>0, <3>2, <1>5, TestsOfMember
    <2>2. ASSUME NEW t \in TestsOf(p) \ {p[1][1]}
          PROVE  t \in TestsOf(q)
      <3>1. PICK i \in DOMAIN p : \E k \in DOMAIN p[i] : p[i][k] = t
        BY <2>2, TestsOfMember
      <3>0. PICK k \in DOMAIN p[i] : p[i][k] = t
        BY <3>1
      <3>2. CASE i = 1
        <4>1. k - 1 \in DOMAIN Tail(g) /\ Tail(g)[k - 1] = t
          BY <2>2, <3>0, <3>2, <1>1, <1>2
        <4> QED BY <4>1, <1>1, <1>3, TestsOfMember
      <3>3. CASE i # 1
        BY <3>1, <3>3, <1>3, TestsOfMember
      <3> QED BY <3>2, <3>3
    <2> QED BY <2>1, <2>2
  <1> QED BY <1>3, <1>4, <1>6, <1>7

\* The place of an element after the first one is removed.
LEMMA Predecessor ==
  ASSUME NEW n \in Nat, NEW m \in 1 .. n, m # 1
  PROVE  m - 1 \in 1 .. n - 1 /\ (m - 1) + 1 = m
  OBVIOUS

\* Dropping an exhausted group changes nothing about the test cases.
LEMMA DropExhausted ==
  ASSUME NEW p \in Seq(Seq(Tests)), p # << >>, p[1] = << >>
  PROVE  /\ Tail(p) \in Seq(Seq(Tests))
         /\ TestsOf(Tail(p)) = TestsOf(p)
         /\ OnceEach(p) => OnceEach(Tail(p))
  <1> DEFINE q == Tail(p)
  <1>1. /\ q \in Seq(Seq(Tests))
        /\ DOMAIN q = 1 .. Len(p) - 1
        /\ \A i \in DOMAIN q : q[i] = p[i + 1] /\ i + 1 \in DOMAIN p
    OBVIOUS
  <1>0. Len(p) \in Nat /\ DOMAIN p = 1 .. Len(p)
    OBVIOUS
  <1> HIDE DEF q
  <1>2. ASSUME NEW t
        PROVE  t \in TestsOf(q) <=> t \in TestsOf(p)
    <2>1. ASSUME NEW i \in DOMAIN p, NEW k \in DOMAIN p[i], p[i][k] = t
          PROVE  \E j \in DOMAIN q : \E l \in DOMAIN q[j] : q[j][l] = t
      <3>1. i # 1
        BY <2>1
      <3>2. i - 1 \in 1 .. Len(p) - 1 /\ (i - 1) + 1 = i
        BY <3>1, <1>0, Predecessor, Zenon
      <3>3. i - 1 \in DOMAIN q /\ q[i - 1] = p[i]
        BY <3>2, <1>1
      <3>4. k \in DOMAIN q[i - 1] /\ q[i - 1][k] = t
        BY <3>3, <2>1, Zenon
      <3>5. \E l \in DOMAIN q[i - 1] : q[i - 1][l] = t
        BY <3>4, Zenon
      <3> QED BY <3>3, <3>5, Zenon
    <2>2. ASSUME NEW i \in DOMAIN q, NEW k \in DOMAIN q[i], q[i][k] = t
          PROVE  \E j \in DOMAIN p : \E l \in DOMAIN p[j] : p[j][l] = t
      BY <2>2, <1>1
    <2>3. t \in TestsOf(q) <=> \E j \in DOMAIN q : \E l \in DOMAIN q[j] : q[j][l] = t
      BY <1>1, TestsOfMember
    <2>4. t \in TestsOf(p) <=> \E j \in DOMAIN p : \E l \in DOMAIN p[j] : p[j][l] = t
      BY TestsOfMember
    <2> QED BY <2>1, <2>2, <2>3, <2>4
  <1>3. ASSUME OnceEach(p)
        PROVE  OnceEach(q)
    <2> SUFFICES ASSUME NEW i \in DOMAIN q, NEW j \in DOMAIN q,
                        NEW k \in DOMAIN q[i], NEW l \in DOMAIN q[j],
                        q[i][k] = q[j][l]
                 PROVE  i = j /\ k = l
      BY DEF OnceEach
    <2>1. /\ i + 1 \in DOMAIN p /\ j + 1 \in DOMAIN p
          /\ p[i + 1] = q[i] /\ p[j + 1] = q[j]
          /\ i \in Int /\ j \in Int
      BY <1>1
    <2>2. i + 1 = j + 1 /\ k = l
      BY <2>1, <1>3 DEF OnceEach
    <2> QED BY <2>1, <2>2
  <1> QED BY <1>1, <1>2, <1>3 DEF q
-----------------------------------------------------------------------------
(* The inductive invariant. *)

\* There is always a snapshot to start from, and after a run one more.
SnapsInv ==
  /\ pc \in {"loop", "run"} => Len(snaps) >= 1
  /\ pc \in {"judge", "recover"} => Len(snaps) >= 2 /\ Last(snaps).input = input

\* From its choice to its end a test case stays the head of its group.
HeadInv ==
  pc \in {"run", "judge"} =>
    /\ step = "setup" => testing \in Tests
    /\ (step \in {"setup", "test", "revertTest"} /\ testing # NoTest)
          => plan # << >> /\ plan[1] # << >> /\ plan[1][1] = testing
    /\ step = "revertTest" => ~Refused(result)

IInv == TypeOK /\ SnapsInv /\ HeadInv

\* What Observe does to the snapshots.
LEMMA RecordSnapshotType ==
  ASSUME TypeOK, Len(snaps) >= 1, NEW r \in Replies
  PROVE  /\ RecordSnapshot(r) \in Seq(Snapshot)
         /\ Len(RecordSnapshot(r)) = Len(snaps) + 1
         /\ Last(RecordSnapshot(r)).input = input
  <1> DEFINE new  == [input |-> input, state |-> IF r.seen THEN "real" ELSE "none"]
             base == [snaps EXCEPT ![Len(snaps)] = Padded(@, r)]
  <1>1. new \in Snapshot /\ new.input = input
    BY DEF TypeOK, Snapshot
  <1>2. snaps \in Seq(Snapshot) /\ snaps[Len(snaps)] \in Snapshot
    BY DEF TypeOK
  <1>3. Padded(snaps[Len(snaps)], r) \in Snapshot
    BY <1>2 DEF Padded, Snapshot
  <1>4. base \in Seq(Snapshot) /\ Len(base) = Len(snaps)
    BY <1>2, <1>3
  <1> HIDE DEF new, base
  <1>5. RecordSnapshot(r) = Append(base, new)
    BY DEF RecordSnapshot, new, base
  <1> QED BY <1>1, <1>4, <1>5, LastAppend

\* Solving the constraints makes a CR of a CR.
LEMMA SatisfyType ==
  ASSUME NEW prev \in Input, NEW curr \in Input
  PROVE  Satisfy(prev, curr) \in Input
  <1> DEFINE assumed == {f \in Fields : curr[f] # prev[f] /\ curr[f] \in DOMAIN Negate}
             setter(f) == {i \in DOMAIN Constraints :
                             /\ Sets(Constraints[i], f, assumed)
                             /\ \A j \in i + 1 .. Len(Constraints) :
                                  ~Sets(Constraints[j], f, assumed)}
             last(f) == Constraints[CHOOSE i \in setter(f) : TRUE]
  <1>1. ASSUME NEW f \in Fields, setter(f) # {}
        PROVE  Negate[curr[OtherSide(last(f), f)]] \in Values
    <2>1. PICK i \in setter(f) : last(f) = Constraints[i]
      <3> HIDE DEF setter
      <3> QED BY <1>1
    <2>2. OtherSide(last(f), f) \in assumed
      <3> HIDE DEF last, assumed
      <3> QED BY <2>1 DEF Sets
    <2>3. curr[OtherSide(last(f), f)] \in DOMAIN Negate
      <3> HIDE DEF last
      <3> QED BY <2>2
    <2> HIDE DEF last
    <2> QED BY <2>3, TestsAssumption
  <1>2. ASSUME NEW f \in Fields PROVE curr[f] \in Values
    BY DEF Input
  <1>3. Satisfy(prev, curr) =
          [f \in Fields |-> IF setter(f) = {} THEN curr[f]
                            ELSE Negate[curr[OtherSide(last(f), f)]]]
    BY DEF Satisfy
  <1> HIDE DEF setter, last
  <1> QED BY <1>1, <1>2, <1>3 DEF Input

\* The CRs that a test case produces are CRs.
LEMMA ApplyType ==
  ASSUME NEW t \in Tests, NEW cr \in Input
  PROVE  ApplySetup(t, cr) \in Input /\ ApplyMutator(t, cr) \in Input
  <1>1. /\ [cr EXCEPT ![FieldOf[t]] = SetupTo[t][@]] \in Input
        /\ [cr EXCEPT ![FieldOf[t]] = MutateTo[t][@]] \in Input
    BY TestsAssumption DEF Input
  <1> QED BY <1>1, SatisfyType DEF ApplySetup, ApplyMutator

\* Popping keeps the plan and the records well typed.
LEMMA PopType ==
  ASSUME TypeOK, plan # << >>, plan[1] # << >>
  PROVE  /\ FinishTest => plan' \in Seq(Seq(Tests)) /\ finished' \in SUBSET Tests
                          /\ discarded' \in SUBSET Tests
         /\ DiscardTest => plan' \in Seq(Seq(Tests)) /\ finished' \in SUBSET Tests
                          /\ discarded' \in SUBSET Tests
  <1>1. Popped(plan) \in Seq(Seq(Tests)) /\ plan[1][1] \in Tests
    BY PopOne DEF TypeOK
  <1> QED BY <1>1 DEF TypeOK, FinishTest, DiscardTest, PopTest, Popped, CurrentGroup

\* Init establishes the invariant.
LEMMA InitIInv == Init => IInv
  <1> SUFFICES ASSUME Init PROVE IInv
    OBVIOUS
  <1>1. DOMAIN files = {} /\ snaps \in Seq(Snapshot) /\ retry \in 0 .. MaxRetry
    BY BoundsAssumption DEF Init
  <1>2. trialErr \in TrialErr
    BY DEF Init, NoError, TrialErr
  <1>3. plan \in Seq(Seq(Tests)) /\ input \in Input
    BY TestsAssumption, PartitionAssumption DEF Init
  <1>4. TypeOK
    BY <1>1, <1>2, <1>3 DEF Init, TypeOK
  <1> QED BY <1>4 DEF Init, IInv, SnapsInv, HeadInv

\* Every step preserves it.
LEMMA NextIInv == IInv /\ [Next]_vars => IInv'
  <1> SUFFICES ASSUME IInv, [Next]_vars PROVE IInv'
    OBVIOUS
  <1> USE DEF IInv, TypeOK, SnapsInv, HeadInv
  <1>1. CASE Finish
    BY <1>1 DEF Finish, planVars, runVars
  <1>2. CASE DeployFails
    BY <1>2 DEF DeployFails, planVars, runVars
  <1>3. CASE StartTrial
    <2>1. snaps' \in Seq(Snapshot) /\ Len(snaps') = 1
      BY <1>3, TestsAssumption DEF StartTrial, Snapshot
    <2>2. trialErr' \in TrialErr
      BY <1>3 DEF StartTrial, NoError, TrialErr
    <2>3. DOMAIN files' \subseteq Int /\ \A g \in DOMAIN files' : files'[g] \in Input
      BY <1>3 DEF StartTrial
    <2>4. applied' \in Input \cup {NoInput} /\ testing' \in Tests \cup {NoTest}
      BY <1>3 DEF StartTrial
    <2>5. pc' = "loop" /\ generation' = 0 /\ strayed' = FALSE
      BY <1>3 DEF StartTrial
    <2>6. UNCHANGED <<plan, finished, discarded, asked, input, step, retry, result>>
      BY <1>3 DEF StartTrial, planVars
    <2>7. TypeOK'
      BY <2>1, <2>2, <2>3, <2>4, <2>5, <2>6
    <2> QED BY <2>1, <2>5, <2>7
  <1>4. CASE OutOfGenerations
    BY <1>4 DEF OutOfGenerations, Leave, planVars, runVars
  <1>5. CASE OutOfTests
    BY <1>5 DEF OutOfTests, Leave, planVars, runVars
  <1>6. CASE RunSeed
    <2>1. Last(snaps) \in Snapshot
      BY <1>6, LastElement DEF RunSeed
    <2> QED BY <1>6, <2>1 DEF RunSeed, planVars, runVars, Snapshot
  <1>7. CASE GroupExhausted
    <2>1. plan # << >>
      BY <1>7, PlanNotEmpty DEF GroupExhausted, Choosing, PlanEmpty
    <2>2. Tail(plan) \in Seq(Seq(Tests))
      BY <1>7, <2>1
    <2> QED BY <1>7, <2>2 DEF GroupExhausted, Choosing, DropGroup, runVars
  <1>8. CASE RunReadyTest
    <2>0. Last(snaps) \in Snapshot
      BY <1>8, LastElement DEF RunReadyTest, Choosing
    <2>1. Last(snaps).input \in Input
      BY <2>0 DEF Snapshot
    <2>2. plan # << >> /\ plan[1] # << >> /\ plan[1][1] \in Tests
      BY <1>8, PlanNotEmpty, PopOne DEF RunReadyTest, Choosing, PlanEmpty, CurrentGroup
    <2>3. ApplyMutator(plan[1][1], Last(snaps).input) \in Input
      BY <2>1, <2>2, ApplyType
    <2> QED BY <1>8, <2>2, <2>3, TestsAssumption
            DEF RunReadyTest, Choosing, CurrentGroup, planVars, runVars
  <1>9. CASE RunSetup
    <2>0. Last(snaps) \in Snapshot
      BY <1>9, LastElement DEF RunSetup, Choosing
    <2>1. Last(snaps).input \in Input
      BY <2>0 DEF Snapshot
    <2>2. plan # << >> /\ plan[1] # << >> /\ plan[1][1] \in Tests
      BY <1>9, PlanNotEmpty, PopOne DEF RunSetup, Choosing, PlanEmpty, CurrentGroup
    <2>3. ApplySetup(plan[1][1], Last(snaps).input) \in Input
      BY <2>1, <2>2, ApplyType
    <2>4. asked' \in SUBSET TwoStep
      BY <1>9 DEF RunSetup, RememberAsked
    <2> QED BY <1>9, <2>2, <2>3, <2>4, TestsAssumption
            DEF RunSetup, Choosing, CurrentGroup, planVars
  <1>10. CASE DropTest
    <2>1. plan # << >> /\ plan[1] # << >>
      BY <1>10, PlanNotEmpty DEF DropTest, Choosing, PlanEmpty, CurrentGroup
    <2> QED BY <1>10, <2>1, PopType DEF DropTest, Choosing, runVars
  <1>11. CASE RetryRefused
    BY <1>11, BoundsAssumption DEF RetryRefused, RetryLeft, WriteCR, planVars
  <1>12. ASSUME NEW r \in Replies, Observe(r) PROVE IInv'
    <2>1. /\ snaps' \in Seq(Snapshot)
          /\ Len(snaps') >= 2
          /\ Last(snaps').input = input
      BY <1>12, RecordSnapshotType DEF Observe
    <2>2. DOMAIN files' \subseteq Int /\ \A g \in DOMAIN files' : files'[g] \in Input
      BY <1>12 DEF Observe, WriteCR
    <2> QED BY <1>12, <2>1, <2>2, BoundsAssumption DEF Observe, NextGeneration, planVars
  <1>13. CASE SetupRefused
    BY <1>13 DEF SetupRefused, Judging, planVars, runVars, NoError, TrialErr
  <1>14. CASE SetupInvalid
    <2>0. /\ Front(snaps) \in Seq(Snapshot)
          /\ Len(Front(snaps)) >= 1
          /\ Last(Front(snaps)) \in Snapshot
      BY <1>14, FrontLast DEF SetupInvalid, Judging
    <2>1. snaps' \in Seq(Snapshot) /\ Len(snaps') >= 1 /\ input' \in Input
      BY <1>14, <2>0 DEF SetupInvalid, StartRevert, Snapshot
    <2>2. plan # << >> /\ plan[1] # << >>
      BY <1>14, TestsAssumption DEF SetupInvalid, Judging
    <2> QED BY <1>14, <2>1, <2>2, PopType DEF SetupInvalid, Judging, StartRevert, runVars
  <1>15. CASE SetupError
    <2>1. plan # << >> /\ plan[1] # << >>
      BY <1>15, TestsAssumption DEF SetupError, Judging
    <2> QED BY <1>15, <2>1, PopType DEF SetupError, Judging, runVars
  <1>16. CASE SetupUnchanged
    <2>1. plan # << >> /\ plan[1] # << >>
      BY <1>16, TestsAssumption DEF SetupUnchanged, Judging
    <2> QED BY <1>16, <2>1, PopType DEF SetupUnchanged, Judging, runVars
  <1>17. CASE SetupDone
    <2>1. ApplyMutator(testing, input) \in Input
      BY <1>17, ApplyType DEF SetupDone, Judging
    <2> QED BY <1>17, <2>1 DEF SetupDone, Judging, planVars, runVars
  <1>18. CASE SetupReverted
    BY <1>18 DEF SetupReverted, Judging, planVars, runVars
  <1>19. CASE TestRefused
    BY <1>19 DEF TestRefused, Judging, AfterTest, planVars, runVars
  <1>20. CASE TestInvalid
    <2>0. /\ Front(snaps) \in Seq(Snapshot)
          /\ Len(Front(snaps)) >= 1
          /\ Last(Front(snaps)) \in Snapshot
      BY <1>20, FrontLast DEF TestInvalid, Judging
    <2>1. snaps' \in Seq(Snapshot) /\ Len(snaps') >= 1 /\ input' \in Input
      BY <1>20, <2>0 DEF TestInvalid, StartRevert, Snapshot
    <2> QED BY <1>20, <2>1 DEF TestInvalid, Judging, StartRevert, planVars, runVars
  <1>21. CASE TestReverted
    <2>1. plan' \in Seq(Seq(Tests)) /\ finished' \in SUBSET Tests /\ discarded' \in SUBSET Tests
      BY <1>21, PopType DEF TestReverted, Judging, FinishRun, planVars
    <2> QED BY <1>21, <2>1 DEF TestReverted, Judging, AfterTest, runVars
  <1>22. CASE TestDone
    <2>1. plan' \in Seq(Seq(Tests)) /\ finished' \in SUBSET Tests /\ discarded' \in SUBSET Tests
      BY <1>22, PopType DEF TestDone, Judging, FinishRun, planVars
    <2> QED BY <1>22, <2>1 DEF TestDone, Judging, AfterTest, runVars
  <1>23. CASE Recover
    <2>1. RecoverySnapshot \in Snapshot
      BY <1>23, FrontLast DEF Recover, RecoverySnapshot
    <2>2. DOMAIN files' \subseteq Int /\ \A g \in DOMAIN files' : files'[g] \in Input
      BY <1>23, <2>1 DEF Recover, Snapshot
    <2> QED BY <1>23, <2>1, <2>2 DEF Recover, planVars, Snapshot, TrialErr
  <1>24. CASE EndTrial
    BY <1>24 DEF EndTrial, planVars, TrialErr
  <1>25. CASE Terminated
    BY <1>25 DEF Terminated, vars
  <1>26. CASE UNCHANGED vars
    BY <1>26 DEF vars
  <1> QED
    BY <1>1, <1>2, <1>3, <1>4, <1>5, <1>6, <1>7, <1>8, <1>9, <1>10, <1>11, <1>12,
       <1>13, <1>14, <1>15, <1>16, <1>17, <1>18, <1>19, <1>20, <1>21, <1>22,
       <1>23, <1>24, <1>25, <1>26 DEF Next
\* TypeOK holds in every reachable state, whatever the tests, the partition and
\* the bounds: the attributes of a worker keep their types through all of
\* run, run_trial, run_testcases, run_and_check, revert and run_recovery.
THEOREM TypeCorrect == Spec => []TypeOK
  <1>1. Init => IInv
    BY InitIInv
  <1>2. IInv /\ [Next]_vars => IInv'
    BY NextIInv
  <1>3. IInv => TypeOK
    BY DEF IInv
  <1> QED BY <1>1, <1>2, <1>3, PTL DEF Spec

LEMMA Invariance == Spec => []IInv
  BY InitIInv, NextIInv, PTL DEF Spec

\* RecoveryHasPredecessor holds in every reachable state: run_recovery's
\* snapshots[-2] exists however many reverts popped a snapshot before.
THEOREM RecoveryFindsSnapshot == Spec => []RecoveryHasPredecessor
  <1>1. IInv => RecoveryHasPredecessor
    BY DEF IInv, SnapsInv, RecoveryHasPredecessor
  <1> QED BY <1>1, Invariance, PTL

-----------------------------------------------------------------------------
(* The test cases. *)

Keeps == UNCHANGED planVars
Drops == /\ plan # << >> /\ plan[1] = << >>
         /\ plan' = Tail(plan)
         /\ UNCHANGED <<finished, discarded>>
Finishes == /\ plan # << >> /\ plan[1] # << >>
            /\ FinishTest
            /\ plan[1][1] = testing /\ step \in {"test", "revertTest"} /\ ~Refused(result)
Discards == /\ plan # << >> /\ plan[1] # << >>
            /\ DiscardTest
            /\ \/ pc = "loop" /\ ~Precondition(plan[1][1], Last(snaps).input)
               \/ pc = "judge" /\ step = "setup" /\ plan[1][1] = testing /\ ~Refused(result)

\* What a step can do to the plan: nothing, drop an exhausted group, or pop one
\* test case for a reason.
LEMMA PlanStep ==
  ASSUME IInv, [Next]_vars
  PROVE  Keeps \/ Drops \/ Finishes \/ Discards
  <1> USE DEF IInv
  <1>1. CASE GroupExhausted
    <2>1. plan # << >>
      BY <1>1, PlanNotEmpty DEF GroupExhausted, Choosing, PlanEmpty, TypeOK
    <2> QED BY <1>1, <2>1 DEF GroupExhausted, DropGroup, CurrentGroup, Drops
  <1>2. CASE DropTest
    <2>1. plan # << >> /\ plan[1] # << >>
      BY <1>2, PlanNotEmpty DEF DropTest, Choosing, PlanEmpty, CurrentGroup, TypeOK
    <2> QED BY <1>2, <2>1 DEF DropTest, Choosing, CurrentGroup, Discards
  <1>3. CASE SetupInvalid \/ SetupError \/ SetupUnchanged
    <2>1. pc = "judge" /\ step = "setup" /\ ~Refused(result) /\ DiscardTest
      BY <1>3 DEF SetupInvalid, SetupError, SetupUnchanged, Judging, Refused
    <2>2. plan # << >> /\ plan[1] # << >> /\ plan[1][1] = testing
      BY <2>1, TestsAssumption DEF HeadInv
    <2> QED BY <2>1, <2>2 DEF Discards
  <1>4. CASE TestReverted \/ TestDone
    <2>1. pc = "judge" /\ step \in {"test", "revertTest"} /\ ~Refused(result) /\ FinishRun
      BY <1>4 DEF TestReverted, TestDone, Judging, HeadInv
    <2>2. CASE testing = NoTest
      BY <2>1, <2>2 DEF FinishRun, Keeps
    <2>3. CASE testing # NoTest
      BY <2>1, <2>3 DEF FinishRun, HeadInv, Finishes
    <2> QED BY <2>2, <2>3
  <1>5. CASE Finish \/ DeployFails \/ StartTrial \/ OutOfGenerations \/ OutOfTests
             \/ RunSeed \/ RunReadyTest \/ RunSetup \/ RetryRefused
    BY <1>5 DEF Finish, DeployFails, StartTrial, OutOfGenerations, OutOfTests, Leave,
                RunSeed, RunReadyTest, RunSetup, RetryRefused, Keeps
  <1>6. ASSUME NEW r \in Replies, Observe(r) PROVE Keeps
    BY <1>6 DEF Observe, Keeps
  <1>7. CASE SetupRefused \/ SetupDone \/ SetupReverted \/ TestRefused \/ TestInvalid
             \/ Recover \/ EndTrial
    BY <1>7 DEF SetupRefused, SetupDone, SetupReverted, TestRefused, TestInvalid,
                Recover, EndTrial, Keeps
  <1>8. CASE Terminated \/ UNCHANGED vars
    BY <1>8 DEF Terminated, vars, Keeps, planVars
  <1> QED BY <1>1, <1>2, <1>3, <1>4, <1>5, <1>6, <1>7, <1>8 DEF Next

\* What the lemmas about plans say of FinishTest and DiscardTest.
LEMMA PopFacts ==
  ASSUME TypeOK, OnceEach(plan), plan # << >>, plan[1] # << >>, PopTest
  PROVE  /\ OnceEach(plan')
         /\ plan[1][1] \in TestsOf(plan)
         /\ TestsOf(plan') = TestsOf(plan) \ {plan[1][1]}
  <1>1. plan' = Popped(plan)
    BY DEF PopTest, Popped
  <1> QED BY <1>1, PopOne DEF TypeOK

LEMMA OnceInit == Init => EveryTestOnce
  BY PartitionAssumption DEF Init, EveryTestOnce

LEMMA OnceStep == IInv /\ EveryTestOnce /\ [Next]_vars => EveryTestOnce'
  <1> SUFFICES ASSUME IInv, EveryTestOnce, [Next]_vars PROVE EveryTestOnce'
    OBVIOUS
  <1>1. OnceEach(plan) /\ TypeOK
    BY DEF EveryTestOnce, OnceEach, IInv
  <1>2. CASE Keeps
    BY <1>2 DEF Keeps, planVars, EveryTestOnce
  <1>3. CASE Drops
    <2>1. OnceEach(plan') /\ TestsOf(plan') = TestsOf(plan)
      BY <1>1, <1>3, DropExhausted DEF Drops, TypeOK
    <2> QED BY <1>3, <2>1 DEF Drops, EveryTestOnce, OnceEach
  <1>4. CASE Finishes
    <2>1. /\ OnceEach(plan')
          /\ plan[1][1] \in TestsOf(plan)
          /\ TestsOf(plan') = TestsOf(plan) \ {plan[1][1]}
      BY <1>1, <1>4, PopFacts DEF Finishes, FinishTest
    <2>2. finished' = finished \cup {plan[1][1]} /\ discarded' = discarded
      BY <1>4 DEF Finishes, FinishTest, CurrentGroup
    <2> QED BY <2>1, <2>2 DEF EveryTestOnce, OnceEach
  <1>5. CASE Discards
    <2>1. /\ OnceEach(plan')
          /\ plan[1][1] \in TestsOf(plan)
          /\ TestsOf(plan') = TestsOf(plan) \ {plan[1][1]}
      BY <1>1, <1>5, PopFacts DEF Discards, DiscardTest
    <2>2. discarded' = discarded \cup {plan[1][1]} /\ finished' = finished
      BY <1>5 DEF Discards, DiscardTest, CurrentGroup
    <2> QED BY <2>1, <2>2 DEF EveryTestOnce, OnceEach
  <1> QED BY <1>2, <1>3, <1>4, <1>5, PlanStep

\* EveryTestOnce holds in every reachable state: no reply of the cluster and no
\* aborted trial makes a worker lose a test case or account for it twice.
THEOREM NoTestLostOrRepeated == Spec => []EveryTestOnce
  BY OnceInit, OnceStep, Invariance, PTL DEF Spec

\* ConsumesWhatItRan holds of every step: the blind pops of finish_testcase and
\* discard_testcase always hit the test case that was run or found unfit.
THEOREM PopsTheRightTest == Spec => ConsumesWhatItRan
  <1> DEFINE A ==
    /\ \A t \in finished' \ finished :
         t = testing /\ step \in {"test", "revertTest"} /\ ~Refused(result)
    /\ \A t \in discarded' \ discarded :
         \/ pc = "loop" /\ ~Precondition(t, Last(snaps).input)
         \/ pc = "judge" /\ step = "setup" /\ t = testing /\ ~Refused(result)
  <1>1. IInv /\ [Next]_vars => [A]_vars
    <2> SUFFICES ASSUME IInv, [Next]_vars PROVE A
      OBVIOUS
    <2>1. CASE Keeps
      BY <2>1 DEF Keeps, planVars
    <2>2. CASE Drops
      BY <2>2 DEF Drops
    <2>3. CASE Finishes
      BY <2>3 DEF Finishes, FinishTest, CurrentGroup
    <2>4. CASE Discards
      BY <2>4 DEF Discards, DiscardTest, CurrentGroup
    <2> QED BY <2>1, <2>2, <2>3, <2>4, PlanStep
  <1> QED BY <1>1, Invariance, PTL DEF Spec, ConsumesWhatItRan

\* A worker implements the safety part of TestCampaign: seen from outside it
\* takes its test cases out of the plan one at a time and for good.
THEOREM ImplementsCampaign == Spec => Campaign!Safety
  <1>1. Init => Campaign!Init
    BY DEF Init, Campaign!Init
  <1>2. IInv /\ EveryTestOnce /\ [Next]_vars => [Campaign!Next]_(Campaign!campaignVars)
    <2> SUFFICES ASSUME IInv, EveryTestOnce, [Next]_vars
                 PROVE  Campaign!Next \/ UNCHANGED Campaign!campaignVars
      OBVIOUS
    <2>1. OnceEach(plan) /\ TypeOK
      BY DEF EveryTestOnce, OnceEach, IInv
    <2>2. CASE Keeps
      BY <2>2 DEF Keeps, planVars, Campaign!campaignVars
    <2>3. CASE Drops
      <3>1. TestsOf(plan') = TestsOf(plan)
        BY <2>1, <2>3, DropExhausted DEF Drops, TypeOK
      <3> QED BY <2>3, <3>1 DEF Drops, Campaign!campaignVars
    <2>4. CASE Finishes
      <3>1. /\ plan[1][1] \in TestsOf(plan)
            /\ TestsOf(plan') = TestsOf(plan) \ {plan[1][1]}
        BY <2>1, <2>4, PopFacts DEF Finishes, FinishTest
      <3>2. Campaign!Finish(plan[1][1])
        BY <2>4, <3>1 DEF Finishes, FinishTest, CurrentGroup, Campaign!Finish, Campaign!Consume
      <3> QED BY <3>1, <3>2 DEF Campaign!Next
    <2>5. CASE Discards
      <3>1. /\ plan[1][1] \in TestsOf(plan)
            /\ TestsOf(plan') = TestsOf(plan) \ {plan[1][1]}
        BY <2>1, <2>5, PopFacts DEF Discards, DiscardTest
      <3>2. Campaign!Discard(plan[1][1])
        BY <2>5, <3>1 DEF Discards, DiscardTest, CurrentGroup, Campaign!Discard, Campaign!Consume
      <3> QED BY <3>1, <3>2 DEF Campaign!Next
    <2> QED BY <2>2, <2>3, <2>4, <2>5, PlanStep
  <1> QED BY <1>1, <1>2, Invariance, NoTestLostOrRepeated, PTL DEF Spec, Campaign!Safety

-----------------------------------------------------------------------------
(* The step files. *)

\* StepFilesContiguous by pc, step and retry.
FilesInv ==
  /\ pc \in {"loop", "judge", "recover"} => DOMAIN files = 0 .. generation - 1
  /\ pc = "run" => DOMAIN files = IF retry = 0 THEN 0 .. generation - 1 ELSE 0 .. generation
  /\ pc = "delete" => DOMAIN files \ {-1} = 0 .. generation - 1
  /\ pc # "run" => retry = 0

GenerationInv ==
  /\ pc = "run" =>
       generation <= CASE step = "setup" -> NumMutation - 1
                       [] step = "test" -> NumMutation
                       [] step = "revertSetup" -> NumMutation
                       [] step = "revertTest" -> NumMutation + 1
  /\ pc = "judge" =>
       generation <= CASE step = "setup" -> NumMutation
                       [] step = "test" -> NumMutation + 1
                       [] step = "revertSetup" -> NumMutation + 1
                       [] step = "revertTest" -> NumMutation + 2
  /\ pc \in {"loop", "recover", "delete"} => generation <= NumMutation + 2

LEMMA FilesInit == Init => FilesInv /\ GenerationInv
  BY DEF Init, FilesInv, GenerationInv

LEMMA FilesStep == IInv /\ FilesInv /\ [Next]_vars => FilesInv'
  <1> SUFFICES ASSUME IInv, FilesInv, [Next]_vars PROVE FilesInv'
    OBVIOUS
  <1> USE DEF FilesInv
  <1>0. generation \in Nat /\ retry \in Nat
    BY BoundsAssumption DEF IInv, TypeOK
  <1>1. CASE StartTrial
    BY <1>1 DEF StartTrial
  <1>2. CASE RetryRefused
    BY <1>0, <1>2 DEF RetryRefused, RetryLeft, WriteCR
  <1>3. ASSUME NEW r \in Replies, Observe(r) PROVE FilesInv'
    BY <1>0, <1>3 DEF Observe, WriteCR, NextGeneration
  <1>4. CASE Recover
    BY <1>0, <1>4 DEF Recover
  <1>5. CASE Finish \/ DeployFails \/ OutOfGenerations \/ OutOfTests
             \/ RunSeed \/ GroupExhausted \/ RunReadyTest \/ RunSetup \/ DropTest
    BY <1>0, <1>5 DEF Finish, DeployFails, OutOfGenerations, OutOfTests, Leave, RunSeed,
                GroupExhausted, Choosing, RunReadyTest, RunSetup, DropTest, runVars
  <1>6. CASE SetupRefused \/ SetupInvalid \/ SetupError \/ SetupUnchanged \/ SetupDone
             \/ SetupReverted
    BY <1>0, <1>6 DEF SetupRefused, SetupInvalid, SetupError, SetupUnchanged, SetupDone,
                SetupReverted, StartRevert, Judging, runVars
  <1>7. CASE TestRefused \/ TestInvalid \/ TestReverted \/ TestDone
    BY <1>0, <1>7 DEF TestRefused, TestInvalid, TestReverted, TestDone,
                StartRevert, AfterTest, Judging, runVars
  <1>8. CASE EndTrial \/ Terminated \/ UNCHANGED vars
    BY <1>8 DEF EndTrial, Terminated, vars
  <1> QED BY <1>1, <1>2, <1>3, <1>4, <1>5, <1>6, <1>7, <1>8 DEF Next

LEMMA GenerationStep == IInv /\ GenerationInv /\ [Next]_vars => GenerationInv'
  <1> SUFFICES ASSUME IInv, GenerationInv, [Next]_vars PROVE GenerationInv'
    OBVIOUS
  <1> USE DEF GenerationInv
  <1>0. generation \in Nat /\ NumMutation \in Nat /\ NumMutation >= 1
        /\ step \in {"setup", "test", "revertSetup", "revertTest"}
    BY BoundsAssumption DEF IInv, TypeOK
  <1>1. CASE StartTrial \/ RunSeed \/ RunReadyTest \/ RunSetup
    BY <1>0, <1>1 DEF StartTrial, RunSeed, RunReadyTest, RunSetup, Choosing
  <1>2. CASE RetryRefused
    BY <1>2 DEF RetryRefused
  <1>3. ASSUME NEW r \in Replies, Observe(r) PROVE GenerationInv'
    BY <1>0, <1>3 DEF Observe, NextGeneration
  <1>4. CASE Finish \/ DeployFails \/ OutOfGenerations \/ OutOfTests
             \/ GroupExhausted \/ DropTest \/ Recover
    BY <1>0, <1>4 DEF Finish, DeployFails, OutOfGenerations, OutOfTests, Leave,
                GroupExhausted, Choosing, DropTest, Recover
  <1>5. CASE SetupRefused \/ SetupInvalid \/ SetupError \/ SetupUnchanged \/ SetupDone
             \/ SetupReverted
    BY <1>0, <1>5 DEF SetupRefused, SetupInvalid, SetupError, SetupUnchanged, SetupDone,
                SetupReverted, StartRevert, Judging
  <1>6. CASE TestRefused \/ TestInvalid \/ TestReverted \/ TestDone
    BY <1>0, <1>6 DEF TestRefused, TestInvalid, TestReverted, TestDone,
                StartRevert, AfterTest, Judging
  <1>7. CASE EndTrial \/ Terminated \/ UNCHANGED vars
    BY <1>7 DEF EndTrial, Terminated, vars
  <1> QED BY <1>1, <1>2, <1>3, <1>4, <1>5, <1>6, <1>7 DEF Next

\* StepFilesContiguous holds in every reachable state: retries, reverts and the
\* recovery never skip or reuse a step number, and a trial has at most
\* NumMutation + 2 of them.
THEOREM StepFilesNumbered == Spec => []StepFilesContiguous
  <1>1. IInv /\ FilesInv /\ GenerationInv => StepFilesContiguous
    <2> SUFFICES ASSUME IInv, FilesInv, GenerationInv, pc \notin {"start", "done"}
                 PROVE  /\ DOMAIN files \ {-1} \in {0 .. generation - 1, 0 .. generation}
                        /\ (pc = "run" /\ retry = 0) => DOMAIN files = 0 .. generation - 1
                        /\ pc # "run" => DOMAIN files \ {-1} = 0 .. generation - 1
                        /\ generation <= NumMutation + 2
      BY DEF StepFilesContiguous
    <2>1. generation \in Nat /\ NumMutation \in Nat
          /\ step \in {"setup", "test", "revertSetup", "revertTest"}
          /\ pc \in {"loop", "run", "judge", "recover", "delete"}
      BY BoundsAssumption DEF IInv, TypeOK
    <2>2. generation <= NumMutation + 2
      BY <2>1 DEF GenerationInv
    <2>3. (0 .. generation - 1) \ {-1} = 0 .. generation - 1
          /\ (0 .. generation) \ {-1} = 0 .. generation
      BY <2>1
    <2> QED BY <2>1, <2>2, <2>3 DEF FilesInv
  <1> QED BY <1>1, FilesInit, FilesStep, GenerationStep, Invariance, PTL DEF Spec

-----------------------------------------------------------------------------
(* The base of a generation. *)

\* What is known of `applied` while a run is judged.
AppliedInv ==
  (pc = "judge" /\ ~strayed) =>
    /\ step \in {"revertSetup", "revertTest"} => Last(snaps).input = applied
    /\ (step \in {"setup", "test"} /\ (result.accepted \/ result.cli # "INVALID"))
          => Last(snaps).input = applied

ResultInv == (pc = "judge" /\ step \in {"setup", "test"}) => result \in Replies

BaseInv == AppliedInv /\ ResultInv /\ BaseMatchesCluster

\* A run that is not reverted as invalid was accepted, or not called INVALID.
LEMMA KeptIsAccepted ==
  ASSUME NEW r \in Replies, ~Discountable(r)
  PROVE  r.accepted \/ r.cli # "INVALID"
  BY DEF Replies, Reply, Discountable, IsInvalid

LEMMA BaseInit == Init => BaseInv
  BY DEF Init, BaseInv, AppliedInv, ResultInv, BaseMatchesCluster

LEMMA BaseStep == IInv /\ BaseInv /\ [Next]_vars => BaseInv'
  <1> SUFFICES ASSUME IInv, BaseInv, [Next]_vars PROVE BaseInv'
    OBVIOUS
  <1> USE DEF BaseInv, AppliedInv, ResultInv, BaseMatchesCluster
  <1>0. generation \in Nat
    BY DEF IInv, TypeOK
  <1>1. ASSUME NEW r \in Replies, Observe(r) PROVE BaseInv'
    <2>1. Last(snaps').input = input
      BY <1>1, RecordSnapshotType DEF Observe, IInv, SnapsInv
    <2>2. pc' = "judge" /\ step' = step
      BY <1>1 DEF Observe
    <2>3. CASE r.accepted
      <3>1. applied' = input
        BY <1>1, <2>3 DEF Observe
      <3> QED BY <1>1, <2>1, <2>2, <3>1 DEF Observe
    <2>4. CASE ~r.accepted
      <3>1. applied' = applied
        BY <1>1, <2>4 DEF Observe
      <3>2. ASSUME ~strayed', r.cli # "INVALID" \/ step \in {"revertSetup", "revertTest"}
            PROVE  applied = input
        BY <1>1, <2>4, <3>2 DEF Observe, Strays
      <3>3. step \in {"setup", "test"} => result' = r
        BY <1>1 DEF Observe
      <3> QED BY <2>1, <2>2, <2>4, <3>1, <3>2, <3>3
    <2> QED BY <2>3, <2>4
  <1>2. CASE StartTrial
    BY <1>2 DEF StartTrial
  <1>3. CASE SetupUnchanged \/ TestDone
    <2>1. pc = "judge" /\ step \in {"setup", "test"} /\ ~Discountable(result)
      BY <1>3 DEF SetupUnchanged, TestDone, Judging
    <2>2. result.accepted \/ result.cli # "INVALID"
      BY <2>1, KeptIsAccepted
    <2>3. ~strayed => Last(snaps).input = applied
      BY <2>1, <2>2
    <2>4. UNCHANGED <<snaps, applied, strayed>> /\ pc' # "judge"
      BY <1>3 DEF SetupUnchanged, TestDone, AfterTest, runVars
    <2> QED BY <2>3, <2>4
  <1>4. CASE SetupReverted \/ TestReverted \/ TestRefused
    BY <1>4 DEF SetupReverted, TestReverted, TestRefused, AfterTest, Judging, Refused, runVars
  <1>5. CASE DropTest
    BY <1>5 DEF DropTest, Choosing, runVars
  <1>6. CASE Finish \/ DeployFails \/ OutOfGenerations \/ OutOfTests \/ RunSeed
             \/ GroupExhausted \/ RunReadyTest \/ RunSetup \/ RetryRefused
    BY <1>6 DEF Finish, DeployFails, OutOfGenerations, OutOfTests, Leave, RunSeed,
                GroupExhausted, RunReadyTest, RunSetup, RetryRefused
  <1>7. CASE SetupRefused \/ SetupInvalid \/ SetupError \/ SetupDone \/ TestInvalid
    BY <1>7 DEF SetupRefused, SetupInvalid, SetupError, SetupDone, TestInvalid, StartRevert
  <1>8. CASE Recover \/ EndTrial
    BY <1>8 DEF Recover, EndTrial
  <1>9. CASE Terminated \/ UNCHANGED vars
    BY <1>9 DEF Terminated, vars
  <1> QED BY <1>1, <1>2, <1>3, <1>4, <1>5, <1>6, <1>7, <1>8, <1>9 DEF Next

\* BaseMatchesCluster holds in every reachable state: as long as no CR was turned
\* away and kept as a base, the CR a generation mutates is the one the API server
\* holds.  So a run that is called INVALID never moves the base.
THEOREM BaseIsApplied == Spec => []BaseMatchesCluster
  <1>1. BaseInv => BaseMatchesCluster
    BY DEF BaseInv
  <1> QED BY <1>1, BaseInit, BaseStep, Invariance, PTL DEF Spec

-----------------------------------------------------------------------------
(* Setups. *)

\* While a setup is tried, retried and judged, its precondition holds: the Store
\* of a two-step test case is set, any other precondition depends on the input.
SetupInv == (pc \in {"run", "judge"} /\ step = "setup") => Precondition(testing, input)

LEMMA SetupStep == IInv /\ SetupInv /\ [Next]_vars => SetupInv'
  <1> SUFFICES ASSUME IInv, SetupInv, [Next]_vars PROVE SetupInv'
    OBVIOUS
  <1> USE DEF SetupInv
  <1>1. CASE RunSetup
    <2> DEFINE t  == CurrentGroup[1]
               cr == ApplySetup(t, Last(snaps).input)
    <2>1. testing' = t /\ input' = cr /\ asked' = asked \cup ({t} \cap TwoStep)
      BY <1>1 DEF RunSetup, RememberAsked
    <2>2. Established(t, cr)
      BY <1>1 DEF RunSetup
    <2> HIDE DEF t, cr
    <2> QED BY <2>1, <2>2 DEF Established, Precondition
  <1>2. CASE RetryRefused \/ \E r \in Replies : Observe(r)
    BY <1>2 DEF RetryRefused, Observe, Precondition
  <1>3. CASE StartTrial \/ RunSeed \/ RunReadyTest
    BY <1>3 DEF StartTrial, RunSeed, RunReadyTest
  <1>4. CASE Finish \/ DeployFails \/ OutOfGenerations \/ OutOfTests
             \/ GroupExhausted \/ DropTest \/ Recover
    BY <1>4 DEF Finish, DeployFails, OutOfGenerations, OutOfTests, Leave,
                GroupExhausted, DropTest, Choosing, Recover
  <1>5. CASE SetupRefused \/ SetupInvalid \/ SetupError \/ SetupUnchanged \/ SetupDone
             \/ SetupReverted
    BY <1>5 DEF SetupRefused, SetupInvalid, SetupError, SetupUnchanged, SetupDone,
                SetupReverted, StartRevert
  <1>6. CASE TestRefused \/ TestInvalid \/ TestReverted \/ TestDone
    BY <1>6 DEF TestRefused, TestInvalid, TestReverted, TestDone, StartRevert, AfterTest
  <1>7. CASE EndTrial \/ Terminated \/ UNCHANGED vars
    BY <1>7 DEF EndTrial, Terminated, vars, Precondition
  <1> QED BY <1>1, <1>2, <1>3, <1>4, <1>5, <1>6, <1>7 DEF Next

\* SetupMakesReady holds in every reachable state: apply_testcase never finds the
\* precondition broken after a setup, however often the setup was refused.
THEOREM SetupsWork == Spec => []SetupMakesReady
  <1>1. Init => SetupInv
    BY DEF Init, SetupInv
  <1>2. SetupInv => SetupMakesReady
    BY DEF SetupInv, SetupMakesReady
  <1> QED BY <1>1, <1>2, SetupStep, Invariance, PTL DEF Spec
-----------------------------------------------------------------------------
(* The constraints between properties. *)

\* The constraints a campaign can rely on: `not` is its own inverse, no property
\* is in two constraints or on both sides of one, a test case makes a constrained
\* property no other than a Boolean, and the seed satisfies them.
Constrained == {f \in Fields : \E i \in DOMAIN Constraints :
                                 f \in {Constraints[i].left, Constraints[i].right}}

IndependentConstraints ==
  /\ \A v \in DOMAIN Negate : Negate[Negate[v]] = v
  /\ \A i, j \in DOMAIN Constraints :
       {Constraints[i].left, Constraints[i].right}
         \cap {Constraints[j].left, Constraints[j].right} # {} => i = j
  /\ \A i \in DOMAIN Constraints : Constraints[i].left # Constraints[i].right
  /\ \A t \in Tests : FieldOf[t] \in Constrained =>
       \A v \in DOMAIN Negate : {MutateTo[t][v], SetupTo[t][v]} \subseteq DOMAIN Negate
  /\ \A i \in DOMAIN Constraints : Xor(Constraints[i], Seed)

Satisfied(cr) == \A i \in DOMAIN Constraints : Xor(Constraints[i], cr)
GoodInput == {cr \in Input : Satisfied(cr)}
GoodSnapshot == [input : GoodInput, state : {"none", "real", "padded"}]

\* What the worker has mutated, and goes back to, satisfies the constraints.
GoodInv == input \in GoodInput /\ snaps \in Seq(GoodSnapshot)

\* Setting one property, and solving the constraints, keeps them satisfied.
LEMMA SatisfyKeeps ==
  ASSUME IndependentConstraints, NEW prev \in GoodInput, NEW f0 \in Fields, NEW v \in Values,
         f0 \in Constrained => v \in DOMAIN Negate
  PROVE  Satisfy(prev, [prev EXCEPT ![f0] = v]) \in GoodInput
  <1> DEFINE curr == [prev EXCEPT ![f0] = v]
             new == Satisfy(prev, curr)
             assumed == {f \in Fields : curr[f] # prev[f] /\ curr[f] \in DOMAIN Negate}
             setter(f) == {i \in DOMAIN Constraints :
                             /\ Sets(Constraints[i], f, assumed)
                             /\ \A j \in i + 1 .. Len(Constraints) :
                                  ~Sets(Constraints[j], f, assumed)}
             last(f) == Constraints[CHOOSE i \in setter(f) : TRUE]
  <1>1. prev \in Input /\ curr \in Input /\ curr[f0] = v
        /\ \A f \in Fields : f # f0 => curr[f] = prev[f]
    BY DEF GoodInput, Input
  <1>2. new \in Input
    BY <1>1, SatisfyType
  <1>3. new = [f \in Fields |-> IF setter(f) = {} THEN curr[f]
                                ELSE Negate[curr[OtherSide(last(f), f)]]]
    BY DEF Satisfy
  <1>4. assumed \subseteq {f0} /\ (f0 \in assumed <=> v # prev[f0] /\ v \in DOMAIN Negate)
    BY <1>1
  <1>5. /\ DOMAIN Constraints = 1 .. Len(Constraints) /\ Len(Constraints) \in Nat
        /\ \A i \in DOMAIN Constraints :
             Constraints[i].left \in Fields /\ Constraints[i].right \in Fields
    <2> DEFINE C == [left : Fields, right : Fields]
    <2>1. Constraints \in Seq(C)
      BY TestsAssumption
    <2>2. \A c \in C : c.left \in Fields /\ c.right \in Fields
      OBVIOUS
    <2> HIDE DEF C
    <2> QED BY <2>1, <2>2
  <1> HIDE DEF curr, new, assumed
  <1>6. ASSUME NEW i \in DOMAIN Constraints
        PROVE  Xor(Constraints[i], new)
    <2> DEFINE c == Constraints[i]
               l == c.left
               r == c.right
    <2>1. l \in Fields /\ r \in Fields /\ l # r
      BY <1>5 DEF IndependentConstraints
    <2>2. prev[l] \in DOMAIN Negate /\ prev[r] = Negate[prev[l]]
      BY DEF GoodInput, Satisfied, Xor
    <2>3. \A f \in {l, r} : \A j \in DOMAIN Constraints :
            f \in {Constraints[j].left, Constraints[j].right} => j = i
      BY DEF IndependentConstraints
    <2>4. f0 \in {l, r} => v \in DOMAIN Negate
      BY <2>1 DEF Constrained
    <2>5. /\ Negate[prev[l]] \in DOMAIN Negate
          /\ \A u \in DOMAIN Negate : Negate[u] \in DOMAIN Negate /\ Negate[Negate[u]] = u
      BY <2>2, TestsAssumption DEF IndependentConstraints
    <2>6. OtherSide(c, l) = r /\ OtherSide(c, r) = l
      BY <2>1 DEF OtherSide
    <2>7. \A f \in {l, r}, j \in DOMAIN Constraints : Sets(Constraints[j], f, assumed) => j = i
      BY <2>3 DEF Sets
    <2> HIDE DEF l, r
    <2>8. /\ Sets(c, l, assumed) <=> l \notin assumed /\ r \in assumed
          /\ Sets(c, r, assumed) <=> r \notin assumed /\ l \in assumed
      BY <2>6 DEF Sets, l, r
    <2>9. ASSUME NEW f \in {l, r}, ~ Sets(c, f, assumed)
          PROVE  new[f] = curr[f]
      <3>1. setter(f) = {}
        BY <2>7, <2>9
      <3>2. f \in Fields
        BY <2>1
      <3> HIDE DEF setter, last
      <3> QED BY <1>3, <3>1, <3>2
    <2>10. ASSUME NEW f \in {l, r}, Sets(c, f, assumed)
           PROVE  new[f] = Negate[curr[OtherSide(c, f)]]
      <3>1. i \in setter(f)
        <4>1. \A j \in i + 1 .. Len(Constraints) : j \in DOMAIN Constraints /\ j # i
          BY <1>5
        <4> QED BY <2>7, <2>10, <4>1
      <3>2. \A j \in setter(f) : j = i
        BY <2>7
      <3>3. f \in Fields
        BY <2>1
      <3> HIDE DEF setter, c
      <3>4. (CHOOSE j \in setter(f) : TRUE) = i
        BY <3>1, <3>2
      <3>5. last(f) = c
        BY <3>4 DEF c
      <3> HIDE DEF last
      <3> QED BY <1>3, <3>1, <3>3, <3>5
    <2> HIDE DEF c, setter, last
    <2>11. new[l] \in DOMAIN Negate /\ new[r] = Negate[new[l]]
      <3>1. CASE assumed \cap {l, r} = {}
        <4>1. new[l] = curr[l] /\ new[r] = curr[r]
          BY <2>8, <2>9, <3>1
        <4>2. curr[l] = prev[l] /\ curr[r] = prev[r]
          BY <1>1, <1>4, <2>1, <2>4, <3>1
        <4> QED BY <2>2, <4>1, <4>2
      <3>2. CASE l \in assumed
        <4>1. f0 = l /\ r \notin assumed /\ v \in DOMAIN Negate /\ curr[l] = v
          BY <1>1, <1>4, <2>1, <3>2
        <4>2. new[l] = curr[l]
          BY <2>8, <2>9, <3>2
        <4>3. new[r] = Negate[curr[l]]
          BY <2>6, <2>8, <2>10, <3>2, <4>1
        <4> QED BY <4>1, <4>2, <4>3
      <3>3. CASE r \in assumed
        <4>1. f0 = r /\ l \notin assumed /\ v \in DOMAIN Negate /\ curr[r] = v
          BY <1>1, <1>4, <2>1, <3>3
        <4>2. new[r] = curr[r]
          BY <2>8, <2>9, <3>3
        <4>3. new[l] = Negate[curr[r]]
          BY <2>6, <2>8, <2>10, <3>3, <4>1
        <4> QED BY <2>5, <4>1, <4>2, <4>3
      <3> QED BY <3>1, <3>2, <3>3
    <2> QED BY <2>11 DEF Xor, c, l, r
  <1>7. new \in GoodInput
    BY <1>2, <1>6 DEF GoodInput, Satisfied
  <1> QED BY <1>7 DEF new, curr

\* So do a setup and a test case.
LEMMA ApplyKeeps ==
  ASSUME IndependentConstraints, NEW t \in Tests, NEW cr \in GoodInput
  PROVE  ApplySetup(t, cr) \in GoodInput /\ ApplyMutator(t, cr) \in GoodInput
  <1> DEFINE f == FieldOf[t]
             m == MutateTo[t][cr[f]]
             s == SetupTo[t][cr[f]]
  <1>1. f \in Fields /\ cr \in Input /\ cr[f] \in Values
    BY TestsAssumption DEF GoodInput, Input
  <1>2. m \in Values /\ s \in Values
    BY <1>1, TestsAssumption
  <1>3. ASSUME f \in Constrained PROVE m \in DOMAIN Negate /\ s \in DOMAIN Negate
    <2>1. cr[f] \in DOMAIN Negate
      <3>1. PICK i \in DOMAIN Constraints : f \in {Constraints[i].left, Constraints[i].right}
        BY <1>3 DEF Constrained
      <3>2. cr[Constraints[i].left] \in DOMAIN Negate
            /\ cr[Constraints[i].right] = Negate[cr[Constraints[i].left]]
        BY DEF GoodInput, Satisfied, Xor
      <3> QED BY <3>1, <3>2, TestsAssumption
    <2> QED BY <1>3, <2>1 DEF IndependentConstraints
  <1>4. ApplySetup(t, cr) = Satisfy(cr, [cr EXCEPT ![f] = s])
        /\ ApplyMutator(t, cr) = Satisfy(cr, [cr EXCEPT ![f] = m])
    BY <1>1 DEF ApplySetup, ApplyMutator, Input
  <1> HIDE DEF f, m, s
  <1> QED BY <1>1, <1>2, <1>3, <1>4, SatisfyKeeps

LEMMA GoodStep ==
  ASSUME IndependentConstraints, IInv, GoodInv, [Next]_vars
  PROVE  GoodInv'
  <1> USE DEF GoodInv
  <1>0. \A s \in GoodSnapshot : s.input \in GoodInput
    BY DEF GoodSnapshot
  <1>1. Seed \in GoodInput
    BY TestsAssumption DEF IndependentConstraints, GoodInput, Satisfied
  <1>2. ASSUME snaps # << >> PROVE Last(snaps) \in GoodSnapshot /\ Last(snaps).input \in GoodInput
    BY <1>0, <1>2, LastElement
  <1>3. ASSUME pc \in {"loop", "run", "judge"} PROVE snaps # << >>
    BY <1>3 DEF IInv, SnapsInv
  <1>4. CASE StartTrial
    <2>1. [input |-> Seed, state |-> "none"] \in GoodSnapshot
      BY <1>1 DEF GoodSnapshot
    <2>2. snaps' \in Seq(GoodSnapshot)
      BY <1>4, <2>1 DEF StartTrial
    <2> QED BY <1>4, <2>2 DEF StartTrial
  <1>5. CASE RunSeed
    BY <1>2, <1>3, <1>5 DEF RunSeed
  <1>6. CASE RunReadyTest \/ RunSetup
    <2>1. plan # << >> /\ plan[1] # << >> /\ plan[1][1] \in Tests
      BY <1>6, PlanNotEmpty, PopOne
         DEF RunReadyTest, RunSetup, Choosing, PlanEmpty, CurrentGroup, IInv, TypeOK
    <2>2. Last(snaps).input \in GoodInput
      BY <1>2, <1>3, <1>6 DEF RunReadyTest, RunSetup, Choosing
    <2>3. input' \in GoodInput
      BY <1>6, <2>1, <2>2, ApplyKeeps DEF RunReadyTest, RunSetup, CurrentGroup
    <2> QED BY <1>6, <2>3 DEF RunReadyTest, RunSetup
  <1>7. ASSUME NEW r \in Replies, Observe(r) PROVE GoodInv'
    <2> DEFINE new  == [input |-> input, state |-> IF r.seen THEN "real" ELSE "none"]
               base == [snaps EXCEPT ![Len(snaps)] = Padded(@, r)]
    <2>1. new \in GoodSnapshot
      BY DEF GoodSnapshot
    <2>2. snaps # << >> /\ snaps[Len(snaps)] \in GoodSnapshot
      BY <1>3, <1>7 DEF Observe
    <2>3. Padded(snaps[Len(snaps)], r) \in GoodSnapshot
      BY <2>2 DEF Padded, GoodSnapshot
    <2>4. base \in Seq(GoodSnapshot)
      BY <2>2, <2>3
    <2> HIDE DEF new, base
    <2>5. RecordSnapshot(r) = Append(base, new)
      BY DEF RecordSnapshot, new, base
    <2>6. snaps' \in Seq(GoodSnapshot)
      BY <1>7, <2>1, <2>4, <2>5, LastAppend DEF Observe
    <2> QED BY <1>7, <2>6 DEF Observe
  <1>8. CASE SetupInvalid \/ TestInvalid
    <2>1. Len(snaps) >= 2
      BY <1>8 DEF SetupInvalid, TestInvalid, Judging, IInv, SnapsInv
    <2>2. Front(snaps) \in Seq(GoodSnapshot) /\ Last(Front(snaps)) \in GoodSnapshot
      BY <2>1, FrontLast
    <2> QED BY <1>0, <1>8, <2>2 DEF SetupInvalid, TestInvalid, StartRevert
  <1>9. CASE SetupDone
    <2>1. testing \in Tests
      BY <1>9 DEF SetupDone, Judging, IInv, HeadInv
    <2> QED BY <1>9, <2>1, ApplyKeeps DEF SetupDone
  <1>10. CASE EndTrial
    BY <1>10 DEF EndTrial
  <1>11. CASE Finish \/ DeployFails \/ OutOfGenerations \/ OutOfTests \/ GroupExhausted
              \/ DropTest \/ RetryRefused \/ Recover
    BY <1>11 DEF Finish, DeployFails, OutOfGenerations, OutOfTests, Leave,
                 GroupExhausted, DropTest, RetryRefused, Recover
  <1>12. CASE SetupRefused \/ SetupError \/ SetupUnchanged \/ SetupReverted
              \/ TestRefused \/ TestReverted \/ TestDone
    BY <1>12 DEF SetupRefused, SetupError, SetupUnchanged, SetupReverted,
                 TestRefused, TestReverted, TestDone
  <1>13. CASE Terminated \/ UNCHANGED vars
    BY <1>13 DEF Terminated, vars
  <1> QED BY <1>4, <1>5, <1>6, <1>7, <1>8, <1>9, <1>10, <1>11, <1>12, <1>13 DEF Next

\* ConstraintsHold holds in every reachable state: whatever sequence of setups,
\* test cases, refusals and reverts led to it, every CR that is run satisfies all
\* of any number of constraints.
THEOREM ConstraintsSatisfied ==
  ASSUME IndependentConstraints
  PROVE  Spec => []ConstraintsHold
  <1>1. Init => GoodInv
    BY TestsAssumption DEF Init, GoodInv, GoodInput, Satisfied, IndependentConstraints
  <1>2. IInv /\ GoodInv /\ [Next]_vars => GoodInv'
    BY GoodStep
  <1>3. GoodInv => ConstraintsHold
    BY DEF GoodInv, GoodInput, Satisfied, ConstraintsHold
  <1> QED BY <1>1, <1>2, <1>3, Invariance, PTL DEF Spec
=============================================================================
