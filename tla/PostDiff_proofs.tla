---------------------------- MODULE PostDiff_proofs ----------------------------
(***************************************************************************)
(* The safety of the differential test for every set of steps and inputs   *)
(* and any number of processes.  To what is to be shown the inductive      *)
(* invariants add                                                          *)
(*   - who holds an input at which place (PlaceInv), and that the file     *)
(*     names a worker has used are behind its generation (FilesInv);       *)
(*   - how often a worker's cluster was used at each place (ClusterInv);   *)
(*   - for the second pool, that a result is waiting, with one process,    *)
(*     lost, or settled (CheckInv), and that the errors a process has      *)
(*     noted are those of its input (JudgeInv);                            *)
(*   - that what was learned from the seed stays as it is, and that the    *)
(*     steps that failed are those whose comparison with the result of     *)
(*     their own input fails (VerdictInv);                                 *)
(*   - that the patterns are those of the seed's noise, and that what is   *)
(*     compared has a result (LearnInv).                                   *)
(* The first five hold for any comparison of states.  VerdictsHold asks    *)
(* something of it (SeedTellsApart).  What compute_common_regex makes of   *)
(* any finite set of paths is shown on its own (EveryPathIsLearned), after *)
(* its list is shown to be sorted and complete; NoiseIsLearned and         *)
(* QuietKindsHeard follow from it and LearnInv.                            *)
(***************************************************************************)
EXTENDS PostDiff, DataLemmas

Places == {"boot", "get", "run", "record", "reboot", "next", "judge", "exited", "dead"}
Result == [input : Inputs, operator : BOOLEAN, runs : Nat, stderr : BOOLEAN]

Types ==
  /\ phase \in {"run", "check", "done"}
  /\ proc \in [Workers -> Places]
  /\ input \in [Workers -> Inputs \cup {NoInput}]
  /\ gen \in [Workers -> Nat]
  /\ cluster \in [Workers -> [operator : BOOLEAN, runs : Nat]]
  /\ difftest \in [DOMAIN difftest -> Result]
  /\ DOMAIN difftest \subseteq Workers \X Nat
  /\ todo \in [Workers -> SUBSET Steps]
  /\ errs \in [Workers -> SUBSET Steps]
  /\ lost \in [run : SUBSET Inputs, check : SUBSET Inputs]
  /\ queue \subseteq IF phase = "run" THEN Inputs ELSE DOMAIN difftest

PlaceInv ==
  \A w \in Workers :
    /\ phase = "run" =>
         /\ proc[w] # "judge"
         /\ proc[w] \in {"run", "record"} => input[w] # NoInput
         /\ proc[w] \notin {"run", "record", "dead"} => input[w] = NoInput
    /\ phase # "run" => proc[w] \in {"get", "judge", "exited", "dead"}
    /\ phase = "done" => proc[w] \in {"exited", "dead"}

FilesInv ==
  phase = "run" =>
    \A f \in DOMAIN difftest :
      /\ f[2] <= gen[f[1]]
      /\ proc[f[1]] \in {"boot", "get", "run", "record"} => f[2] < gen[f[1]]

PoolInv == Types /\ PlaceInv /\ FilesInv

-----------------------------------------------------------------------------
LEMMA InitPoolInv == Init => PoolInv
<1> SUFFICES ASSUME Init PROVE PoolInv
  OBVIOUS
<1>1. difftest = << >> /\ DOMAIN difftest = {}
  BY DEF Init
<1>2. difftest \in [DOMAIN difftest -> Result]
  BY <1>1
<1>3. Types
  BY <1>1, <1>2 DEF Init, Types, Places, NoCluster, UniqueInputs
<1> QED
  BY <1>1, <1>3 DEF Init, PoolInv, PlaceInv, FilesInv

LEMMA TakeCases ==
  ASSUME NEW w \in Workers, Take(w)
  PROVE  /\ proc[w] = "get"
         /\ UNCHANGED <<lost, phase, gen, cluster, difftest, ignored, errs, compare,
                       judged, failed>>
         /\ \E item \in queue :
              /\ queue' = queue \ {item}
              /\ phase = "run" => /\ input' = [input EXCEPT ![w] = item]
                                 /\ proc' = [proc EXCEPT ![w] = "run"]
                                 /\ todo' = todo
              /\ phase # "run" =>
                   /\ input' = [input EXCEPT ![w] = difftest[item].input]
                   /\ todo' = [todo EXCEPT ![w] = ToCompare(difftest[item].input)]
                   /\ proc' = [proc EXCEPT ![w] = "judge"]
  BY DEF Take, At, Go, runVars

LEMMA ToCompareType == ASSUME NEW i PROVE ToCompare(i) \subseteq Steps
  BY DEF ToCompare, Originals, Grouped

LEMMA TakeTypes ==
  ASSUME Types, NEW w \in Workers, Take(w)
  PROVE  Types'
<1> USE DEF Types, Places
<1>1. PICK item \in queue :
        /\ queue' = queue \ {item}
        /\ phase = "run" => /\ input' = [input EXCEPT ![w] = item]
                           /\ proc' = [proc EXCEPT ![w] = "run"]
                           /\ todo' = todo
        /\ phase # "run" =>
             /\ input' = [input EXCEPT ![w] = difftest[item].input]
             /\ todo' = [todo EXCEPT ![w] = ToCompare(difftest[item].input)]
             /\ proc' = [proc EXCEPT ![w] = "judge"]
  BY TakeCases
<1>2. phase # "run" => difftest[item].input \in Inputs
  BY <1>1 DEF Result
<1>3. input' \in [Workers -> Inputs \cup {NoInput}] /\ proc' \in [Workers -> Places]
  BY <1>1, <1>2
<1>4. todo' \in [Workers -> SUBSET Steps]
  BY <1>1, ToCompareType
<1>5. queue' \subseteq IF phase' = "run" THEN Inputs ELSE DOMAIN difftest'
  BY <1>1, TakeCases
<1> QED  BY <1>3, <1>4, <1>5, TakeCases

LEMMA RecordFacts ==
  ASSUME NEW w \in Workers, Record(w)
  PROVE  /\ proc[w] = "record" /\ proc' = [proc EXCEPT ![w] = "reboot"]
         /\ input' = [input EXCEPT ![w] = NoInput]
         /\ UNCHANGED <<lost, phase, queue, gen, cluster, ignored, todo, errs, compare,
                       judged, failed>>
  BY DEF Record, RestartAlways, At, Go, checkVars

LEMMA RecordFile ==
  ASSUME NEW w \in Workers, Record(w)
  PROVE  /\ DOMAIN difftest' = DOMAIN difftest \cup {<<w, gen[w]>>}
         /\ \A f \in DOMAIN difftest : f # <<w, gen[w]>> => difftest'[f] = difftest[f]
<1>1. PICK refused \in BOOLEAN :
        difftest' = [f \in DOMAIN difftest \cup {<<w, gen[w]>>} |->
                       IF f = <<w, gen[w]>>
                       THEN [input |-> input[w], operator |-> cluster[w].operator,
                             runs |-> cluster[w].runs, stderr |-> refused]
                       ELSE difftest[f]]
  BY DEF Record, DiffTestFile
<1> QED  BY <1>1

LEMMA RecordResult ==
  ASSUME NEW w \in Workers, Record(w)
  PROVE  \E refused \in BOOLEAN :
           difftest'[<<w, gen[w]>>] =
             [input |-> input[w], operator |-> cluster[w].operator,
              runs |-> cluster[w].runs, stderr |-> refused]
<1>1. PICK refused \in BOOLEAN :
        difftest' = [f \in DOMAIN difftest \cup {<<w, gen[w]>>} |->
                       IF f = <<w, gen[w]>>
                       THEN [input |-> input[w], operator |-> cluster[w].operator,
                             runs |-> cluster[w].runs, stderr |-> refused]
                       ELSE difftest[f]]
  BY DEF Record, DiffTestFile
<1> QED  BY <1>1

LEMMA RecordFunction ==
  ASSUME NEW w \in Workers, Record(w)
  PROVE  \E F, S : difftest' = [f \in S |-> F[f]]
<1>1. PICK refused \in BOOLEAN :
        difftest' = [f \in DOMAIN difftest \cup {<<w, gen[w]>>} |->
                       IF f = <<w, gen[w]>>
                       THEN [input |-> input[w], operator |-> cluster[w].operator,
                             runs |-> cluster[w].runs, stderr |-> refused]
                       ELSE difftest[f]]
  BY DEF Record, DiffTestFile
<1>2. difftest' = [f \in DOMAIN difftest' |-> difftest'[f]]
  BY <1>1
<1> QED  BY <1>2

LEMMA RecordTypes ==
  ASSUME Types, PlaceInv, NEW w \in Workers, Record(w), phase = "run"
  PROVE  Types'
<1>1. input[w] \in Inputs /\ cluster[w].operator \in BOOLEAN /\ cluster[w].runs \in Nat
  BY RecordFacts DEF Types, PlaceInv
<1>2. DOMAIN difftest' = DOMAIN difftest \cup {<<w, gen[w]>>}
  BY RecordFile
<1>3. DOMAIN difftest' \subseteq Workers \X Nat
  BY <1>2 DEF Types
<1>4. difftest'[<<w, gen[w]>>] \in Result
  <2>1. PICK refused \in BOOLEAN :
           difftest'[<<w, gen[w]>>] =
             [input |-> input[w], operator |-> cluster[w].operator,
              runs |-> cluster[w].runs, stderr |-> refused]
    BY RecordResult
  <2> QED  BY <1>1, <2>1 DEF Result
<1>5. \A f \in DOMAIN difftest : f # <<w, gen[w]>> => difftest'[f] \in Result
  <2>1. \A f \in DOMAIN difftest : f # <<w, gen[w]>> => difftest'[f] = difftest[f]
    BY RecordFile
  <2> QED  BY <2>1 DEF Types
<1>6. \E F, S : difftest' = [f \in S |-> F[f]]
  BY RecordFunction
<1>7. difftest' \in [DOMAIN difftest' -> Result]
  BY <1>2, <1>4, <1>5, <1>6
<1> QED
  BY <1>3, <1>7, RecordFacts DEF Types, Places

LEMMA RunPhase ==
  ASSUME Types, PlaceInv, NEW w \in Workers,
         proc[w] \in {"boot", "run", "record", "reboot", "next"}
  PROVE  phase = "run"
  BY DEF Types, PlaceInv

LEMMA CheckPhase ==
  ASSUME Types, PlaceInv, NEW w \in Workers, proc[w] = "judge"
  PROVE  phase = "check"
  BY DEF Types, PlaceInv

LEMMA PoolTypes ==
  ASSUME Types, PlaceInv, Next
  PROVE  Types'
<1> USE StepsAssumption DEF At, Go
<1>1. ASSUME NEW w \in Workers, Boot(w) PROVE Types'
  BY <1>1 DEF Types, Places, Boot, FreshCluster, checkVars
<1>2. ASSUME NEW w \in Workers, Take(w) PROVE Types'
  BY <1>2, TakeTypes
<1>3. ASSUME NEW w \in Workers, Exit(w) PROVE Types'
  BY <1>3 DEF Types, Places, Exit, runVars, checkVars
<1>4. ASSUME NEW w \in Workers, RunInput(w) PROVE Types'
  BY <1>4 DEF Types, Places, RunInput, checkVars
<1>5. ASSUME NEW w \in Workers, Record(w) PROVE Types'
  BY <1>5, RunPhase, RecordTypes DEF Record
<1>6. ASSUME NEW w \in Workers, Reboot(w) PROVE Types'
  BY <1>6 DEF Types, Places, Reboot, FreshCluster, checkVars
<1>7. ASSUME NEW w \in Workers, NextInput(w) PROVE Types'
  BY <1>7 DEF Types, Places, NextInput, AdvanceGeneration, checkVars
<1>8. ASSUME NEW w \in Workers, Judge(w) PROVE Types'
  BY <1>8 DEF Types, Places, Judge, runVars
<1>9. ASSUME NEW w \in Workers, WriteReport(w) PROVE Types'
  BY <1>9 DEF Types, Places, WriteReport, ResetErrs, runVars
<1>10. ASSUME NEW w \in Workers, Die(w) PROVE Types'
  BY <1>10 DEF Types, Places, Die, HoldsItem, runVars, checkVars
<1>11. CASE StartCheck
  BY <1>11 DEF Types, Places, StartCheck, NoCluster
<1>12. CASE Finish
  <2>1. {difftest[f].input : f \in queue} \subseteq Inputs
    BY <1>12 DEF Types, Finish, Result
  <2> QED  BY <1>12, <2>1 DEF Types, Places, Finish, runVars, checkVars
<1>13. CASE UNCHANGED vars
  BY <1>13 DEF Types, vars, runVars, checkVars
<1> QED
  BY <1>1, <1>2, <1>3, <1>4, <1>5, <1>6, <1>7, <1>8, <1>9, <1>10, <1>11, <1>12, <1>13
  DEF Next, Worker, Terminated

LEMMA PoolPlaces ==
  ASSUME Types, PlaceInv, Next
  PROVE  PlaceInv'
<1> USE StepsAssumption DEF At, Go
<1>1. ASSUME NEW w \in Workers, Boot(w) PROVE PlaceInv'
  BY <1>1 DEF Types, Places, PlaceInv, Boot, checkVars
<1>2. ASSUME NEW w \in Workers, Take(w) PROVE PlaceInv'
  <2>1. /\ phase' = phase /\ proc[w] = "get"
        /\ \A v \in Workers \ {w} : proc'[v] = proc[v] /\ input'[v] = input[v]
    BY <1>2, TakeCases DEF Types
  <2>2. phase = "run" => proc'[w] = "run" /\ input'[w] # NoInput
    BY <1>2, TakeCases DEF Types
  <2>3. phase # "run" => proc'[w] = "judge" /\ phase # "done"
    BY <1>2, <2>1, TakeCases DEF Types, PlaceInv
  <2>4. ASSUME NEW v \in Workers \ {w} PROVE
          /\ phase' = "run" =>
               /\ proc'[v] # "judge"
               /\ proc'[v] \in {"run", "record"} => input'[v] # NoInput
               /\ proc'[v] \notin {"run", "record", "dead"} => input'[v] = NoInput
          /\ phase' # "run" => proc'[v] \in {"get", "judge", "exited", "dead"}
          /\ phase' = "done" => proc'[v] \in {"exited", "dead"}
    BY <2>1 DEF PlaceInv
  <2> QED  BY <2>1, <2>2, <2>3, <2>4 DEF PlaceInv
<1>3. ASSUME NEW w \in Workers, Exit(w) PROVE PlaceInv'
  BY <1>3 DEF Types, Places, PlaceInv, Exit, runVars, checkVars
<1>4. ASSUME NEW w \in Workers, RunInput(w) PROVE PlaceInv'
  BY <1>4 DEF Types, Places, PlaceInv, RunInput, checkVars
<1>5. ASSUME NEW w \in Workers, Record(w) PROVE PlaceInv'
  BY <1>5 DEF Types, Places, PlaceInv, Record, RestartAlways, checkVars
<1>6. ASSUME NEW w \in Workers, Reboot(w) PROVE PlaceInv'
  BY <1>6 DEF Types, Places, PlaceInv, Reboot, checkVars
<1>7. ASSUME NEW w \in Workers, NextInput(w) PROVE PlaceInv'
  BY <1>7 DEF Types, Places, PlaceInv, NextInput, checkVars
<1>8. ASSUME NEW w \in Workers, Judge(w) PROVE PlaceInv'
  BY <1>8 DEF Types, Places, PlaceInv, Judge, runVars
<1>9. ASSUME NEW w \in Workers, WriteReport(w) PROVE PlaceInv'
  BY <1>9 DEF Types, Places, PlaceInv, WriteReport, runVars
<1>10. ASSUME NEW w \in Workers, Die(w) PROVE PlaceInv'
  BY <1>10 DEF Types, Places, PlaceInv, Die, runVars, checkVars
<1>11. CASE StartCheck
  BY <1>11 DEF Types, Places, PlaceInv, StartCheck
<1>12. CASE Finish
  BY <1>12 DEF Types, Places, PlaceInv, Finish, Joined, runVars, checkVars
<1>13. CASE UNCHANGED vars
  BY <1>13 DEF PlaceInv, vars
<1> QED
  BY <1>1, <1>2, <1>3, <1>4, <1>5, <1>6, <1>7, <1>8, <1>9, <1>10, <1>11, <1>12, <1>13
  DEF Next, Worker, Terminated

\* The file that a worker writes is a new one.
LEMMA PoolFiles ==
  ASSUME Types, PlaceInv, FilesInv, Next
  PROVE  FilesInv'
<1> USE DEF At, Go
<1>0. \A f \in DOMAIN difftest : f[1] \in Workers /\ f[2] \in Nat
  BY DEF Types
<1>1. ASSUME NEW w \in Workers, Boot(w) PROVE FilesInv'
  BY <1>0, <1>1 DEF Types, FilesInv, Boot
<1>2. ASSUME NEW w \in Workers, Take(w) PROVE FilesInv'
  BY <1>0, <1>2, TakeCases DEF Types, FilesInv
<1>3. ASSUME NEW w \in Workers, Exit(w) PROVE FilesInv'
  BY <1>0, <1>3 DEF Types, FilesInv, Exit, runVars
<1>4. ASSUME NEW w \in Workers, RunInput(w) PROVE FilesInv'
  BY <1>0, <1>4 DEF Types, FilesInv, RunInput
<1>5. ASSUME NEW w \in Workers, Record(w) PROVE FilesInv'
  <2>1. DOMAIN difftest' = DOMAIN difftest \cup {<<w, gen[w]>>}
    BY <1>5, RecordFile
  <2> QED  BY <1>0, <1>5, <2>1, RecordFacts DEF Types, FilesInv
<1>6. ASSUME NEW w \in Workers, Reboot(w) PROVE FilesInv'
  BY <1>0, <1>6 DEF Types, FilesInv, Reboot
<1>7. ASSUME NEW w \in Workers, NextInput(w) PROVE FilesInv'
  BY <1>0, <1>7 DEF Types, FilesInv, NextInput, AdvanceGeneration
<1>8. ASSUME NEW w \in Workers, Judge(w) PROVE FilesInv'
  BY <1>8 DEF FilesInv, Judge, runVars
<1>9. ASSUME NEW w \in Workers, WriteReport(w) PROVE FilesInv'
  BY <1>9, CheckPhase DEF FilesInv, WriteReport
<1>10. ASSUME NEW w \in Workers, Die(w) PROVE FilesInv'
  BY <1>0, <1>10 DEF Types, FilesInv, Die, runVars
<1>11. CASE StartCheck \/ Finish
  BY <1>11 DEF FilesInv, StartCheck, Finish
<1>12. CASE UNCHANGED vars
  BY <1>12 DEF FilesInv, vars, runVars
<1> QED
  BY <1>1, <1>2, <1>3, <1>4, <1>5, <1>6, <1>7, <1>8, <1>9, <1>10, <1>11, <1>12
  DEF Next, Worker, Terminated

LEMMA NextPoolInv ==
  ASSUME PoolInv, [Next]_vars
  PROVE  PoolInv'
<1>1. CASE Next
  BY <1>1, PoolTypes, PoolPlaces, PoolFiles DEF PoolInv
<1>2. CASE UNCHANGED vars
  BY <1>2 DEF PoolInv, Types, PlaceInv, FilesInv, vars, runVars, checkVars
<1> QED  BY <1>1, <1>2

-----------------------------------------------------------------------------
(* Every input is in one place *)

LEMMA InitOnce == Init => EveryInputOnce
<1> SUFFICES ASSUME Init PROVE EveryInputOnce
  OBVIOUS
<1>1. DOMAIN difftest = {} /\ Recorded = {}
  BY DEF Init, Recorded
<1>2. InHand = {} /\ Waiting = UniqueInputs /\ lost.run = {}
  BY DEF Init, InHand, Waiting, Live
<1>3. \A v \in Live : input[v] = NoInput
  BY DEF Init, Live
<1> QED  BY <1>1, <1>2, <1>3 DEF EveryInputOnce

\* Where the inputs are is the same.
LEMMA OnceUnmoved ==
  ASSUME EveryInputOnce, UNCHANGED <<phase, difftest>>, lost.run' = lost.run,
         Waiting' = Waiting, Live' = Live,
         \A w \in Live : phase = "run" => input'[w] = input[w]
  PROVE  EveryInputOnce'
<1>1. Recorded' = Recorded /\ InHand' = InHand
  BY DEF Recorded, InHand
<1> QED  BY <1>1 DEF EveryInputOnce

LEMMA TakeOnce ==
  ASSUME PoolInv, EveryInputOnce, NEW w \in Workers, Take(w)
  PROVE  EveryInputOnce'
<1> USE DEF PoolInv, Types, Places
<1>1. Recorded' = Recorded /\ lost' = lost /\ phase' = phase
  BY TakeCases DEF Recorded
<1>2. CASE phase = "run"
  <2>1. PICK item \in queue : queue' = queue \ {item} /\ input' = [input EXCEPT ![w] = item]
                             /\ proc' = [proc EXCEPT ![w] = "run"]
    BY <1>2, TakeCases
  <2>2. Live' = Live /\ w \in Live /\ input[w] = NoInput
    BY <1>2, <2>1, TakeCases DEF Live, PlaceInv
  <2>3. item # NoInput
    BY <1>2, <2>1, StepsAssumption
  <2>4. InHand' = InHand \cup {item}
    BY <1>1, <1>2, <2>1, <2>2, <2>3 DEF InHand, Live
  <2>5. Waiting' = Waiting \ {item} /\ item \in Waiting
    BY <1>1, <1>2, <2>1 DEF Waiting
  <2>6. \A v, u \in Live' : (v # u /\ input'[v] = input'[u]) => input'[v] = NoInput
    BY <1>2, <2>1, <2>2, <2>5 DEF EveryInputOnce, InHand, Live
  <2> QED
    BY <1>1, <2>4, <2>5, <2>6, TakeCases DEF EveryInputOnce
<1>3. CASE phase # "run"
  <2>1. Waiting' = Waiting /\ InHand' = InHand
    BY <1>1, <1>3 DEF Waiting, InHand
  <2> QED  BY <1>1, <1>3, <2>1, TakeCases DEF EveryInputOnce
<1> QED  BY <1>2, <1>3

LEMMA RecordOnce ==
  ASSUME PoolInv, EveryInputOnce, NEW w \in Workers, Record(w)
  PROVE  EveryInputOnce'
<1> USE DEF PoolInv, Types, Places
<1>1. phase = "run" /\ input[w] # NoInput /\ w \in Live /\ proc[w] = "record"
  BY RecordFacts DEF PlaceInv, Live
<1>2. UNCHANGED <<phase, queue, lost>> /\ input' = [input EXCEPT ![w] = NoInput]
      /\ proc' = [proc EXCEPT ![w] = "reboot"]
  BY RecordFacts
<1>3. Live' = Live /\ Waiting' = Waiting
  BY <1>1, <1>2 DEF Live, Waiting
<1>4. <<w, gen[w]>> \notin DOMAIN difftest
  BY <1>1 DEF FilesInv
<1>5. /\ DOMAIN difftest' = DOMAIN difftest \cup {<<w, gen[w]>>}
      /\ \A f \in DOMAIN difftest : difftest'[f].input = difftest[f].input
      /\ difftest'[<<w, gen[w]>>].input = input[w]
  <2>1. DOMAIN difftest' = DOMAIN difftest \cup {<<w, gen[w]>>}
    BY RecordFile
  <2>2. \A f \in DOMAIN difftest : f # <<w, gen[w]>> => difftest'[f] = difftest[f]
    BY RecordFile
  <2>3. PICK refused \in BOOLEAN :
           difftest'[<<w, gen[w]>>] =
             [input |-> input[w], operator |-> cluster[w].operator,
              runs |-> cluster[w].runs, stderr |-> refused]
    BY RecordResult
  <2>4. difftest'[<<w, gen[w]>>].input = input[w]
    BY <2>3
  <2> QED  BY <1>4, <2>1, <2>2, <2>4
<1>6. Recorded' = Recorded \cup {input[w]}
  <2>1. ASSUME NEW f \in DOMAIN difftest' PROVE difftest'[f].input \in Recorded \cup {input[w]}
    BY <1>5 DEF Recorded
  <2>2. ASSUME NEW f \in DOMAIN difftest PROVE difftest[f].input \in Recorded'
    <3>1. f \in DOMAIN difftest' /\ difftest'[f].input = difftest[f].input
      BY <1>5
    <3> QED  BY <3>1 DEF Recorded
  <2>3. input[w] \in Recorded'
    <3>1. <<w, gen[w]>> \in DOMAIN difftest'
      BY <1>5
    <3> QED  BY <1>5, <3>1 DEF Recorded
  <2>4. Recorded' \subseteq Recorded \cup {input[w]}
    BY <2>1 DEF Recorded
  <2>5. Recorded \subseteq Recorded'
    BY <2>2 DEF Recorded
  <2> HIDE DEF Types, Places, PoolInv
  <2> QED  BY <2>3, <2>4, <2>5
<1>7. InHand' = InHand \ {input[w]} /\ input[w] \in InHand
  BY <1>1, <1>2, <1>3 DEF InHand, EveryInputOnce, Live
<1>8. \A f \in DOMAIN difftest : difftest[f].input # input[w]
  BY <1>7 DEF EveryInputOnce, Recorded
<1>9. \A f, g \in DOMAIN difftest' : difftest'[f].input = difftest'[g].input => f = g
  BY <1>5, <1>8 DEF EveryInputOnce
<1>10. \A v, u \in Live' : (v # u /\ input'[v] = input'[u]) => input'[v] = NoInput
  BY <1>1, <1>2, <1>3 DEF EveryInputOnce, Live
<1> QED
  BY <1>2, <1>3, <1>6, <1>7, <1>9, <1>10 DEF EveryInputOnce

LEMMA DieOnce ==
  ASSUME PoolInv, EveryInputOnce, NEW w \in Workers, Die(w)
  PROVE  EveryInputOnce'
<1> USE DEF PoolInv, Types, Places
<1>1. w \in Live /\ Live' = Live \ {w}
  BY DEF Die, Go, Live
<1>2. UNCHANGED <<phase, queue, input, difftest>>
  BY DEF Die, runVars
<1>3. Recorded' = Recorded /\ Waiting' = Waiting
  BY <1>2 DEF Recorded, Waiting
<1>4. CASE phase = "run"
  <2>1. lost'.run = lost.run \cup ({input[w]} \ {NoInput})
    BY <1>4 DEF Die, HoldsItem
  <2>2. InHand' = InHand \ {input[w]} /\ {input[w]} \ {NoInput} \subseteq InHand
    BY <1>1, <1>2, <1>4 DEF InHand, EveryInputOnce, Live
  <2>3. NoInput \notin InHand
    BY DEF InHand
  <2>4. UniqueInputs = Waiting' \cup InHand' \cup Recorded' \cup lost'.run
    BY <1>3, <2>1, <2>2, <2>3 DEF EveryInputOnce
  <2>5. /\ Waiting' \cap (InHand' \cup Recorded' \cup lost'.run) = {}
        /\ InHand' \cap (Recorded' \cup lost'.run) = {}
        /\ Recorded' \cap lost'.run = {}
    BY <1>3, <2>1, <2>2 DEF EveryInputOnce
  <2> QED
    BY <1>1, <1>2, <1>4, <2>4, <2>5 DEF EveryInputOnce
<1>5. CASE phase # "run"
  <2>1. lost'.run = lost.run
    BY <1>5 DEF Die
  <2>2. InHand' = InHand
    BY <1>2, <1>5 DEF InHand
  <2> QED  BY <1>2, <1>3, <1>5, <2>1, <2>2 DEF EveryInputOnce
<1> QED  BY <1>4, <1>5

LEMMA StartCheckOnce ==
  ASSUME PoolInv, EveryInputOnce, StartCheck
  PROVE  EveryInputOnce'
<1> USE DEF PoolInv, Types, Places
<1>1. phase = "run" /\ phase' = "check" /\ difftest' = difftest
      /\ lost'.run = lost.run \cup queue
  BY DEF StartCheck
<1>2. Recorded' = Recorded /\ Waiting' = {} /\ Waiting = queue /\ InHand' = {}
  BY <1>1 DEF Recorded, Waiting, InHand
<1>3. InHand = {}
  BY <1>1 DEF StartCheck, Joined, InHand, Live, PlaceInv
<1> QED  BY <1>1, <1>2, <1>3 DEF EveryInputOnce

LEMMA NextOnce ==
  ASSUME PoolInv, EveryInputOnce, [Next]_vars
  PROVE  EveryInputOnce'
<1> USE DEF At, Go, PoolInv, Types, Places
<1>1. ASSUME NEW w \in Workers,
             Boot(w) \/ Exit(w) \/ RunInput(w) \/ Reboot(w) \/ NextInput(w)
      PROVE  EveryInputOnce'
  <2>1. UNCHANGED <<phase, queue, difftest, lost, input>>
    BY <1>1 DEF Boot, Exit, RunInput, Reboot, NextInput, runVars
  <2>2. Live' = Live
    BY <1>1 DEF Boot, Exit, RunInput, Reboot, NextInput, Live
  <2> QED  BY <2>1, <2>2, OnceUnmoved DEF Waiting
<1>2. ASSUME NEW w \in Workers, Judge(w) \/ WriteReport(w) PROVE EveryInputOnce'
  <2>1. UNCHANGED <<phase, queue, difftest, lost>> /\ phase = "check"
    BY <1>2, CheckPhase DEF Judge, WriteReport, runVars
  <2>2. Live' = Live
    BY <1>2 DEF Judge, WriteReport, Live
  <2> QED  BY <2>1, <2>2, OnceUnmoved DEF Waiting
<1>3. CASE Finish
  <2>1. UNCHANGED <<queue, difftest>> /\ phase = "check" /\ phase' = "done" /\ lost'.run = lost.run
    BY <1>3 DEF Finish, runVars
  <2>2. Waiting' = Waiting /\ InHand' = InHand /\ Recorded' = Recorded
    BY <2>1 DEF Waiting, InHand, Recorded
  <2> QED  BY <2>1, <2>2 DEF EveryInputOnce
<1>4. CASE UNCHANGED vars
  <2>1. UNCHANGED <<phase, queue, difftest, lost, input, proc>>
    BY <1>4 DEF vars, runVars
  <2>2. Live' = Live
    BY <2>1 DEF Live
  <2> QED  BY <2>1, <2>2, OnceUnmoved DEF Waiting
<1> QED
  BY <1>1, <1>2, <1>3, <1>4, TakeOnce, RecordOnce, DieOnce, StartCheckOnce
  DEF Next, Worker, Terminated

-----------------------------------------------------------------------------
(* A cluster of its own *)

ClusterInv ==
  phase = "run" =>
    \A w \in Workers :
      /\ proc[w] \in {"get", "run", "next"} => cluster[w].runs = 0
      /\ proc[w] = "record" => cluster[w].runs = 1

LEMMA InitClean == Init => ClusterInv /\ RunsOnCleanCluster
<1> SUFFICES ASSUME Init PROVE ClusterInv /\ RunsOnCleanCluster
  OBVIOUS
<1>1. DOMAIN difftest = {}
  BY DEF Init
<1> QED  BY <1>1 DEF Init, NoCluster, ClusterInv, RunsOnCleanCluster

LEMMA NextCluster ==
  ASSUME PoolInv, ClusterInv, [Next]_vars
  PROVE  ClusterInv'
<1> USE DEF At, Go, PoolInv, Types
<1>1. ASSUME NEW w \in Workers, Boot(w) \/ Reboot(w) PROVE ClusterInv'
  BY <1>1 DEF Boot, Reboot, FreshCluster, ClusterInv
<1>2. ASSUME NEW w \in Workers, Take(w) PROVE ClusterInv'
  BY <1>2, TakeCases DEF ClusterInv
<1>3. ASSUME NEW w \in Workers, Exit(w) PROVE ClusterInv'
  BY <1>3 DEF Exit, ClusterInv, runVars
<1>4. ASSUME NEW w \in Workers, RunInput(w) PROVE ClusterInv'
  BY <1>4 DEF RunInput, ClusterInv
<1>5. ASSUME NEW w \in Workers, Record(w) PROVE ClusterInv'
  BY <1>5, RecordFacts DEF ClusterInv
<1>6. ASSUME NEW w \in Workers, NextInput(w) PROVE ClusterInv'
  BY <1>6 DEF NextInput, ClusterInv
<1>7. ASSUME NEW w \in Workers, Judge(w) \/ WriteReport(w) PROVE ClusterInv'
  BY <1>7, CheckPhase DEF Judge, WriteReport, ClusterInv
<1>8. ASSUME NEW w \in Workers, Die(w) PROVE ClusterInv'
  BY <1>8 DEF Die, ClusterInv, runVars
<1>9. CASE StartCheck \/ Finish
  BY <1>9 DEF StartCheck, Finish, ClusterInv
<1>10. CASE UNCHANGED vars
  BY <1>10 DEF ClusterInv, vars, runVars
<1> QED
  BY <1>1, <1>2, <1>3, <1>4, <1>5, <1>6, <1>7, <1>8, <1>9, <1>10
  DEF Next, Worker, Terminated

LEMMA NextClean ==
  ASSUME PoolInv, ClusterInv, RunsOnCleanCluster, [Next]_vars
  PROVE  RunsOnCleanCluster'
<1>1. ASSUME NEW w \in Workers, Record(w) PROVE RunsOnCleanCluster'
  <2>1. DOMAIN difftest' = DOMAIN difftest \cup {<<w, gen[w]>>}
    BY <1>1, RecordFile
  <2>2. \A f \in DOMAIN difftest : f # <<w, gen[w]>> => difftest'[f] = difftest[f]
    BY <1>1, RecordFile
  <2>3. PICK refused \in BOOLEAN :
           difftest'[<<w, gen[w]>>] =
             [input |-> input[w], operator |-> cluster[w].operator,
              runs |-> cluster[w].runs, stderr |-> refused]
    BY <1>1, RecordResult
  <2>4. cluster[w].runs = 1
    BY <1>1, RecordFacts, RunPhase DEF ClusterInv, PoolInv
  <2> QED  BY <2>1, <2>2, <2>3, <2>4 DEF RunsOnCleanCluster
<1>2. CASE difftest' = difftest
  BY <1>2 DEF RunsOnCleanCluster
<1>3. ASSUME NEW w \in Workers, Worker(w) \/ Die(w), ~Record(w) PROVE difftest' = difftest
  BY <1>3, TakeCases
  DEF Worker, Boot, Exit, RunInput, Reboot, NextInput, Judge, WriteReport, Die, runVars
<1>4. ASSUME StartCheck \/ Finish \/ UNCHANGED vars PROVE difftest' = difftest
  BY <1>4 DEF StartCheck, Finish, vars, runVars
<1> QED
  BY <1>1, <1>2, <1>3, <1>4 DEF Next, Terminated

-----------------------------------------------------------------------------
(* The second pool *)

LEMMA OriginalsDisjoint ==
  ASSUME NEW i, NEW j, NEW s \in Originals(i), s \in Originals(j)
  PROVE  i = j
  BY DEF Originals

LEMMA ToCompareOriginals == ASSUME NEW i PROVE ToCompare(i) \subseteq Originals(i)
  BY DEF ToCompare

ReportInv ==
  /\ phase = "run" => judged = {} /\ failed = {} /\ DOMAIN compare = {}
                      /\ \A w \in Workers : errs[w] = {}
  /\ \A i \in DOMAIN compare : compare[i] = failed \cap Originals(i)

JudgeInv ==
  \A w \in Workers :
    /\ proc[w] = "get" => errs[w] = {}
    /\ proc[w] = "judge" =>
         /\ input[w] \notin DOMAIN compare
         /\ todo[w] \subseteq ToCompare(input[w])
         /\ ToCompare(input[w]) \ todo[w] \subseteq judged
         /\ errs[w] = failed \cap Originals(input[w])
         /\ \A v \in Workers \ {w} : proc[v] = "judge" => input[v] # input[w]

\* The results in the queue have not been looked at.
QueueInv ==
  phase # "run" =>
    \A f \in queue :
      /\ difftest[f].input \notin DOMAIN compare
      /\ failed \cap Originals(difftest[f].input) = {}
      /\ \A w \in Workers : proc[w] = "judge" => input[w] # difftest[f].input

FullyJudged(i) ==
  /\ ToCompare(i) \subseteq judged
  /\ failed \cap Originals(i) # {} => i \in DOMAIN compare

Accounted(i) ==
  \/ i \in lost.check
  \/ \E w \in Workers : proc[w] = "judge" /\ input[w] = i
  \/ FullyJudged(i)

SettledInv ==
  /\ phase # "run" => \A f \in DOMAIN difftest : f \in queue \/ Accounted(difftest[f].input)
  /\ phase = "done" => \A f \in queue : difftest[f].input \in lost.check

CheckInv == ReportInv /\ JudgeInv /\ QueueInv /\ SettledInv

LEMMA InitCheckInv == Init => CheckInv
<1> SUFFICES ASSUME Init PROVE CheckInv
  OBVIOUS
<1>1. DOMAIN compare = {}
  BY DEF Init
<1> QED
  BY <1>1 DEF Init, CheckInv, ReportInv, JudgeInv, QueueInv, SettledInv

LEMMA CheckInvGivesReports ==
  ASSUME PoolInv, CheckInv
  PROVE  ReportsComplete
<1>1. ASSUME phase = "done", NEW i \in Recorded \ lost.check PROVE FullyJudged(i)
  <2>1. PICK f \in DOMAIN difftest : difftest[f].input = i
    BY DEF Recorded
  <2>2. Accounted(i)
    BY <1>1, <2>1 DEF CheckInv, SettledInv
  <2>3. \A w \in Workers : proc[w] # "judge"
    BY <1>1 DEF PoolInv, PlaceInv
  <2> QED  BY <2>2, <2>3 DEF Accounted
<1> QED  BY <1>1 DEF CheckInv, ReportInv, ReportsComplete, FullyJudged

\* The first pool leaves all of this alone.
LEMMA RunPhaseCheckInv ==
  ASSUME PoolInv, CheckInv, phase' = "run", phase = "run", PoolInv',
         UNCHANGED <<compare, judged, failed, errs>>
  PROVE  CheckInv'
  BY DEF CheckInv, ReportInv, JudgeInv, QueueInv, SettledInv, PoolInv, PlaceInv

LEMMA StartCheckInv ==
  ASSUME PoolInv, CheckInv, StartCheck
  PROVE  CheckInv'
<1>1. /\ phase = "run" /\ phase' = "check" /\ queue' = DOMAIN difftest
      /\ proc' = [w \in Workers |-> "get"]
      /\ UNCHANGED <<difftest, todo, errs, compare, judged, failed>>
  BY DEF StartCheck
<1> QED
  BY <1>1 DEF CheckInv, ReportInv, JudgeInv, QueueInv, SettledInv

LEMMA TakeCheckInv ==
  ASSUME PoolInv, EveryInputOnce, CheckInv, NEW w \in Workers, Take(w), phase = "check"
  PROVE  CheckInv'
<1>1. PICK item \in queue :
        /\ queue' = queue \ {item}
        /\ input' = [input EXCEPT ![w] = difftest[item].input]
        /\ todo' = [todo EXCEPT ![w] = ToCompare(difftest[item].input)]
        /\ proc' = [proc EXCEPT ![w] = "judge"]
  BY TakeCases
<1>2. UNCHANGED <<phase, difftest, lost, compare, judged, failed, errs>> /\ proc[w] = "get"
  BY TakeCases
<1> PICK i : i = difftest[item].input
  OBVIOUS
<1>3. /\ input'[w] = i /\ todo'[w] = ToCompare(i) /\ proc'[w] = "judge" /\ errs[w] = {}
      /\ \A v \in Workers \ {w} : input'[v] = input[v] /\ todo'[v] = todo[v] /\ proc'[v] = proc[v]
  BY <1>1, <1>2 DEF PoolInv, Types, CheckInv, JudgeInv
<1>4. /\ i \notin DOMAIN compare /\ failed \cap Originals(i) = {}
      /\ \A v \in Workers : proc[v] = "judge" => input[v] # i
  BY DEF CheckInv, QueueInv
<1>5. \A f \in queue' : difftest[f].input # i
  BY <1>1 DEF EveryInputOnce, PoolInv, Types
<1>6. ReportInv'
  BY <1>2 DEF CheckInv, ReportInv
<1>7. JudgeInv'
  BY <1>2, <1>3, <1>4 DEF CheckInv, JudgeInv
<1>8. QueueInv'
  <2>1. ASSUME NEW f \in queue'
        PROVE  /\ difftest[f].input \notin DOMAIN compare
               /\ failed \cap Originals(difftest[f].input) = {}
               /\ \A v \in Workers : proc'[v] = "judge" => input'[v] # difftest[f].input
    BY <1>1, <1>3, <1>5 DEF CheckInv, QueueInv
  <2> QED  BY <1>2, <2>1 DEF QueueInv
<1>9. SettledInv'
  <2>1. ASSUME NEW j, Accounted(j) PROVE Accounted(j)'
    BY <1>2, <1>3, <2>1 DEF Accounted, FullyJudged
  <2>2. Accounted(i)'
    BY <1>3 DEF Accounted
  <2>3. \A f \in DOMAIN difftest : f \in queue' \/ f = item \/ Accounted(difftest[f].input)
    BY <1>1 DEF CheckInv, SettledInv
  <2>4. \A j : Accounted(j) => Accounted(j)'
    BY <2>1
  <2> QED  BY <1>1, <1>2, <2>2, <2>3, <2>4 DEF CheckInv, SettledInv, PoolInv, PlaceInv
<1> QED  BY <1>6, <1>7, <1>8, <1>9 DEF CheckInv

LEMMA ExitCheckInv ==
  ASSUME PoolInv, CheckInv, NEW w \in Workers, Exit(w)
  PROVE  CheckInv'
<1>1. UNCHANGED <<phase, queue, input, difftest, lost, todo, errs, compare, judged, failed>>
  BY DEF Exit, runVars, checkVars
<1>2. proc[w] = "get" /\ proc'[w] = "exited" /\ \A v \in Workers \ {w} : proc'[v] = proc[v]
  BY DEF Exit, At, Go, PoolInv, Types
<1>3. ASSUME NEW j, Accounted(j) PROVE Accounted(j)'
  BY <1>1, <1>2, <1>3 DEF Accounted, FullyJudged
<1>4. SettledInv'
  BY <1>1, <1>3 DEF CheckInv, SettledInv
<1> QED  BY <1>1, <1>2, <1>4 DEF CheckInv, ReportInv, JudgeInv, QueueInv

LEMMA JudgeCheckInv ==
  ASSUME PoolInv, CheckInv, NEW w \in Workers, Judge(w)
  PROVE  CheckInv'
<1>1. phase = "check" /\ proc[w] = "judge"
  BY CheckPhase DEF Judge, At, PoolInv
<1>2. UNCHANGED <<lost, phase, queue, proc, input, difftest, compare>>
  BY DEF Judge, runVars
<1>3. PICK s \in todo[w] :
        /\ todo' = [todo EXCEPT ![w] = @ \ {s}]
        /\ judged' = judged \cup {s}
        /\ \/ /\ errs' = [errs EXCEPT ![w] = @ \cup {s}]
              /\ failed' = failed \cup {s}
           \/ errs' = errs /\ failed' = failed
  BY DEF Judge
<1>4. s \in Originals(input[w]) /\ input[w] \notin DOMAIN compare
  BY <1>1, ToCompareOriginals DEF CheckInv, JudgeInv
<1>5. \A j : j # input[w] => failed' \cap Originals(j) = failed \cap Originals(j)
  BY <1>3, <1>4, OriginalsDisjoint
<1>6. ReportInv'
  BY <1>1, <1>2, <1>4, <1>5 DEF CheckInv, ReportInv
<1>7. JudgeInv'
  <2>1. ASSUME NEW v \in Workers \ {w}
        PROVE  /\ proc[v] = "get" => errs'[v] = {}
               /\ proc[v] = "judge" =>
                    /\ todo'[v] \subseteq ToCompare(input[v])
                    /\ ToCompare(input[v]) \ todo'[v] \subseteq judged'
                    /\ errs'[v] = failed' \cap Originals(input[v])
    <3>1. todo'[v] = todo[v] /\ errs'[v] = errs[v]
      BY <1>3 DEF PoolInv, Types
    <3>2. proc[v] = "judge" => input[v] # input[w]
      BY <1>1 DEF CheckInv, JudgeInv
    <3> QED  BY <1>3, <1>5, <3>1, <3>2 DEF CheckInv, JudgeInv
  <2>2. todo'[w] = todo[w] \ {s}
    BY <1>3 DEF PoolInv, Types
  <2>3. /\ todo'[w] \subseteq ToCompare(input[w])
        /\ ToCompare(input[w]) \ todo'[w] \subseteq judged'
    BY <1>1, <1>3, <2>2 DEF CheckInv, JudgeInv
  <2>4. errs'[w] = failed' \cap Originals(input[w])
    <3>1. errs[w] = failed \cap Originals(input[w])
      BY <1>1 DEF CheckInv, JudgeInv
    <3>2. CASE errs' = [errs EXCEPT ![w] = @ \cup {s}] /\ failed' = failed \cup {s}
      <4>1. errs'[w] = errs[w] \cup {s}
        BY <3>2 DEF PoolInv, Types
      <4> QED  BY <1>4, <3>1, <3>2, <4>1
    <3> QED  BY <1>3, <3>1, <3>2
  <2> QED  BY <1>1, <1>2, <2>1, <2>3, <2>4 DEF CheckInv, JudgeInv
<1>8. QueueInv'
  <2>1. \A f \in queue : difftest[f].input # input[w]
    BY <1>1 DEF CheckInv, QueueInv
  <2> QED  BY <1>1, <1>2, <1>5, <2>1 DEF CheckInv, QueueInv
<1>9. SettledInv'
  <2>1. ASSUME NEW j, Accounted(j) PROVE Accounted(j)'
    <3>1. CASE j = input[w]
      BY <1>1, <1>2, <3>1 DEF Accounted
    <3>2. CASE j # input[w]
      BY <1>2, <1>3, <1>5, <2>1, <3>2 DEF Accounted, FullyJudged
    <3> QED  BY <3>1, <3>2
  <2> QED  BY <1>1, <1>2, <2>1 DEF CheckInv, SettledInv
<1> QED  BY <1>6, <1>7, <1>8, <1>9 DEF CheckInv

LEMMA WriteReportCheckInv ==
  ASSUME PoolInv, CheckInv, NEW w \in Workers, WriteReport(w)
  PROVE  CheckInv'
<1> PICK i : i = input[w]
  OBVIOUS
<1>1. phase = "check" /\ proc[w] = "judge" /\ todo[w] = {}
  BY CheckPhase DEF WriteReport, At, PoolInv
<1>2. /\ UNCHANGED <<lost, phase, queue, difftest, todo, judged, failed>>
      /\ errs' = [errs EXCEPT ![w] = {}]
      /\ input' = [input EXCEPT ![w] = NoInput]
      /\ proc' = [proc EXCEPT ![w] = "get"]
  BY DEF WriteReport, ResetErrs, Go, runVars
<1>3. /\ errs'[w] = {} /\ proc'[w] = "get"
      /\ \A v \in Workers \ {w} : errs'[v] = errs[v] /\ input'[v] = input[v] /\ proc'[v] = proc[v]
  BY <1>2 DEF PoolInv, Types
<1>4. ToCompare(i) \subseteq judged /\ errs[w] = failed \cap Originals(i) /\ i \notin DOMAIN compare
  BY <1>1 DEF CheckInv, JudgeInv
<1>5. compare' = IF errs[w] = {} THEN compare
                ELSE [j \in DOMAIN compare \cup {i} |-> IF j = i THEN errs[w] ELSE compare[j]]
  BY DEF WriteReport, ReportFile
<1>6. /\ DOMAIN compare' \subseteq DOMAIN compare \cup {i}
      /\ DOMAIN compare \subseteq DOMAIN compare'
      /\ errs[w] # {} => i \in DOMAIN compare'
      /\ \A j \in DOMAIN compare : compare'[j] = compare[j]
      /\ i \in DOMAIN compare' => compare'[i] = errs[w]
  BY <1>4, <1>5
<1>7. ReportInv'
  BY <1>1, <1>2, <1>4, <1>6 DEF CheckInv, ReportInv
<1>8. \A v \in Workers \ {w} : proc[v] = "judge" => input[v] # i
  BY <1>1 DEF CheckInv, JudgeInv
<1>9. JudgeInv'
  BY <1>2, <1>3, <1>6, <1>8 DEF CheckInv, JudgeInv
<1>10. QueueInv'
  <2>1. \A f \in queue : difftest[f].input # i
    BY <1>1 DEF CheckInv, QueueInv
  <2> QED  BY <1>1, <1>2, <1>3, <1>6, <2>1 DEF CheckInv, QueueInv
<1>11. SettledInv'
  <2>1. FullyJudged(i)'
    BY <1>2, <1>4, <1>6 DEF FullyJudged
  <2>2. ASSUME NEW j, j # i, Accounted(j) PROVE Accounted(j)'
    BY <1>2, <1>3, <1>6, <2>2 DEF Accounted, FullyJudged
  <2>3. \A j : Accounted(j) => Accounted(j)'
    BY <2>1, <2>2 DEF Accounted
  <2> QED  BY <1>1, <1>2, <2>3 DEF CheckInv, SettledInv
<1> QED  BY <1>7, <1>9, <1>10, <1>11 DEF CheckInv

LEMMA DieCheckInv ==
  ASSUME PoolInv, CheckInv, NEW w \in Workers, Die(w), phase # "run"
  PROVE  CheckInv'
<1>1. UNCHANGED <<phase, queue, input, difftest, todo, errs, compare, judged, failed>>
  BY DEF Die, runVars, checkVars
<1>2. phase = "check" /\ proc[w] \in {"get", "judge"}
  BY DEF Die, PoolInv, Types, PlaceInv
<1>3. proc'[w] = "dead" /\ \A v \in Workers \ {w} : proc'[v] = proc[v]
  BY DEF Die, Go, PoolInv, Types
<1>4. lost.check \subseteq lost'.check /\ (input[w] # NoInput => input[w] \in lost'.check)
  BY <1>2 DEF Die, HoldsItem, PoolInv, Types
<1>5. ASSUME NEW f \in DOMAIN difftest, Accounted(difftest[f].input)
      PROVE  Accounted(difftest[f].input)'
  <2>1. difftest[f].input # NoInput
    BY StepsAssumption DEF PoolInv, Types, Result
  <2> QED  BY <1>1, <1>3, <1>4, <1>5, <2>1 DEF Accounted, FullyJudged
<1>6. SettledInv'
  BY <1>1, <1>2, <1>5 DEF CheckInv, SettledInv
<1> QED  BY <1>1, <1>3, <1>6 DEF CheckInv, ReportInv, JudgeInv, QueueInv

LEMMA FinishCheckInv ==
  ASSUME PoolInv, CheckInv, Finish
  PROVE  CheckInv'
<1>1. /\ UNCHANGED <<queue, proc, input, difftest, todo, errs, compare, judged, failed>>
      /\ phase = "check" /\ phase' = "done"
      /\ lost'.check = lost.check \cup {difftest[f].input : f \in queue}
  BY DEF Finish, runVars, checkVars, PoolInv, Types
<1>2. ASSUME NEW j, Accounted(j) PROVE Accounted(j)'
  BY <1>1, <1>2 DEF Accounted, FullyJudged
<1>3. SettledInv'
  BY <1>1, <1>2 DEF CheckInv, SettledInv
<1> QED  BY <1>1, <1>3 DEF CheckInv, ReportInv, JudgeInv, QueueInv

LEMMA NextCheckInv ==
  ASSUME PoolInv, PoolInv', EveryInputOnce, CheckInv, [Next]_vars
  PROVE  CheckInv'
<1> USE DEF At, Go
<1>1. ASSUME NEW w \in Workers,
             Boot(w) \/ RunInput(w) \/ Record(w) \/ Reboot(w) \/ NextInput(w)
      PROVE  CheckInv'
  <2>1. phase = "run"
    BY <1>1, RunPhase DEF PoolInv, Boot, RunInput, Record, Reboot, NextInput
  <2>2. UNCHANGED <<phase, compare, judged, failed, errs>>
    BY <1>1 DEF Boot, RunInput, Record, Reboot, NextInput, checkVars
  <2> QED  BY <2>1, <2>2, RunPhaseCheckInv
<1>2. ASSUME NEW w \in Workers, Take(w) PROVE CheckInv'
  <2>1. CASE phase = "run"
    BY <1>2, <2>1, TakeCases, RunPhaseCheckInv
  <2>2. CASE phase = "check"
    BY <1>2, <2>2, TakeCheckInv
  <2>3. phase # "done"
    BY <1>2, TakeCases DEF PoolInv, PlaceInv
  <2> QED  BY <2>1, <2>2, <2>3 DEF PoolInv, Types
<1>3. ASSUME NEW w \in Workers, Die(w) PROVE CheckInv'
  <2>1. CASE phase = "run"
    BY <1>3, <2>1, RunPhaseCheckInv DEF Die, checkVars
  <2>2. CASE phase # "run"
    BY <1>3, <2>2, DieCheckInv
  <2> QED  BY <2>1, <2>2
<1>4. CASE UNCHANGED vars
  <2>1. UNCHANGED <<phase, queue, proc, input, lost, difftest, todo, errs, compare, judged, failed>>
    BY <1>4 DEF vars, runVars, checkVars
  <2>2. ASSUME NEW j PROVE Accounted(j)' <=> Accounted(j)
    BY <2>1 DEF Accounted, FullyJudged
  <2> QED
    BY <2>1, <2>2 DEF CheckInv, ReportInv, JudgeInv, QueueInv, SettledInv
<1> QED
  BY <1>1, <1>2, <1>3, <1>4, ExitCheckInv, JudgeCheckInv, WriteReportCheckInv,
     StartCheckInv, FinishCheckInv
  DEF Next, Worker, Terminated

-----------------------------------------------------------------------------
(* What the comparisons say *)

\* What the steps with the seed's CR teach, when its result is there.
Silent == HealthAlarmed \cup Rejected \cup LogInvalid
SeedNoise(s) ==
  IF s \in Silent THEN {}
  ELSE SystemDiff(Collect(FreshState(SeedDigest, TRUE)), Collect(StateOf(s)), IgnoreFields)
         \cap OneSided(Collect(StateOf(s)), Collect(FreshState(SeedDigest, TRUE)))
Learned == IgnoreFields \cup CommonPatterns(UNION {SeedNoise(s) : s \in Originals(SeedDigest)})

\* Of the states: the seed's CR is accepted again, and what is left of a
\* difference without the paths that the config names, and those of objects and
\* fields that were on one side only at the seed, is there just when the operator
\* went another way, was not there, or a value is unsteady.
SeedTellsApart ==
  /\ SeedDigest \notin RefusedAgain
  /\ \A i \in Inputs, operator \in BOOLEAN : \A s \in ToCompare(i) \ Silent :
       SystemDiff(Collect(FreshState(i, operator)), Collect(StateOf(s)), Learned) # {}
         <=> s \in Diverged \cup Unsteady \/ ~operator

\* What was learned does not change while it is used, and every step was judged
\* by the result of its own input.
VerdictInv ==
  /\ \A f \in DOMAIN difftest : difftest[f].stderr => difftest[f].input \in RefusedAgain
  /\ phase = "run" => judged = {} /\ ignored = IgnoreFields
  /\ phase # "run" /\ HasLearned /\ SeedDigest \notin RefusedAgain => ignored = Learned
  /\ failed \subseteq judged
  /\ judged \cap SeedSteps = {}
  /\ \A s \in judged : s \in failed <=> StepFails(ResultOf(InputOf[s]), s)

LEMMA InitVerdictInv == Init => VerdictInv
<1> SUFFICES ASSUME Init PROVE VerdictInv
  OBVIOUS
<1>1. DOMAIN difftest = {}
  BY DEF Init
<1> QED  BY <1>1 DEF Init, VerdictInv

\* The comparison reads the results and what was learned, nothing else.
LEMMA SameComparison ==
  ASSUME UNCHANGED <<difftest, ignored>>
  PROVE  /\ \A s \in judged \cup judged' :
              StepFails(ResultOf(InputOf[s]), s)' <=> StepFails(ResultOf(InputOf[s]), s)
         /\ HasLearned' <=> HasLearned
<1>1. ASSUME NEW s PROVE StepFails(ResultOf(InputOf[s]), s)' <=> StepFails(ResultOf(InputOf[s]), s)
  BY DEF StepFails, StepDiff, RejectedFails, Collected, ResultOf
<1>2. HasLearned' <=> HasLearned
  BY DEF HasLearned, SeedResults
<1> QED  BY <1>1, <1>2

LEMMA RestVerdictInv ==
  ASSUME VerdictInv, UNCHANGED <<phase, difftest, ignored, judged, failed>>
  PROVE  VerdictInv'
<1>1. \A s \in judged : StepFails(ResultOf(InputOf[s]), s)' <=> StepFails(ResultOf(InputOf[s]), s)
  BY SameComparison
<1>2. HasLearned' <=> HasLearned
  BY SameComparison
<1> QED  BY <1>1, <1>2 DEF VerdictInv

LEMMA RecordVerdictInv ==
  ASSUME PoolInv, CheckInv, VerdictInv, NEW w \in Workers, Record(w)
  PROVE  VerdictInv'
<1>1. phase = "run" /\ phase' = "run" /\ judged' = {} /\ ignored' = IgnoreFields /\ failed' = {}
  <2>1. phase = "run"
    BY RunPhase, RecordFacts DEF PoolInv
  <2> QED  BY <2>1, RecordFacts DEF VerdictInv
<1>2. PICK refused \in BOOLEAN :
        /\ refused => input[w] \in RefusedAgain
        /\ difftest' = [f \in DOMAIN difftest \cup {<<w, gen[w]>>} |->
                       IF f = <<w, gen[w]>>
                       THEN [input |-> input[w], operator |-> cluster[w].operator,
                             runs |-> cluster[w].runs, stderr |-> refused]
                       ELSE difftest[f]]
  BY DEF Record, DiffTestFile
<1>3. \A f \in DOMAIN difftest' : difftest'[f].stderr => difftest'[f].input \in RefusedAgain
  BY <1>2 DEF VerdictInv
<1> QED  BY <1>1, <1>3 DEF VerdictInv

\* The seed's input has one result, so what is learned is what Learned says.
LEMMA LearnedFromSeed ==
  ASSUME PoolInv, EveryInputOnce, VerdictInv, phase = "run", HasLearned,
         SeedDigest \notin RefusedAgain
  PROVE  IgnoreFields \cup CommonPatterns(SeedPaths) = Learned
<1>1. PICK r \in SeedResults : r.operator
  BY DEF HasLearned
<1>2. PICK f \in DOMAIN difftest : difftest[f] = r /\ r.input = SeedDigest
  BY DEF SeedResults
<1>3. r \in Result
  BY <1>2 DEF PoolInv, Types
<1>4. r.operator = TRUE /\ ~r.stderr
  BY <1>1, <1>2, <1>3 DEF Result, VerdictInv
<1>5. \A q \in SeedResults : q = r
  <2>1. ASSUME NEW q \in SeedResults PROVE q = r
    <3>1. PICK g \in DOMAIN difftest : difftest[g] = q /\ q.input = SeedDigest
      BY DEF SeedResults
    <3> QED  BY <1>2, <3>1 DEF EveryInputOnce
  <2> QED  BY <2>1
<1>6. ASSUME NEW s PROVE Listed(r, s) = SeedNoise(s)
  <2>1. ignored = IgnoreFields
    BY DEF VerdictInv
  <2>2. Collected(r) = Collect(FreshState(SeedDigest, TRUE))
    BY <1>2, <1>4 DEF Collected
  <2> QED  BY <1>4, <2>1, <2>2 DEF Listed, StepDiff, SeedNoise, Silent
<1>7. SeedPaths = UNION {SeedNoise(s) : s \in Originals(SeedDigest)}
  <2>1. {Listed(q, s) : q \in SeedResults, s \in Originals(SeedDigest)}
          = {Listed(r, s) : s \in Originals(SeedDigest)}
    BY <1>1, <1>5
  <2>2. {Listed(r, s) : s \in Originals(SeedDigest)}
          = {SeedNoise(s) : s \in Originals(SeedDigest)}
    BY <1>6
  <2> QED  BY <2>1, <2>2 DEF SeedPaths
<1> QED  BY <1>7 DEF Learned

LEMMA StartVerdictInv ==
  ASSUME PoolInv, EveryInputOnce, VerdictInv, StartCheck
  PROVE  VerdictInv'
<1>1. /\ phase = "run" /\ phase' = "check"
      /\ UNCHANGED <<difftest, judged, failed>>
      /\ ignored' = ignored \cup CommonPatterns(SeedPaths)
  BY DEF StartCheck
<1>2. judged' = {} /\ failed' = {} /\ ignored = IgnoreFields
  BY <1>1 DEF VerdictInv
<1>3. HasLearned' <=> HasLearned
  BY <1>1 DEF HasLearned, SeedResults
<1>4. HasLearned /\ SeedDigest \notin RefusedAgain => ignored' = Learned
  BY <1>1, <1>2, LearnedFromSeed
<1> QED  BY <1>1, <1>2, <1>3, <1>4 DEF VerdictInv

LEMMA JudgeVerdictInv ==
  ASSUME PoolInv, CheckInv, VerdictInv, NEW w \in Workers, Judge(w)
  PROVE  VerdictInv'
<1>1. phase = "check" /\ proc[w] = "judge"
  BY CheckPhase DEF Judge, At, PoolInv
<1>2. UNCHANGED <<phase, difftest, ignored>>
  BY DEF Judge, runVars
<1>3. PICK s \in todo[w] :
        /\ judged' = judged \cup {s}
        /\ failed' = IF StepFails(ResultOf(input[w]), s) THEN failed \cup {s} ELSE failed
  BY DEF Judge
<1>4. s \in ToCompare(input[w])
  BY <1>1 DEF CheckInv, JudgeInv
<1>5. InputOf[s] = input[w] /\ s \notin SeedSteps
  BY <1>4 DEF ToCompare, Originals
<1>6. s \in failed' <=> StepFails(ResultOf(InputOf[s]), s)
  BY <1>3, <1>5 DEF VerdictInv
<1>7. \A t \in judged' : t \in failed' <=> StepFails(ResultOf(InputOf[t]), t)
  BY <1>3, <1>6 DEF VerdictInv
<1>8. \A t \in judged' : StepFails(ResultOf(InputOf[t]), t)' <=> StepFails(ResultOf(InputOf[t]), t)
  BY <1>2, SameComparison
<1>9. HasLearned' <=> HasLearned
  BY <1>2, SameComparison
<1>10. failed' \subseteq judged' /\ judged' \cap SeedSteps = {}
  BY <1>3, <1>5 DEF VerdictInv
<1> QED  BY <1>1, <1>2, <1>7, <1>8, <1>9, <1>10 DEF VerdictInv

LEMMA NextVerdictInv ==
  ASSUME PoolInv, EveryInputOnce, CheckInv, VerdictInv, [Next]_vars
  PROVE  VerdictInv'
<1>1. ASSUME NEW w \in Workers,
             Boot(w) \/ Take(w) \/ Exit(w) \/ RunInput(w) \/ Reboot(w) \/ NextInput(w)
               \/ WriteReport(w) \/ Die(w)
      PROVE  VerdictInv'
  <2>1. UNCHANGED <<phase, difftest, ignored, judged, failed>>
    BY <1>1, TakeCases
    DEF Boot, Exit, RunInput, Reboot, NextInput, WriteReport, Die, runVars, checkVars
  <2> QED  BY <2>1, RestVerdictInv
<1>2. CASE Finish
  <2>1. UNCHANGED <<difftest, ignored, judged, failed>> /\ phase = "check" /\ phase' = "done"
    BY <1>2 DEF Finish, runVars, checkVars
  <2>2. \A s \in judged : StepFails(ResultOf(InputOf[s]), s)' <=> StepFails(ResultOf(InputOf[s]), s)
    BY <2>1, SameComparison
  <2>3. HasLearned' <=> HasLearned
    BY <2>1, SameComparison
  <2> QED  BY <2>1, <2>2, <2>3 DEF VerdictInv
<1>3. CASE UNCHANGED vars
  BY <1>3, RestVerdictInv DEF vars, runVars, checkVars
<1> QED
  BY <1>1, <1>2, <1>3, RecordVerdictInv, StartVerdictInv, JudgeVerdictInv
  DEF Next, Worker, Terminated

LEMMA VerdictInvIsReal ==
  ASSUME SeedTellsApart, PoolInv, VerdictInv
  PROVE  VerdictsAreReal
<1> SUFFICES ASSUME HasLearned, NEW i \in Recorded,
                    NEW s \in (judged \cap Originals(i)) \ Rejected
             PROVE  (s \in failed) <=>
                      /\ ~(s \in HealthAlarmed \cup LogInvalid \/ ResultOf(i).stderr)
                      /\ s \in Diverged \cup Unsteady \/ ~ResultOf(i).operator
  BY DEF VerdictsAreReal
<1> DEFINE r == ResultOf(i)
<1>1. r \in Result /\ r.input = i
  <2>1. PICK f \in DOMAIN difftest : difftest[f].input = i
    BY DEF Recorded
  <2>2. \E q \in {difftest[g] : g \in DOMAIN difftest} : q.input = i
    BY <2>1
  <2>3. r \in {difftest[g] : g \in DOMAIN difftest} /\ r.input = i
    BY <2>2 DEF ResultOf
  <2> QED  BY <2>3 DEF PoolInv, Types
<1>2. InputOf[s] = i /\ s \in ToCompare(i)
  BY DEF Originals, ToCompare, VerdictInv
<1>3. s \in failed <=> StepDiff(r, s) # {}
  BY <1>2 DEF VerdictInv, StepFails, RejectedFails
<1>4. ignored = Learned
  BY DEF VerdictInv, SeedTellsApart
<1> HIDE DEF r
<1>5. CASE s \in HealthAlarmed \cup LogInvalid \/ r.stderr
  BY <1>3, <1>5 DEF StepDiff, r
<1>6. CASE ~(s \in HealthAlarmed \cup LogInvalid \/ r.stderr)
  <2>1. StepDiff(r, s) = SystemDiff(Collect(FreshState(i, r.operator)), Collect(StateOf(s)), Learned)
    BY <1>1, <1>4, <1>6 DEF StepDiff, Collected
  <2>2. i \in Inputs /\ r.operator \in BOOLEAN /\ s \in ToCompare(i) \ Silent
    BY <1>1, <1>2, <1>6 DEF Result, Silent
  <2>3. SystemDiff(Collect(FreshState(i, r.operator)), Collect(StateOf(s)), Learned) # {}
          <=> s \in Diverged \cup Unsteady \/ ~r.operator
    BY <2>2 DEF SeedTellsApart
  <2> QED  BY <1>3, <1>6, <2>1, <2>3 DEF r
<1> QED  BY <1>5, <1>6

-----------------------------------------------------------------------------
(* What compute_common_regex learns from a set of paths *)

\* The paths that a comparison can report.
Paths == ToSet(Kinds) \X Nat \X Nat \X ToSet(Fields)

KindRank(k) == SelectInSeq(Kinds, LAMBDA x : x = k)
FieldRank(f) == SelectInSeq(Fields, LAMBDA x : x = f)

LEMMA KindRanks ==
  \A k, l \in ToSet(Kinds) : KindRank(k) \in Nat /\ (KindRank(k) = KindRank(l) => k = l)
<1>1. ASSUME NEW i \in 1 .. 7 PROVE KindRank(Kinds[i]) = i
  <2> DEFINE I == {j \in 1 .. Len(Kinds) : Kinds[j] = Kinds[i]}
  <2>1. Len(Kinds) = 7 /\ \A j \in 1 .. 7 : Kinds[j] = Kinds[i] => j = i
    BY DEF Kinds
  <2>2. I = {i}
    BY <2>1
  <2>3. KindRank(Kinds[i]) = IF I # {} THEN Min(I) ELSE 0
    BY DEF KindRank, SelectInSeq
  <2> HIDE DEF I
  <2> QED  BY <2>2, <2>3 DEF Min
<1>2. \A k \in ToSet(Kinds) : \E i \in 1 .. 7 : k = Kinds[i]
  <2>1. DOMAIN Kinds = 1 .. 7
    BY DEF Kinds
  <2> QED  BY <2>1 DEF ToSet
<1> QED  BY <1>1, <1>2

LEMMA FieldRanks ==
  \A k, l \in ToSet(Fields) : FieldRank(k) \in Nat /\ (FieldRank(k) = FieldRank(l) => k = l)
<1>1. ASSUME NEW i \in 1 .. 6 PROVE FieldRank(Fields[i]) = i
  <2> DEFINE I == {j \in 1 .. Len(Fields) : Fields[j] = Fields[i]}
  <2>1. Len(Fields) = 6 /\ \A j \in 1 .. 6 : Fields[j] = Fields[i] => j = i
    BY DEF Fields
  <2>2. I = {i}
    BY <2>1
  <2>3. FieldRank(Fields[i]) = IF I # {} THEN Min(I) ELSE 0
    BY DEF FieldRank, SelectInSeq
  <2> HIDE DEF I
  <2> QED  BY <2>2, <2>3 DEF Min
<1>2. \A k \in ToSet(Fields) : \E i \in 1 .. 6 : k = Fields[i]
  <2>1. DOMAIN Fields = 1 .. 6
    BY DEF Fields
  <2> QED  BY <2>1 DEF ToSet
<1> QED  BY <1>1, <1>2

\* Comparing part by part.
Sooner(p, q) ==
  \/ KindRank(p[1]) < KindRank(q[1])
  \/ KindRank(p[1]) = KindRank(q[1]) /\ p[2] < q[2]
  \/ KindRank(p[1]) = KindRank(q[1]) /\ p[2] = q[2] /\ p[3] < q[3]
  \/ KindRank(p[1]) = KindRank(q[1]) /\ p[2] = q[2] /\ p[3] = q[3] /\ FieldRank(p[4]) < FieldRank(q[4])

LEMMA SortsByParts ==
  ASSUME NEW p, NEW q
  PROVE  SortsBefore(p, q) <=> Sooner(p, q)
<1> DEFINE s == SortKey(p)
           t == SortKey(q)
<1>1. /\ s[1] = KindRank(p[1]) /\ s[2] = p[2] /\ s[3] = p[3] /\ s[4] = FieldRank(p[4])
      /\ t[1] = KindRank(q[1]) /\ t[2] = q[2] /\ t[3] = q[3] /\ t[4] = FieldRank(q[4])
  BY DEF SortKey, KindRank, FieldRank
<1>2. SortsBefore(p, q) <=> \E i \in 1 .. 4 : s[i] < t[i] /\ \A j \in 1 .. i - 1 : s[j] = t[j]
  BY DEF SortsBefore
<1> HIDE DEF s, t
<1>3. (\E i \in 1 .. 4 : s[i] < t[i] /\ \A j \in 1 .. i - 1 : s[j] = t[j])
        <=> \/ s[1] < t[1]
            \/ s[1] = t[1] /\ s[2] < t[2]
            \/ s[1] = t[1] /\ s[2] = t[2] /\ s[3] < t[3]
            \/ s[1] = t[1] /\ s[2] = t[2] /\ s[3] = t[3] /\ s[4] < t[4]
  <2> DEFINE Same(i) == \A j \in 1 .. i - 1 : s[j] = t[j]
             First(i) == s[i] < t[i] /\ Same(i)
  <2>1. /\ Same(1)
        /\ Same(2) <=> s[1] = t[1]
        /\ Same(3) <=> s[1] = t[1] /\ s[2] = t[2]
        /\ Same(4) <=> s[1] = t[1] /\ s[2] = t[2] /\ s[3] = t[3]
    OBVIOUS
  <2> HIDE DEF Same
  <2>2. (\E i \in 1 .. 4 : First(i)) <=> First(1) \/ First(2) \/ First(3) \/ First(4)
    <3> HIDE DEF First
    <3>1. \A i \in 1 .. 4 : i = 1 \/ i = 2 \/ i = 3 \/ i = 4
      OBVIOUS
    <3> QED  BY <3>1
  <2> QED  BY <2>1, <2>2 DEF Same
<1> QED  BY <1>1, <1>2, <1>3 DEF Sooner

PathOrder == {x \in Paths \X Paths : SortsBefore(x[1], x[2])}

LEMMA PathsInOrder ==
  ASSUME NEW S, S \subseteq Paths
  PROVE  StrictTotalOrder(S, PathOrder)
<1>1. \A p, q \in Paths : <<p, q>> \in PathOrder <=> Sooner(p, q)
  BY SortsByParts DEF PathOrder
<1>2. ASSUME NEW p \in Paths
      PROVE  /\ KindRank(p[1]) \in Nat /\ p[2] \in Nat /\ p[3] \in Nat /\ FieldRank(p[4]) \in Nat
             /\ p[1] \in ToSet(Kinds) /\ p[4] \in ToSet(Fields)
             /\ p = <<p[1], p[2], p[3], p[4]>>
  BY KindRanks, FieldRanks DEF Paths
<1>3. \A p \in Paths : ~ Sooner(p, p)
  BY <1>2 DEF Sooner
<1>4. ASSUME NEW p \in Paths, NEW q \in Paths, NEW r \in Paths, Sooner(p, q), Sooner(q, r)
      PROVE  Sooner(p, r)
  <2>1. \A a, b, c, d, e, f, x, y, z, u, v, w \in Nat :
          /\ a < d \/ (a = d /\ b < e) \/ (a = d /\ b = e /\ c < f) \/ (a = d /\ b = e /\ c = f /\ u < v)
          /\ d < x \/ (d = x /\ e < y) \/ (d = x /\ e = y /\ f < z) \/ (d = x /\ e = y /\ f = z /\ v < w)
          => a < x \/ (a = x /\ b < y) \/ (a = x /\ b = y /\ c < z) \/ (a = x /\ b = y /\ c = z /\ u < w)
    OBVIOUS
  <2> DEFINE a == KindRank(p[1])
             d == KindRank(q[1])
             x == KindRank(r[1])
             u == FieldRank(p[4])
             v == FieldRank(q[4])
             w == FieldRank(r[4])
  <2>2. /\ a \in Nat /\ d \in Nat /\ x \in Nat /\ u \in Nat /\ v \in Nat /\ w \in Nat
        /\ p[2] \in Nat /\ p[3] \in Nat /\ q[2] \in Nat /\ q[3] \in Nat /\ r[2] \in Nat /\ r[3] \in Nat
    BY <1>2
  <2> QED  BY <1>4, <2>1, <2>2 DEF Sooner
<1>5. ASSUME NEW p \in Paths, NEW q \in Paths, p # q
      PROVE  Sooner(p, q) \/ Sooner(q, p)
  <2>1. ~ (KindRank(p[1]) = KindRank(q[1]) /\ p[2] = q[2] /\ p[3] = q[3] /\ FieldRank(p[4]) = FieldRank(q[4]))
    BY <1>2, <1>5, KindRanks, FieldRanks
  <2> QED  BY <1>2, <2>1 DEF Sooner
<1> QED  BY <1>1, <1>3, <1>4, <1>5 DEF StrictTotalOrder

\* Sorted lists every path.
LEMMA SortedFacts ==
  ASSUME NEW S, S \subseteq Paths, IsFiniteSet(S)
  PROVE  /\ Sorted(S) \in Seq(S)
         /\ \A p \in S : \E i \in 1 .. Len(Sorted(S)) : Sorted(S)[i] = p
<1> DEFINE n == Cardinality(S)
           r == Rank(S, PathOrder)
           s == Sorted(S)
           place == [p \in S |-> Cardinality({q \in S : SortsBefore(q, p)})]
<1>1. n \in Nat
  BY FS_CardinalityType
<1>2. /\ r \in [S -> 0 .. n - 1]
      /\ \A p, q \in S : <<p, q>> \in PathOrder => r[p] < r[q]
      /\ \A i \in 0 .. n - 1 : \E p \in S : r[p] = i
  BY PathsInOrder, RankFacts
<1>3. \A p \in S : r[p] = place[p]
  <2> TAKE p \in S
  <2>1. {q \in S : <<q, p>> \in PathOrder} = {q \in S : SortsBefore(q, p)}
    BY DEF PathOrder
  <2> QED  BY <2>1 DEF Rank
<1>4. s = [i \in 1 .. n |-> CHOOSE p \in S : place[p] = i - 1]
  BY DEF Sorted
<1>5. s = [i \in 1 .. n |-> s[i]]
  BY <1>4
<1> HIDE DEF n, r, s, place
<1>6. ASSUME NEW i \in 1 .. n PROVE s[i] \in S /\ r[s[i]] = i - 1
  <2>1. \E p \in S : place[p] = i - 1
    BY <1>1, <1>2, <1>3
  <2>2. s[i] = CHOOSE p \in S : place[p] = i - 1
    BY <1>4
  <2> QED  BY <1>3, <2>1, <2>2
<1>7. s \in Seq(S) /\ Len(s) = n
  BY <1>1, <1>5, <1>6
<1>8. ASSUME NEW p \in S PROVE \E i \in 1 .. n : s[i] = p
  <2> DEFINE i == r[p] + 1
  <2>1. r[p] \in 0 .. n - 1
    BY <1>2
  <2>2. i \in 1 .. n /\ i - 1 = r[p]
    BY <1>1, <2>1
  <2>3. s[i] \in S /\ r[s[i]] = r[p]
    BY <1>6, <2>2
  <2>4. \A a, b \in S : <<a, b>> \in PathOrder => r[a] # r[b]
    BY <1>1, <1>2
  <2>5. s[i] = p
    BY <2>3, <2>4, PathsInOrder DEF StrictTotalOrder
  <2> QED  BY <2>2, <2>5
<1> QED  BY <1>7, <1>8 DEF s, n

Patterns(S) == {Pattern(p, keep) : p \in S, keep \in SUBSET (1 .. 4)}
Found(S) == [all : SUBSET Patterns(S), latest : SUBSET Patterns(S)]

LEMMA LookFacts ==
  ASSUME NEW S, NEW s \in Seq(S), NEW found \in Found(S), NEW i \in 1 .. Len(s)
  PROVE  /\ Look(s, found, i) \in Found(S)
         /\ found.all \subseteq Look(s, found, i).all
         /\ found.latest \subseteq found.all => /\ Look(s, found, i).latest \subseteq Look(s, found, i).all
                                                /\ MatchesAny(Look(s, found, i).all, s[i])
         /\ (\A p \in found.all : 1 \in p.keep) => \A p \in Look(s, found, i).all : 1 \in p.keep
<1> DEFINE next == Look(s, found, i)
<1>1. s[i] \in S /\ Exactly(s[i]) \in Patterns(S)
  BY DEF Exactly, Patterns
<1>2. found = [all |-> found.all, latest |-> found.latest]
      /\ found.all \in SUBSET Patterns(S) /\ found.latest \in SUBSET Patterns(S)
  BY DEF Found
<1>3. CASE MatchesAny(found.latest, s[i])
  <2>1. next = found
    BY <1>3 DEF Look
  <2> QED  BY <1>2, <1>3, <2>1 DEF MatchesAny
<1>4. CASE ~ MatchesAny(found.latest, s[i]) /\ CanJoin(s, i)
  <2> DEFINE j == Shared(s[i], s[i + 1])
             same == {k \in 1 .. 4 : s[i][k] = s[i + 1][k]}
  <2>1. next = [all |-> found.all \cup {j}, latest |-> {j}]
    BY <1>4 DEF Look, Join
  <2>2. j = Pattern(s[i], same)
    BY DEF Shared
  <2>3. same \in SUBSET (1 .. 4)
    OBVIOUS
  <2>4. j \in Patterns(S) /\ j.keep = same /\ j.path = s[i]
    <3> HIDE DEF j, same
    <3> QED  BY <1>1, <2>2, <2>3 DEF Pattern, Patterns
  <2>5. Matches(j, s[i])
    BY <2>4 DEF Matches
  <2>6. 1 \in j.keep
    <3>1. s[i + 1][1] = s[i][1]
      BY <1>4 DEF CanJoin, SameKind
    <3> QED  BY <2>4, <3>1
  <2> HIDE DEF j, same, next
  <2>7. next.all = found.all \cup {j} /\ next.latest = {j}
    BY <2>1
  <2>8. next \in Found(S)
    BY <1>2, <2>1, <2>4 DEF Found
  <2> QED  BY <2>5, <2>6, <2>7, <2>8 DEF MatchesAny, next
<1>5. CASE ~ MatchesAny(found.latest, s[i]) /\ ~ CanJoin(s, i)
  <2> DEFINE e == Exactly(s[i])
  <2>1. next = [found EXCEPT !.all = found.all \cup {e}]
    BY <1>5 DEF Look, StandAlone
  <2>2. next = [all |-> found.all \cup {e}, latest |-> found.latest]
    BY <1>2, <2>1
  <2>3. Matches(e, s[i]) /\ 1 \in e.keep
    BY DEF Exactly, Pattern, Matches
  <2>4. e \in Patterns(S)
    BY <1>1
  <2> HIDE DEF e, next
  <2>5. next.all = found.all \cup {e} /\ next.latest = found.latest
    BY <2>2
  <2>6. next \in Found(S)
    BY <1>2, <2>2, <2>4 DEF Found
  <2> QED  BY <2>3, <2>5, <2>6 DEF MatchesAny, next
<1> QED  BY <1>3, <1>4, <1>5

\* What compute_common_regex has found after each of the sorted paths.
LEMMA PatternsByTurns ==
  ASSUME NEW S, NEW s \in Seq(S)
  PROVE  \E g \in [0 .. Len(s) -> Found(S)] :
           /\ g[0] = NoPattern
           /\ \A i \in 1 .. Len(s) : g[i] = Look(s, g[i - 1], i)
           /\ FoldLeft(LAMBDA found, i : Look(s, found, i), NoPattern, [i \in 1 .. Len(s) |-> i])
                = g[Len(s)]
<1> DEFINE n == Len(s)
           I == 1 .. n
           F == Found(S)
           index == [i \in I |-> i]
           Solves(iter) == iter = [t \in SUBSET I |->
                             IF t = {} THEN NoPattern ELSE Look(s, iter[t \ {Max(t)}], index[Max(t)])]
           fold == CHOOSE iter : Solves(iter)
           step == [x \in F \X (Nat \ {0}) |-> IF x[2] \in I THEN Look(s, x[1], x[2]) ELSE NoPattern]
           g == [i \in 0 .. n |-> fold[1 .. i]]
<1>1. n \in Nat
  OBVIOUS
<1>2. FoldLeft(LAMBDA found, i : Look(s, found, i), NoPattern, index) = fold[I]
  <2>1. DOMAIN index = I
    OBVIOUS
  <2> HIDE DEF I
  <2> QED  BY <2>1 DEF FoldLeft, MapThenFoldSet
<1>3. NoPattern \in F
  BY DEF NoPattern, Found
<1>4. \A found \in F, i \in I : Look(s, found, i) \in F
  BY LookFacts
<1>5. step \in [F \X (Nat \ {0}) -> F]
  BY <1>3, <1>4
<1>6. \A found \in F, i \in I : step[<<found, i>>] = Look(s, found, i)
  BY <1>1
<1>7. \A t \in SUBSET I : t # {} => Max(t) \in I
  BY <1>1, GreatestIndex
<1>8. \A t \in SUBSET I : t # {} => index[Max(t)] = Max(t) /\ t \ {Max(t)} \in SUBSET I
  BY <1>7
<1> HIDE DEF n, I, F, index, step, fold, Solves
<1>9. PICK h : FoldRecursion(h, F, NoPattern, step, n)
  BY <1>1, <1>3, <1>5, FoldExists
<1>9a. /\ h \in [SUBSET I -> F]
       /\ \A t \in SUBSET I : h[t] = IF t = {} THEN NoPattern ELSE step[<<h[t \ {Max(t)}], Max(t)>>]
  BY <1>9 DEF FoldRecursion, I
<1>10. Solves(fold)
  <2>1. ASSUME NEW t \in SUBSET I
        PROVE  h[t] = IF t = {} THEN NoPattern ELSE Look(s, h[t \ {Max(t)}], index[Max(t)])
    <3>1. t # {} => h[t \ {Max(t)}] \in F
      BY <1>8, <1>9a
    <3>2. t # {} => step[<<h[t \ {Max(t)}], Max(t)>>] = Look(s, h[t \ {Max(t)}], index[Max(t)])
      <4> SUFFICES ASSUME t # {}
                   PROVE  step[<<h[t \ {Max(t)}], Max(t)>>] = Look(s, h[t \ {Max(t)}], index[Max(t)])
        OBVIOUS
      <4>1. h[t \ {Max(t)}] \in F /\ Max(t) \in I /\ index[Max(t)] = Max(t)
        BY <1>7, <1>8, <3>1
      <4> QED  BY <1>6, <4>1
    <3>3. h[t] = IF t = {} THEN NoPattern ELSE step[<<h[t \ {Max(t)}], Max(t)>>]
      BY <1>9a
    <3>4. CASE t = {}
      BY <3>3, <3>4
    <3>5. CASE t # {}
      BY <3>2, <3>3, <3>5
    <3> QED  BY <3>4, <3>5
  <2>2. Solves(h)
    BY <1>9a, <2>1 DEF Solves
  <2>3. \E iter : Solves(iter)
    BY <2>2
  <2> HIDE DEF Solves
  <2> QED  BY <2>3 DEF fold
<1>11. \A t \in SUBSET I :
         fold[t] = IF t = {} THEN NoPattern ELSE Look(s, fold[t \ {Max(t)}], index[Max(t)])
  BY <1>10 DEF Solves
<1>12. g[0] = NoPattern
  <2>1. 1 .. 0 = {} /\ {} \in SUBSET I /\ 0 \in 0 .. n
    BY <1>1
  <2>2. fold[{}] = NoPattern
    BY <1>11
  <2> QED  BY <2>1, <2>2
<1>13. ASSUME NEW i \in I PROVE g[i] = Look(s, g[i - 1], i)
  <2> DEFINE t == 1 .. i
  <2>0. i \in 1 .. n /\ i \in Nat /\ i \in 0 .. n /\ i - 1 \in 0 .. n
    BY <1>1 DEF I
  <2>1. t \in SUBSET I /\ t # {} /\ i \in t /\ t \ {i} = 1 .. i - 1
    <3>1. t \ {i} = 1 .. i - 1
      BY <2>0
    <3>2. \A x \in t : x \in 1 .. n
      BY <1>1, <2>0
    <3>3. i \in t
      BY <2>0
    <3> HIDE DEF t
    <3> QED  BY <3>1, <3>2, <3>3 DEF I
  <2>2. Max(t) = i
    <3>1. \A x \in t : i >= x /\ (x >= i => x = i)
      BY <2>0
    <3> HIDE DEF t
    <3> QED  BY <2>1, <3>1 DEF Max
  <2>3. fold[t] = Look(s, fold[t \ {Max(t)}], index[Max(t)]) /\ index[Max(t)] = i
    BY <1>8, <1>11, <2>1, <2>2
  <2>4. g[i] = fold[t] /\ g[i - 1] = fold[1 .. i - 1]
    BY <2>0
  <2> HIDE DEF t, g
  <2> QED  BY <2>1, <2>2, <2>3, <2>4
<1>14. g[n] = fold[I]
  BY <1>1 DEF I
<1>15. g \in [0 .. n -> F]
  <2> DEFINE P == {i \in Nat : i \in 0 .. n => g[i] \in F}
  <2>1. 0 \in P
    BY <1>3, <1>12
  <2>2. ASSUME NEW i \in Nat, i \in P PROVE i + 1 \in P
    <3>1. CASE i + 1 \in 0 .. n
      <4>1. i + 1 \in I /\ i \in 0 .. n /\ (i + 1) - 1 = i
        BY <1>1, <3>1 DEF I
      <4>2. g[i] \in F /\ g[i + 1] = Look(s, g[i], i + 1)
        BY <1>13, <2>2, <4>1
      <4>3. g[i + 1] \in F
        BY <1>4, <4>1, <4>2
      <4> HIDE DEF g
      <4> QED  BY <4>3
    <3> HIDE DEF g
    <3> QED  BY <3>1
  <2> HIDE DEF P
  <2>3. \A i \in Nat : i \in P
    BY <2>1, <2>2, SetInduction
  <2>4. \A i \in 0 .. n : g[i] \in F
    <3> HIDE DEF g
    <3> QED  BY <1>1, <2>3 DEF P
  <2>5. g = [i \in 0 .. n |-> g[i]]
    OBVIOUS
  <2> HIDE DEF g
  <2> QED  BY <2>4, <2>5
<1> HIDE DEF g
<1>16. FoldLeft(LAMBDA found, i : Look(s, found, i), NoPattern, index) = g[n]
  BY <1>2, <1>14
<1> QED  BY <1>12, <1>13, <1>15, <1>16 DEF I, F, n, index

\* What compute_common_regex returns matches every path it was given, whichever
\* were joined, and no pattern of it reaches into another kind of resource than
\* that of a path it was given.
THEOREM EveryPathIsLearned ==
  ASSUME NEW S, S \subseteq Paths, IsFiniteSet(S)
  PROVE  /\ \A p \in S : MatchesAny(CommonPatterns(S), p)
         /\ \A pattern \in CommonPatterns(S) : pattern.path \in S /\ 1 \in pattern.keep
<1> DEFINE s == Sorted(S)
           n == Len(s)
<1>1. s \in Seq(S) /\ n \in Nat /\ \A p \in S : \E i \in 1 .. n : s[i] = p
  BY SortedFacts
<1> HIDE DEF s
<1>2. PICK g \in [0 .. n -> Found(S)] :
        /\ g[0] = NoPattern
        /\ \A i \in 1 .. n : g[i] = Look(s, g[i - 1], i)
        /\ FoldLeft(LAMBDA found, i : Look(s, found, i), NoPattern, [i \in 1 .. n |-> i]) = g[n]
  BY <1>1, PatternsByTurns
<1>3. CommonPatterns(S) = g[n].all
  BY <1>2 DEF CommonPatterns, s
<1> HIDE DEF n
<1>2a. g[0] = NoPattern /\ \A i \in 1 .. n : g[i] = Look(s, g[i - 1], i)
  BY <1>2, Zenon
<1> DEFINE Good(i) == /\ g[i].latest \subseteq g[i].all
                      /\ \A pattern \in g[i].all : 1 \in pattern.keep
                      /\ \A j \in 1 .. i : MatchesAny(g[i].all, s[j])
           P == {i \in Nat : i \in 0 .. n => Good(i)}
<1>4. 0 \in P
  <2>1. g[0].latest = {} /\ g[0].all = {}
    BY <1>2a DEF NoPattern
  <2>2. 1 .. 0 = {}
    OBVIOUS
  <2> QED  BY <2>1, <2>2
<1>5. ASSUME NEW i \in Nat, i \in P PROVE i + 1 \in P
  <2>1. CASE i + 1 \in 0 .. n
    <3> DEFINE k == i + 1
    <3>1. k \in 1 .. n /\ k - 1 = i /\ i \in 0 .. n /\ 1 .. k = 1 .. i \cup {k}
      BY <1>1, <2>1
    <3> HIDE DEF k
    <3>2. g[k] = Look(s, g[i], k) /\ g[i] \in Found(S) /\ Good(i)
      BY <1>2a, <1>5, <3>1
    <3>2a. s \in Seq(S) /\ k \in 1 .. Len(s)
      BY <1>1, <3>1 DEF n
    <3>3. /\ g[i].all \subseteq g[k].all
          /\ g[k].latest \subseteq g[k].all /\ MatchesAny(g[k].all, s[k])
          /\ \A pattern \in g[k].all : 1 \in pattern.keep
      BY <3>2, <3>2a, LookFacts
    <3>4. \A j \in 1 .. i : MatchesAny(g[k].all, s[j])
      BY <3>2, <3>3 DEF MatchesAny
    <3>5. Good(k)
      BY <3>1, <3>3, <3>4
    <3> HIDE DEF Good
    <3> QED  BY <3>5 DEF k
  <2> HIDE DEF Good
  <2> QED  BY <2>1
<1> HIDE DEF P
<1>6. n \in P
  BY <1>1, <1>4, <1>5, SetInduction
<1>7. Good(n)
  <2>1. n \in 0 .. n
    BY <1>1
  <2> HIDE DEF Good
  <2> QED  BY <1>6, <2>1 DEF P
<1>8. g[n].all \subseteq Patterns(S)
  <2>1. g[n] \in Found(S)
    BY <1>1
  <2> QED  BY <2>1 DEF Found
<1>9. \A pattern \in Patterns(S) : pattern.path \in S
  BY DEF Patterns, Pattern
<1> QED  BY <1>1, <1>3, <1>7, <1>8, <1>9

-----------------------------------------------------------------------------
(* What a comparison can report *)

LEMMA CollectedFacts ==
  ASSUME NEW objects, IsNamespace(objects)
  PROVE  /\ Collect(objects).collected
         /\ IsFiniteSet(Collect(objects).objects)
         /\ \A o \in Collect(objects).objects :
              /\ Key(o) \in ToSet(Kinds) \X Nat \X Nat
              /\ DOMAIN o.data \subseteq ToSet(Fields)
              /\ o.kind # "secret_number"
<1> DEFINE kept == {x \in objects : ~(x.kind = "pod" /\ x.custom)}
           grouped == {GroupedByOwner(o) : o \in kept}
<1>1. Collect(objects) = [collected |-> TRUE, objects |-> grouped]
  BY DEF Collect
<1>2. IsFiniteSet(grouped)
  <2>1. IsFiniteSet(kept)
    BY FS_Subset DEF IsNamespace
  <2> DEFINE f == [o \in kept |-> GroupedByOwner(o)]
  <2>2. f \in Surjection(kept, grouped)
    BY DEF Surjection
  <2> HIDE DEF kept, grouped, f
  <2> QED  BY <2>1, <2>2, FS_Surjection
<1>3. ASSUME NEW o \in objects
      PROVE  /\ Key(GroupedByOwner(o)) \in ToSet(Kinds) \X Nat \X Nat
             /\ DOMAIN GroupedByOwner(o).data \subseteq ToSet(Fields)
             /\ GroupedByOwner(o).kind # "secret_number"
  <2>1. IsObject(o)
    BY DEF IsNamespace
  <2>2. /\ o.kind \in {"config_map", "pod", "pvc", "secret"} /\ o.base \in Nat /\ o.random \in Nat
        /\ DOMAIN o.data \subseteq ToSet(Fields)
    BY <2>1 DEF IsObject
  <2>3. {"config_map", "pod", "pvc", "secret", "deployment_pods", "daemonset_pods"} \subseteq ToSet(Kinds)
    <3>1. /\ DOMAIN Kinds = 1 .. 7
          /\ Kinds[1] = "config_map" /\ Kinds[2] = "daemonset_pods" /\ Kinds[3] = "deployment_pods"
          /\ Kinds[4] = "pod" /\ Kinds[5] = "pvc" /\ Kinds[6] = "secret"
      BY DEF Kinds
    <3> HIDE DEF Kinds
    <3> QED  BY <3>1 DEF ToSet
  <2> DEFINE q == GroupedByOwner(o)
  <2>4. /\ q.kind \in {"config_map", "pod", "pvc", "secret", "deployment_pods", "daemonset_pods"}
        /\ q.base \in Nat /\ q.random \in Nat /\ q.data = o.data
    <3>1. \/ q = o
          \/ q = [o EXCEPT !.kind = "deployment_pods", !.random = 0]
          \/ q = [o EXCEPT !.kind = "daemonset_pods", !.random = 0]
      BY DEF GroupedByOwner
    <3> HIDE DEF q
    <3>2. o = [kind |-> o.kind, base |-> o.base, random |-> o.random, owner |-> o.owner,
               data |-> o.data, custom |-> o.custom]
      BY <2>1 DEF IsObject
    <3> DEFINE Known == {"config_map", "pod", "pvc", "secret", "deployment_pods", "daemonset_pods"}
    <3>3. o.kind \in Known /\ "deployment_pods" \in Known /\ "daemonset_pods" \in Known /\ 0 \in Nat
      BY <2>2
    <3> HIDE DEF Known
    <3>4. q.kind \in Known /\ q.base \in Nat /\ q.random \in Nat /\ q.data = o.data
      BY <2>2, <3>1, <3>2, <3>3
    <3> QED  BY <3>4 DEF Known
  <2> HIDE DEF q
  <2>5. /\ Key(q) \in ToSet(Kinds) \X Nat \X Nat /\ DOMAIN q.data \subseteq ToSet(Fields)
        /\ q.kind # "secret_number"
    BY <2>2, <2>3, <2>4 DEF Key
  <2> QED  BY <2>5 DEF q
<1> QED  BY <1>1, <1>2, <1>3

LEMMA KnownParts ==
  /\ "whole" \in ToSet(Fields) /\ "secret_number" \in ToSet(Kinds)
  /\ IsFiniteSet(ToSet(Fields))
<1>1. DOMAIN Fields = 1 .. 6 /\ Fields[1] = "whole" /\ Fields \in Seq(ToSet(Fields))
  BY DEF Fields, ToSet
<1>2. DOMAIN Kinds = 1 .. 7 /\ Kinds[7] = "secret_number"
  BY DEF Kinds
<1>3. Fields \in Surjection(1 .. 6, ToSet(Fields))
  <2>1. Fields \in [1 .. 6 -> ToSet(Fields)]
    BY <1>1 DEF Fields, ToSet
  <2> QED  BY <1>1, <2>1 DEF Surjection, ToSet
<1>4. IsFiniteSet(1 .. 6)
  <2>1. 1 \in Int /\ 6 \in Int
    OBVIOUS
  <2> QED  BY <2>1, FS_Interval, Zenon
<1>5. IsFiniteSet(ToSet(Fields))
  BY <1>3, <1>4, FS_Surjection
<1> QED  BY <1>1, <1>2, <1>5 DEF ToSet

\* A difference is about a field of an object of one side, or about all of it.
LEMMA DifferencesAreAbout ==
  ASSUME NEW prev, NEW curr, NEW p \in Differences(prev, curr)
  PROVE  \E o \in prev.objects \cup curr.objects :
           \E f \in {"whole"} \cup DOMAIN o.data : p = Append(Key(o), f)
<1> DEFINE P == Compared(prev)
           C == Compared(curr)
           About(o) == {Append(Key(o), f) : f \in {"whole"} \cup DOMAIN o.data}
<1>1. P \subseteq prev.objects /\ C \subseteq curr.objects
  BY DEF Compared
<1>2. ASSUME NEW o, NEW B PROVE /\ Lacking(o, Twins(o, B)) \subseteq {"whole"} \cup DOMAIN o.data
                               /\ Changed(o, Twins(o, B)) \subseteq {"whole"} \cup DOMAIN o.data
  BY DEF Lacking, Changed
<1>3. ASSUME NEW A, NEW B, p \in Missing(A, B) PROVE \E o \in A : p \in About(o)
  BY <1>2, <1>3 DEF Missing
<1>4. p \in ChangedValues(prev, curr) => \E o \in P : p \in About(o)
  BY <1>2 DEF ChangedValues
<1>5. p \in Missing(P, C) \/ p \in Missing(C, P) \/ p \in ChangedValues(prev, curr)
  BY DEF Differences, OneSided
<1> HIDE DEF P, C
<1>6. \E o \in P \cup C : p \in About(o)
  BY <1>3, <1>4, <1>5
<1> QED  BY <1>1, <1>6

LEMMA AppendFourth ==
  ASSUME NEW x, NEW y, NEW z, NEW f
  PROVE  Append(<<x, y, z>>, f) = <<x, y, z, f>>
<1> DEFINE S == {x, y, z, f}
           s == Append(<<x, y, z>>, f)
<1>1. <<x, y, z>> \in Seq(S) /\ f \in S /\ Len(<<x, y, z>>) = 3
  OBVIOUS
<1>2. s \in Seq(S) /\ Len(s) = 4 /\ s[1] = x /\ s[2] = y /\ s[3] = z /\ s[4] = f
  BY <1>1
<1>3. <<x, y, z, f>> \in Seq(S) /\ Len(<<x, y, z, f>>) = 4
  OBVIOUS
<1> HIDE DEF s, S
<1>4. s = <<x, y, z, f>>
  BY <1>2, <1>3
<1> QED  BY <1>4 DEF s

\* The differences of two states are finitely many, and paths of the form that the
\* patterns are made for.
LEMMA FiniteDifferences ==
  ASSUME NEW a, NEW b, IsNamespace(a), IsNamespace(b)
  PROVE  /\ IsFiniteSet(Differences(Collect(b), Collect(a)))
         /\ Differences(Collect(b), Collect(a)) \subseteq Paths
<1> DEFINE O == Collect(a).objects \cup Collect(b).objects
           F == ToSet(Fields)
           f == [x \in O \X F |-> Append(Key(x[1]), x[2])]
           All == {Append(Key(x[1]), x[2]) : x \in O \X F}
           D == Differences(Collect(b), Collect(a))
<1>1. IsFiniteSet(O) /\ \A o \in O : /\ Key(o) \in ToSet(Kinds) \X Nat \X Nat
                                     /\ DOMAIN o.data \subseteq F
  <2>1. IsFiniteSet(Collect(a).objects) /\ IsFiniteSet(Collect(b).objects)
    BY CollectedFacts
  <2>2. IsFiniteSet(O)
    BY <2>1, FS_Union
  <2> QED  BY <2>2, CollectedFacts
<1>2. D \subseteq All
  <2> SUFFICES ASSUME NEW p \in D PROVE p \in All
    OBVIOUS
  <2>1. PICK o \in O : \E g \in {"whole"} \cup DOMAIN o.data : p = Append(Key(o), g)
    <3>1. \E o \in Collect(b).objects \cup Collect(a).objects :
            \E g \in {"whole"} \cup DOMAIN o.data : p = Append(Key(o), g)
      BY DifferencesAreAbout
    <3> QED  BY <3>1
  <2>1a. PICK g \in {"whole"} \cup DOMAIN o.data : p = Append(Key(o), g)
    BY <2>1
  <2>2. g \in F
    BY <1>1, KnownParts
  <2>3. <<o, g>> \in O \X F /\ <<o, g>>[1] = o /\ <<o, g>>[2] = g
    BY <2>2
  <2> HIDE DEF O, F
  <2> QED  BY <2>1a, <2>3
<1>3. IsFiniteSet(All)
  <2>1. IsFiniteSet(O \X F)
    BY <1>1, KnownParts, FS_Product
  <2>2. f \in Surjection(O \X F, All)
    <3> HIDE DEF O, F
    <3> QED  BY DEF Surjection
  <2> HIDE DEF O, F, f, All
  <2> QED  BY <2>1, <2>2, FS_Surjection
<1>4. All \subseteq Paths
  <2> SUFFICES ASSUME NEW o \in O, NEW g \in F PROVE Append(Key(o), g) \in Paths
    OBVIOUS
  <2>1. o.kind \in ToSet(Kinds) /\ o.base \in Nat /\ o.random \in Nat
    BY <1>1 DEF Key
  <2>2. Append(Key(o), g) = <<o.kind, o.base, o.random, g>>
    BY AppendFourth DEF Key
  <2> QED  BY <2>1, <2>2 DEF Paths
<1> HIDE DEF O, F, f, All, D
<1>5. IsFiniteSet(D) /\ D \subseteq Paths
  BY <1>2, <1>3, <1>4, FS_Subset
<1> QED  BY <1>5 DEF D

\* So are those that a comparison reports.
LEMMA FinitePaths ==
  ASSUME NEW a, NEW b, IsNamespace(a), IsNamespace(b), NEW patterns
  PROVE  /\ IsFiniteSet(SystemDiff(Collect(a), Collect(b), patterns))
         /\ SystemDiff(Collect(a), Collect(b), patterns) \subseteq Paths
<1> DEFINE D == Differences(Collect(b), Collect(a))
           number == <<"secret_number", 0, 0, "whole">>
           diff == SystemDiff(Collect(a), Collect(b), patterns)
<1>1. IsFiniteSet(D) /\ D \subseteq Paths
  BY FiniteDifferences
<1>2. IsFiniteSet({number}) /\ number \in Paths
  BY KnownParts, FS_Singleton DEF Paths
<1>3. diff \subseteq D \/ diff = {number}
  BY CollectedFacts DEF SystemDiff
<1> HIDE DEF D, number, diff
<1>4. IsFiniteSet(diff) /\ diff \subseteq Paths
  BY <1>1, <1>2, <1>3, FS_Subset
<1> QED  BY <1>4 DEF diff

-----------------------------------------------------------------------------
(* What the check has learned *)

\* The paths that are learned from a step when nothing was learned before.
Apart(r, s) == SystemDiff(Collected(r), Collect(StateOf(s)), IgnoreFields)
                 \cap OneSided(Collect(StateOf(s)), Collected(r))
Untaught(r, s) == IF s \in Silent \/ r.stderr THEN {} ELSE Apart(r, s)
Noise == UNION {Untaught(r, s) : r \in SeedResults, s \in Originals(SeedDigest)}

\* The patterns are those of the seed's noise, and what is compared has a result.
LearnInv ==
  /\ phase # "run" => ignored = IgnoreFields \cup CommonPatterns(Noise)
  /\ \A w \in Workers : proc[w] = "judge" => input[w] \in Recorded
  /\ \A s \in judged : InputOf[s] \in Recorded

LEMMA InitLearnInv == Init => LearnInv
  BY DEF Init, LearnInv

LEMMA SameNoise ==
  ASSUME UNCHANGED difftest
  PROVE  Noise' = Noise /\ Recorded' = Recorded
<1>1. \A r, s : Untaught(r, s)' = Untaught(r, s)
  BY DEF Untaught, Apart, Collected
<1>2. SeedResults' = SeedResults
  BY DEF SeedResults
<1> QED  BY <1>1, <1>2 DEF Noise, Recorded

LEMMA StartLearnInv ==
  ASSUME VerdictInv, StartCheck
  PROVE  LearnInv'
<1>1. /\ phase = "run" /\ UNCHANGED <<difftest, judged>> /\ proc' = [w \in Workers |-> "get"]
      /\ ignored' = ignored \cup CommonPatterns(SeedPaths)
  BY DEF StartCheck
<1>2. ignored = IgnoreFields /\ judged = {}
  BY <1>1 DEF VerdictInv
<1>3. \A r, s : Listed(r, s) = Untaught(r, s)
  BY <1>2 DEF Listed, StepDiff, Untaught, Apart, Silent
<1>4. SeedPaths = Noise
  BY <1>3 DEF SeedPaths, Noise
<1>5. ignored' = IgnoreFields \cup CommonPatterns(Noise')
  BY <1>1, <1>2, <1>4, SameNoise
<1> QED  BY <1>1, <1>2, <1>5 DEF LearnInv

LEMMA RestLearnInv ==
  ASSUME LearnInv, phase # "run", UNCHANGED <<difftest, ignored>>,
         \A w \in Workers : proc'[w] = "judge" => input'[w] \in Recorded,
         \A s \in judged' : InputOf[s] \in Recorded
  PROVE  LearnInv'
<1>1. Noise' = Noise /\ Recorded' = Recorded
  BY SameNoise
<1>2. ignored' = IgnoreFields \cup CommonPatterns(Noise')
  BY <1>1 DEF LearnInv
<1> QED  BY <1>1, <1>2 DEF LearnInv

LEMMA NextLearnInv ==
  ASSUME PoolInv, PoolInv', CheckInv, VerdictInv, VerdictInv', LearnInv, [Next]_vars
  PROVE  LearnInv'
<1>1. CASE phase' = "run"
  BY <1>1 DEF LearnInv, PoolInv, PlaceInv, VerdictInv
<1>2. CASE StartCheck
  BY <1>2, StartLearnInv
<1>3. CASE phase = "check" /\ ~StartCheck
  <2>1. ASSUME NEW w \in Workers, Take(w) PROVE LearnInv'
    <3>1. PICK item \in queue :
            /\ input' = [input EXCEPT ![w] = difftest[item].input]
            /\ proc' = [proc EXCEPT ![w] = "judge"]
      BY <1>3, <2>1, TakeCases
    <3>2. UNCHANGED <<difftest, ignored, judged>>
      BY <2>1, TakeCases
    <3>3. difftest[item].input \in Recorded
      BY <1>3 DEF PoolInv, Types, Recorded
    <3>4. \A v \in Workers : proc'[v] = "judge" => input'[v] \in Recorded
      BY <3>1, <3>3 DEF LearnInv, PoolInv, Types
    <3> QED  BY <1>3, <3>2, <3>4, RestLearnInv DEF LearnInv
  <2>2. ASSUME NEW w \in Workers, Judge(w) PROVE LearnInv'
    <3>1. UNCHANGED <<proc, input, difftest, ignored>> /\ proc[w] = "judge"
      BY <2>2 DEF Judge, At, runVars
    <3>2. PICK s \in todo[w] : judged' = judged \cup {s}
      BY <2>2 DEF Judge
    <3>3. InputOf[s] = input[w]
      BY <3>1 DEF CheckInv, JudgeInv, ToCompare, Originals
    <3>4. \A t \in judged' : InputOf[t] \in Recorded
      BY <3>1, <3>2, <3>3 DEF LearnInv
    <3> QED  BY <1>3, <3>1, <3>4, RestLearnInv DEF LearnInv
  <2>3. ASSUME NEW w \in Workers, Exit(w) \/ WriteReport(w) \/ Die(w) PROVE LearnInv'
    <3>1. /\ UNCHANGED <<difftest, ignored, judged>>
          /\ \A v \in Workers : proc'[v] = "judge" => proc[v] = "judge" /\ input'[v] = input[v]
      BY <2>3 DEF Exit, WriteReport, Die, At, Go, PoolInv, Types, runVars, checkVars
    <3> QED  BY <1>3, <3>1, RestLearnInv DEF LearnInv
  <2>4. CASE Finish \/ UNCHANGED vars
    <3>1. UNCHANGED <<difftest, ignored, judged, proc, input>>
      BY <2>4 DEF Finish, vars, runVars, checkVars
    <3> QED  BY <1>3, <3>1, RestLearnInv DEF LearnInv
  <2>5. ASSUME NEW w \in Workers, Boot(w) \/ RunInput(w) \/ Record(w) \/ Reboot(w) \/ NextInput(w)
        PROVE  FALSE
    BY <1>3, <2>5, RunPhase DEF Boot, RunInput, Record, Reboot, NextInput, At, PoolInv
  <2> QED  BY <1>3, <2>1, <2>2, <2>3, <2>4, <2>5 DEF Next, Worker, Terminated
<1>4. CASE phase = "done"
  <2>1. UNCHANGED <<difftest, ignored, judged, proc, input>>
    <3>1. ASSUME NEW w \in Workers, Worker(w) \/ Die(w)
          PROVE  UNCHANGED <<difftest, ignored, judged, proc, input>>
      BY <1>4, <3>1, TakeCases, RunPhase, CheckPhase
      DEF Worker, Boot, Exit, RunInput, Record, Reboot, NextInput, Judge, WriteReport, Die, At,
          PoolInv, PlaceInv
    <3> QED  BY <1>4, <3>1 DEF Next, StartCheck, Finish, Terminated, vars, runVars, checkVars
  <2> QED  BY <1>4, <2>1, RestLearnInv DEF LearnInv
<1>5. phase = "run" /\ ~StartCheck => phase' = "run"
  BY TakeCases, RecordFacts
  DEF Next, Worker, Boot, Exit, RunInput, Reboot, NextInput, Judge, WriteReport, Die, Finish,
      Terminated, vars
<1> QED  BY <1>1, <1>2, <1>3, <1>4, <1>5 DEF PoolInv, Types, StartCheck

\* The seed's CR has at most one result, so its noise is finite.
LEMMA NoiseFacts ==
  ASSUME PoolInv, EveryInputOnce
  PROVE  IsFiniteSet(Noise) /\ Noise \subseteq Paths
<1> DEFINE O == Originals(SeedDigest)
<1>1. ASSUME NEW r \in SeedResults, NEW s \in O
      PROVE  IsFiniteSet(Untaught(r, s)) /\ Untaught(r, s) \subseteq Paths
  <2>1. r.input \in Inputs /\ r.operator \in BOOLEAN
    BY DEF SeedResults, PoolInv, Types, Result
  <2>2. IsNamespace(FreshState(r.input, r.operator)) /\ IsNamespace(StateOf(s))
    BY <2>1, StatesAssumption DEF Originals, Grouped
  <2>3. CASE s \in Silent \/ r.stderr
    <3>1. Untaught(r, s) = {}
      BY <2>3 DEF Untaught
    <3> QED  BY <3>1, FS_EmptySet
  <2>4. CASE ~(s \in Silent \/ r.stderr)
    <3> DEFINE diff == SystemDiff(Collect(FreshState(r.input, r.operator)), Collect(StateOf(s)),
                                  IgnoreFields)
    <3>1. Untaught(r, s) \subseteq diff
      BY <2>4 DEF Untaught, Apart, Collected
    <3>2. IsFiniteSet(diff) /\ diff \subseteq Paths
      BY <2>2, FinitePaths
    <3> HIDE DEF diff
    <3> QED  BY <3>1, <3>2, FS_Subset
  <2> QED  BY <2>3, <2>4
<1>2. ASSUME NEW q \in SeedResults, NEW r \in SeedResults PROVE q = r
  <2>1. PICK f \in DOMAIN difftest : difftest[f] = q /\ q.input = SeedDigest
    BY DEF SeedResults
  <2>2. PICK g \in DOMAIN difftest : difftest[g] = r /\ r.input = SeedDigest
    BY DEF SeedResults
  <2> QED  BY <2>1, <2>2 DEF EveryInputOnce
<1>3. CASE SeedResults = {}
  <2>1. Noise = {}
    BY <1>3 DEF Noise
  <2> QED  BY <2>1, FS_EmptySet
<1>4. ASSUME NEW r \in SeedResults PROVE IsFiniteSet(Noise)
  <2> DEFINE f == [s \in O |-> Untaught(r, s)]
             family == {Untaught(r, s) : s \in O}
  <2>1. Noise = UNION family
    BY <1>2 DEF Noise
  <2>2. IsFiniteSet(O)
    BY StatesAssumption, FS_Subset DEF Originals, Grouped
  <2>3. f \in Surjection(O, family)
    <3> HIDE DEF O
    <3> QED  BY DEF Surjection
  <2>4. \A T \in family : IsFiniteSet(T)
    BY <1>1
  <2> HIDE DEF O, f, family
  <2>5. IsFiniteSet(family)
    BY <2>2, <2>3, FS_Surjection
  <2> QED  BY <2>1, <2>4, <2>5, FS_UNION
<1>5. Noise \subseteq Paths
  BY <1>1 DEF Noise
<1> QED  BY <1>3, <1>4, <1>5

LEMMA ResultIsThere ==
  ASSUME PoolInv, NEW i \in Recorded
  PROVE  /\ ResultOf(i) \in {difftest[f] : f \in DOMAIN difftest}
         /\ ResultOf(i) \in Result /\ ResultOf(i).input = i
<1>1. PICK f \in DOMAIN difftest : difftest[f].input = i
  BY DEF Recorded
<1>2. \E q \in {difftest[g] : g \in DOMAIN difftest} : q.input = i
  BY <1>1
<1>3. ResultOf(i) \in {difftest[g] : g \in DOMAIN difftest} /\ ResultOf(i).input = i
  BY <1>2 DEF ResultOf
<1> QED  BY <1>3 DEF PoolInv, Types

\* No path on one side only is about the number of secrets.
LEMMA NumberIsNotOneSided ==
  ASSUME NEW a, NEW b, IsNamespace(a), IsNamespace(b)
  PROVE  <<"secret_number", 0, 0, "whole">> \notin OneSided(Collect(b), Collect(a))
<1> DEFINE number == <<"secret_number", 0, 0, "whole">>
<1> SUFFICES ASSUME number \in OneSided(Collect(b), Collect(a)) PROVE FALSE
  OBVIOUS
<1>1. number \in Differences(Collect(b), Collect(a))
  BY DEF Differences
<1> HIDE DEF number
<1>2. PICK o \in Collect(b).objects \cup Collect(a).objects :
        \E f \in {"whole"} \cup DOMAIN o.data : number = Append(Key(o), f)
  BY <1>1, DifferencesAreAbout
<1>3. PICK f : number = Append(Key(o), f)
  BY <1>2
<1> USE DEF number
<1>4. number[1] = o.kind
  BY <1>3, AppendFourth DEF Key
<1>5. o.kind # "secret_number"
  BY CollectedFacts
<1> QED  BY <1>4, <1>5

LEMMA LearnInvSkipsNoise ==
  ASSUME PoolInv, EveryInputOnce, VerdictInv, LearnInv
  PROVE  NoiseIsSkipped
<1> SUFFICES ASSUME NEW s \in judged \cap Originals(SeedDigest),
                    NEW p \in Listed(ResultOf(SeedDigest), s)
             PROVE  FALSE
  BY DEF NoiseIsSkipped
<1> DEFINE r == ResultOf(SeedDigest)
           A == Collected(r)
           B == Collect(StateOf(s))
<1>1. s \in judged /\ InputOf[s] = SeedDigest /\ s \in Steps
  BY DEF Originals, Grouped
<1>2. SeedDigest \in Recorded /\ ignored = IgnoreFields \cup CommonPatterns(Noise)
  BY <1>1 DEF LearnInv, VerdictInv
<1>3. r \in SeedResults /\ r \in Result
  BY <1>2, ResultIsThere DEF SeedResults
<1>4. p \in StepDiff(r, s) /\ p \in OneSided(B, A)
  BY DEF Listed
<1>5. StepDiff(r, s) = SystemDiff(A, B, ignored) /\ s \notin Silent /\ ~r.stderr
  BY <1>4 DEF StepDiff, Silent
<1>6. Untaught(r, s) = SystemDiff(A, B, IgnoreFields) \cap OneSided(B, A)
  BY <1>5 DEF Untaught, Apart
<1>7. Untaught(r, s) \subseteq Noise
  BY <1>3 DEF Noise
<1>8. p # <<"secret_number", 0, 0, "whole">>
  <2>1. r.input \in Inputs /\ r.operator \in BOOLEAN
    BY <1>3 DEF Result
  <2>2. IsNamespace(FreshState(r.input, r.operator)) /\ IsNamespace(StateOf(s))
    BY <1>1, <2>1, StatesAssumption
  <2>3. A = Collect(FreshState(r.input, r.operator))
    BY <1>5 DEF Collected
  <2> QED  BY <1>4, <2>2, <2>3, NumberIsNotOneSided
<1> HIDE DEF r, A, B
<1>9. p \in SystemDiff(A, B, IgnoreFields) /\ ~MatchesAny(ignored, p)
  BY <1>2, <1>4, <1>5, <1>8 DEF SystemDiff, MatchesAny
<1>10. MatchesAny(CommonPatterns(Noise), p)
  BY <1>4, <1>6, <1>7, <1>9, NoiseFacts, EveryPathIsLearned
<1> QED  BY <1>2, <1>9, <1>10 DEF MatchesAny

LEMMA LearnInvHearsOthers ==
  ASSUME PoolInv, EveryInputOnce, VerdictInv, LearnInv
  PROVE  QuietKindsSpeak
<1> SUFFICES ASSUME NEW i \in Recorded, NEW s \in judged \cap Originals(i), s \notin Silent,
                    s \notin failed,
                    NEW p \in SystemDiff(Collected(ResultOf(i)), Collect(StateOf(s)), IgnoreFields),
                    p[1] \notin LoudAtSeed
             PROVE  FALSE
  BY DEF QuietKindsSpeak, Silent
<1> DEFINE r == ResultOf(i)
           A == Collected(r)
           B == Collect(StateOf(s))
<1>1. InputOf[s] = i
  BY DEF Originals
<1>2. ignored = IgnoreFields \cup CommonPatterns(Noise)
  BY DEF LearnInv, VerdictInv
<1>3. ~r.stderr
  <2> SUFFICES ASSUME r.stderr PROVE FALSE
    OBVIOUS
  <2>1. ~A.collected
    BY DEF Collected, NotCollected
  <2>2. p \in SystemDiff(A, B, IgnoreFields)
    OBVIOUS
  <2> HIDE DEF A, B
  <2> QED  BY <2>1, <2>2 DEF SystemDiff
<1>4. StepDiff(r, s) = SystemDiff(A, B, ignored)
  BY <1>3 DEF StepDiff, Silent
<1>5. ~MatchesAny(CommonPatterns(Noise), p)
  <2> SUFFICES ASSUME NEW pattern \in CommonPatterns(Noise), Matches(pattern, p)
               PROVE  FALSE
    BY DEF MatchesAny
  <2>1. pattern.path \in Noise /\ 1 \in pattern.keep
    BY NoiseFacts, EveryPathIsLearned
  <2>2. p[1] = pattern.path[1]
    BY <2>1 DEF Matches
  <2>3. PICK q \in SeedResults, t \in Originals(SeedDigest) : pattern.path \in Untaught(q, t)
    BY <2>1 DEF Noise
  <2>4. pattern.path \in Apart(q, t)
    BY <2>3 DEF Untaught
  <2>5. pattern.path \in UNION {Apart(x, y) : x \in SeedResults, y \in Originals(SeedDigest)}
    <3> HIDE DEF Apart
    <3> QED  BY <2>3, <2>4
  <2>6. pattern.path[1] \in LoudAtSeed
    BY <2>5 DEF LoudAtSeed, Apart
  <2> QED  BY <2>2, <2>6
<1> HIDE DEF A, B
<1>6. SystemDiff(A, B, ignored) # {}
  <2>1. p \in SystemDiff(A, B, IgnoreFields)
    BY DEF A, B
  <2> QED  BY <1>2, <1>5, <2>1 DEF SystemDiff, MatchesAny
<1> QED  BY <1>1, <1>4, <1>6 DEF VerdictInv, StepFails

-----------------------------------------------------------------------------
(* The theorems *)

IInv == PoolInv /\ EveryInputOnce /\ ClusterInv /\ RunsOnCleanCluster /\ CheckInv
        /\ VerdictInv /\ LearnInv

LEMMA Invariance == Spec => []IInv
<1>1. Init => IInv
  BY InitPoolInv, InitOnce, InitClean, InitCheckInv, InitVerdictInv, InitLearnInv
  DEF IInv
<1>2. IInv /\ [Next]_vars => IInv'
  BY NextPoolInv, NextOnce, NextCluster, NextClean, NextCheckInv, NextVerdictInv,
     NextLearnInv
  DEF IInv
<1> QED  BY <1>1, <1>2, PTL DEF Spec

\* However the processes interleave and die, no input of the test run is run
\* twice, lost without a death, or its result file overwritten
\* (DeployRunner.run, post_diff_test.py).
THEOREM InputsRunOnce == Spec => []EveryInputOnce
<1>1. IInv => EveryInputOnce
  BY DEF IInv
<1> QED  BY <1>1, Invariance, PTL

\* A result is that of the first CR on its cluster: the restart at the end of
\* DeployRunner.run's loop is never missed.
THEOREM ClustersAreClean == Spec => []RunsOnCleanCluster
<1>1. IInv => RunsOnCleanCluster
  BY DEF IInv
<1> QED  BY <1>1, Invariance, PTL

\* Whatever the comparison says of the steps, check_diff_test_result reports all
\* that failed, with the input they belong to, and skips none.
THEOREM ReportsAreComplete == Spec => []ReportsComplete
<1>1. IInv => ReportsComplete
  BY CheckInvGivesReports DEF IInv
<1> QED  BY <1>1, Invariance, PTL

\* Where the paths that the config names and those that come and go at the seed are
\* all the noise there is, apart from the unsteady values (SeedTellsApart, a fact of
\* the states alone), all verdicts of check_diff_test_step are as they should be:
\* learning from the seed is over before the first comparison, no process changes it
\* later, and no step is compared with the result of another input.
THEOREM VerdictsHold ==
  ASSUME SeedTellsApart
  PROVE  Spec => []VerdictsAreReal
<1>1. IInv => VerdictsAreReal
  BY VerdictInvIsReal DEF IInv
<1> QED  BY <1>1, Invariance, PTL

\* An object or a field that was on one side only where the CR was the seed's is
\* never taken for a difference where it is the seed's again, however many results
\* there are and however compute_common_regex joined the paths.  And a difference in
\* a kind of resource in which nothing came or went at the seed is reported unless
\* the config names it, however the paths of other kinds were joined into wildcards
\* and whatever values of this kind changed.
THEOREM LearningIsSound == Spec => []LearnsTheNoiseOnly
<1>1. IInv => NoiseIsSkipped
  BY LearnInvSkipsNoise DEF IInv
<1>2. IInv => QuietKindsSpeak
  BY LearnInvHearsOthers DEF IInv
<1>3. IInv => LearnsTheNoiseOnly
  BY <1>1, <1>2 DEF LearnsTheNoiseOnly
<1> QED  BY <1>3, Invariance, PTL
=============================================================================
