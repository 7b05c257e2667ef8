---------------------------- MODULE Converge_proofs ----------------------------
(***************************************************************************)
(* The convergence wait for every number of calls, every pair of timeouts  *)
(* and every set of systems.  The inductive invariant adds to the types    *)
(*   - that a message of a timer is in the queue of a call that has lasted *)
(*     HardTimeout or has returned (TimeoutInv): why the queue is the      *)
(*     call's own;                                                         *)
(*   - that a get has not waited longer than nothing was put (QuietInv);   *)
(*   - that, while nothing moves, the verdict is that on the system there  *)
(*     is (VerdictInv).                                                    *)
(* From the last it follows that a state that was waited for raises an     *)
(* alarm of the health oracle only for what the wait does not ask.         *)
(***************************************************************************)
EXTENDS Converge, TLAPS

Types ==
  /\ call \in 0 .. Calls
  /\ pc \in {"elsewhere", "get", "read", "cleanup"}
  /\ queue \in [Call -> Seq(Msg)]
  /\ timer \in [Call -> {"off", "armed", "cancelled", "sent"}]
  /\ result \in [Call -> {"none", "converged", "timeout", "raised"}]
  /\ system \in Systems
  /\ asked \in Nat
  /\ elapsed \in [Call -> 0 .. HardTimeout]
  /\ waited \in 0 .. WaitTime
  /\ quiet \in 0 .. WaitTime

CallInv ==
  /\ pc \in {"get", "read"} => /\ call \in Call /\ result[call] = "none"
                               /\ timer[call] \in {"armed", "sent"}
  /\ pc = "cleanup" => call \in Call /\ result[call] # "none"
  /\ \A c \in Call : /\ c > call => result[c] = "none"
                     /\ timer[c] = "cancelled" => result[c] # "none"

TimeoutInv ==
  \A c \in Call : \A i \in DOMAIN queue[c] :
    queue[c][i] = "timeout" => elapsed[c] = HardTimeout \/ result[c] # "none"

QuietInv ==
  /\ (pc = "get" /\ queue[call] = << >>) => waited <= quiet
  /\ (pc = "read" /\ ~moved) => quiet = WaitTime

\* The kinds read so far were healthy, in the system there is.
FineSoFar == \A i \in 1 .. asked : KindHealthy(ReadOrder[i], system)

VerdictInv ==
  pc = "read" =>
    /\ asked <= Len(ReadOrder)
    /\ ~moved => (verdict <=> FineSoFar)

IInv == Types /\ CallInv /\ TimeoutInv /\ NoFalseTimeout /\ QuietInv /\ VerdictInv

-----------------------------------------------------------------------------
LEMMA OrderLength == Len(ReadOrder) = 5
  BY DEF ReadOrder

LEMMA InitIInv == Init => IInv
<1> SUFFICES ASSUME Init PROVE IInv
  OBVIOUS
<1> USE ConvergeAssumption
<1>1. Types
  <2>1. queue \in [Call -> Seq(Msg)]
    BY DEF Init
  <2>2. elapsed \in [Call -> 0 .. HardTimeout]
    BY DEF Init
  <2>3. timer \in [Call -> {"off", "armed", "cancelled", "sent"}]
    BY DEF Init
  <2> QED  BY <2>1, <2>2, <2>3 DEF Init, Types
<1>2. CallInv /\ TimeoutInv /\ NoFalseTimeout
  BY DEF Init, CallInv, TimeoutInv, NoFalseTimeout
<1>3. QuietInv /\ VerdictInv
  BY DEF Init, QuietInv, VerdictInv
<1> QED  BY <1>1, <1>2, <1>3 DEF IInv

\* What is put reaches the end of the queue of the call it belongs to.
LEMMA PutQueue ==
  ASSUME Types, NEW c \in Call, NEW msg \in Msg, Put(QueueOf(c), msg)
  PROVE  /\ queue' \in [Call -> Seq(Msg)]
         /\ queue'[c] # << >>
         /\ \A d \in Call \ {c} : queue'[d] = queue[d]
         /\ \A i \in DOMAIN queue'[c] :
              (i \in DOMAIN queue[c] /\ queue'[c][i] = queue[c][i]) \/ queue'[c][i] = msg
<1>1. queue[c] \in Seq(Msg) /\ queue'[c] = Append(queue[c], msg)
  BY DEF Types, Put, QueueOf
<1>2. queue' \in [Call -> Seq(Msg)] /\ \A d \in Call \ {c} : queue'[d] = queue[d]
  BY DEF Types, Put, QueueOf
<1>3. \A i \in DOMAIN queue'[c] :
        (i \in DOMAIN queue[c] /\ queue'[c][i] = queue[c][i]) \/ queue'[c][i] = msg
  BY <1>1
<1>4. queue'[c] # << >>
  BY <1>1
<1> QED  BY <1>2, <1>3, <1>4

LEMMA PutClocks ==
  ASSUME Types, NEW c \in Call, NEW msg, Put(QueueOf(c), msg)
  PROVE  /\ asked' = asked /\ (verdict' <=> verdict)
         /\ quiet' \in 0 .. WaitTime
         /\ c = call => quiet' = 0 /\ moved'
         /\ c # call => quiet' = quiet /\ (moved' <=> moved)
<1>1. asked' = asked /\ (c = call => quiet' = 0) /\ (c # call => quiet' = quiet)
  BY DEF Put, QueueOf
<1>2. verdict' <=> verdict
  BY DEF Put
<1>3. (c = call => moved') /\ (c # call => (moved' <=> moved))
  BY DEF Put, QueueOf
<1>4. quiet' \in 0 .. WaitTime
  BY <1>1, ConvergeAssumption DEF Types
<1> QED  BY <1>1, <1>2, <1>3, <1>4

LEMMA DecideCases ==
  ASSUME Decide
  PROVE  /\ pc = "read" /\ asked = Len(ReadOrder) /\ waited' = 0
         /\ UNCHANGED <<call, queue, timer, system, asked, moved, elapsed, quiet>>
         /\ \/ verdict /\ result' = [result EXCEPT ![call] = "converged"] /\ pc' = "cleanup"
            \/ ~verdict /\ result' = result /\ pc' = "get"
  BY DEF Decide, CheckEnds, check

LEMMA NextTypes ==
  ASSUME IInv, Next
  PROVE  Types'
<1> USE ConvergeAssumption DEF IInv, Types, CallInv
<1>1. CASE Begin
  BY <1>1 DEF Begin, Call, check
<1>2. CASE GetEvent
  <2>1. call \in Call /\ queue[call] \in Seq(Msg) /\ queue[call] # << >>
    BY <1>2 DEF GetEvent
  <2>2. queue' \in [Call -> Seq(Msg)]
    BY <1>2, <2>1 DEF GetEvent
  <2> QED  BY <1>2, <2>2 DEF GetEvent, RearmGet, check
<1>3. CASE GetTimeout
  <2>1. call \in Call /\ queue[call] \in Seq(Msg) /\ queue[call] # << >>
    BY <1>3 DEF GetTimeout
  <2>2. queue' \in [Call -> Seq(Msg)]
    BY <1>3, <2>1 DEF GetTimeout
  <2> QED  BY <1>3, <2>2 DEF GetTimeout, check
<1>4. CASE GetEmpty
  BY <1>4 DEF GetEmpty, check
<1>5. CASE ReadKind
  BY <1>5 DEF ReadKind, check
<1>6. CASE Decide
  <2>1. CASE pc' = "get" /\ result' = result
    BY <1>6, <2>1, DecideCases
  <2>2. CASE pc' = "cleanup" /\ result' = [result EXCEPT ![call] = "converged"]
    BY <1>6, <2>2, DecideCases
  <2> QED  BY <1>6, <2>1, <2>2, DecideCases
<1>7. CASE HealthRaises
  BY <1>7 DEF HealthRaises, check
<1>8. CASE Cleanup
  BY <1>8 DEF Cleanup, check
<1>9. ASSUME NEW c \in Call, TimerPuts(c) PROVE Types'
  <2>1. Put(QueueOf(c), "timeout")
    BY <1>9 DEF TimerPuts
  <2>2. /\ queue' \in [Call -> Seq(Msg)] /\ asked' = asked
        /\ quiet' \in 0 .. WaitTime
    BY <2>1, PutQueue, PutClocks DEF Msg
  <2> QED  BY <1>9, <2>2 DEF TimerPuts, TimerExits
<1>10. ASSUME NEW c \in Call, WatcherPuts(c) PROVE Types'
  <2>1. Put(QueueOf(c), "event")
    BY <1>10 DEF WatcherPuts
  <2>2. /\ queue' \in [Call -> Seq(Msg)] /\ asked' = asked
        /\ quiet' \in 0 .. WaitTime
    BY <2>1, PutQueue, PutClocks DEF Msg
  <2> QED  BY <1>10, <2>2 DEF WatcherPuts
<1>11. ASSUME NEW c \in Call, StreamEnds(c) PROVE Types'
  BY <1>11 DEF StreamEnds, check
<1>12. CASE SystemChanges
  BY <1>12 DEF SystemChanges
<1>13. CASE Tick
  <2>1. elapsed' \in [Call -> 0 .. HardTimeout]
    BY <1>13 DEF Tick, UpTo
  <2> QED  BY <1>13, <2>1 DEF Tick, UpTo, check
<1> QED
  BY <1>1, <1>2, <1>3, <1>4, <1>5, <1>6, <1>7, <1>8, <1>9, <1>10, <1>11, <1>12, <1>13
  DEF Next

LEMMA NextCallInv ==
  ASSUME IInv, Next
  PROVE  CallInv'
<1> USE ConvergeAssumption DEF IInv, Types, CallInv
<1>1. CASE Begin
  BY <1>1 DEF Begin, Call
<1>2. CASE GetEvent
  BY <1>2 DEF GetEvent
<1>3. CASE GetTimeout
  BY <1>3 DEF GetTimeout, Call
<1>4. CASE GetEmpty
  BY <1>4 DEF GetEmpty
<1>5. CASE ReadKind
  BY <1>5 DEF ReadKind
<1>6. CASE Decide
  <2>1. CASE pc' = "get" /\ result' = result
    BY <1>6, <2>1, DecideCases
  <2>2. CASE pc' = "cleanup" /\ result' = [result EXCEPT ![call] = "converged"]
    BY <1>6, <2>2, DecideCases
  <2> QED  BY <1>6, <2>1, <2>2, DecideCases
<1>7. CASE HealthRaises
  BY <1>7 DEF HealthRaises, Call
<1>8. CASE Cleanup
  BY <1>8 DEF Cleanup
<1>9. ASSUME NEW c \in Call, TimerPuts(c) PROVE CallInv'
  <2>1. timer' = [timer EXCEPT ![c] = "sent"] /\ UNCHANGED <<call, pc, result>>
    BY <1>9 DEF TimerPuts, TimerExits
  <2> QED  BY <2>1
<1>10. ASSUME NEW c \in Call, WatcherPuts(c) \/ StreamEnds(c) PROVE CallInv'
  BY <1>10 DEF WatcherPuts, StreamEnds
<1>11. CASE SystemChanges \/ Tick
  BY <1>11 DEF SystemChanges, Tick
<1> QED
  BY <1>1, <1>2, <1>3, <1>4, <1>5, <1>6, <1>7, <1>8, <1>9, <1>10, <1>11 DEF Next

\* Once a call has lasted HardTimeout, it has for ever; a result stays.
LEMMA Lasting ==
  ASSUME IInv, Next, NEW c \in Call
  PROVE  /\ elapsed[c] = HardTimeout => elapsed'[c] = HardTimeout
         /\ result[c] # "none" => result'[c] = result[c]
<1> USE ConvergeAssumption DEF IInv, Types, CallInv
<1>1. CASE Tick
  BY <1>1 DEF Tick, UpTo
<1>2. CASE ~Tick
  <2>1. elapsed' = elapsed
    BY <1>2 DEF Next, Begin, GetEvent, GetTimeout, GetEmpty, ReadKind, Decide, HealthRaises,
                Cleanup, TimerPuts, WatcherPuts, StreamEnds, SystemChanges
  <2>2. result[c] # "none" => result'[c] = result[c]
    BY <1>2 DEF Next, Begin, GetEvent, GetTimeout, GetEmpty, ReadKind, Decide, CheckEnds,
                HealthRaises, Cleanup, TimerPuts, WatcherPuts, StreamEnds, SystemChanges
  <2> QED  BY <2>1, <2>2
<1> QED  BY <1>1, <1>2

LEMMA NextTimeoutInv ==
  ASSUME IInv, Next
  PROVE  TimeoutInv'
<1> USE DEF IInv, TimeoutInv
<1>1. ASSUME queue' = queue PROVE TimeoutInv'
  BY <1>1, Lasting
<1>2. ASSUME GetEvent \/ GetTimeout PROVE TimeoutInv'
  <2>1. call \in Call /\ queue[call] \in Seq(Msg) /\ queue[call] # << >>
        /\ queue' = [queue EXCEPT ![call] = Tail(@)]
    BY <1>2 DEF GetEvent, GetTimeout, Types, CallInv
  <2>2. \A i \in DOMAIN queue'[call] : i + 1 \in DOMAIN queue[call] /\ queue'[call][i] = queue[call][i + 1]
    BY <2>1 DEF Types
  <2>3. \A c \in Call \ {call} : queue'[c] = queue[c]
    BY <2>1 DEF Types
  <2> QED  BY <2>1, <2>2, <2>3, Lasting
<1>3. ASSUME NEW c \in Call, TimerPuts(c) PROVE TimeoutInv'
  <2>1. Put(QueueOf(c), "timeout") /\ TimerWakes(c)
    BY <1>3 DEF TimerPuts
  <2>2. elapsed[c] = HardTimeout \/ result[c] # "none"
    BY <2>1 DEF TimerWakes, CallInv
  <2>3. /\ \A d \in Call \ {c} : queue'[d] = queue[d]
        /\ \A i \in DOMAIN queue'[c] :
             (i \in DOMAIN queue[c] /\ queue'[c][i] = queue[c][i]) \/ queue'[c][i] = "timeout"
    BY <2>1, PutQueue DEF Msg
  <2> QED  BY <2>2, <2>3, Lasting
<1>4. ASSUME NEW c \in Call, WatcherPuts(c) PROVE TimeoutInv'
  <2>1. Put(QueueOf(c), "event")
    BY <1>4 DEF WatcherPuts
  <2>2. /\ \A d \in Call \ {c} : queue'[d] = queue[d]
        /\ \A i \in DOMAIN queue'[c] :
             (i \in DOMAIN queue[c] /\ queue'[c][i] = queue[c][i]) \/ queue'[c][i] = "event"
    BY <2>1, PutQueue DEF Msg
  <2> QED  BY <2>2, Lasting
<1>5. ASSUME Next, ~GetEvent, ~GetTimeout, \A c \in Call : ~TimerPuts(c) /\ ~WatcherPuts(c)
      PROVE  queue' = queue
  BY <1>5 DEF Next, Begin, GetEmpty, ReadKind, Decide, HealthRaises, Cleanup, StreamEnds,
              SystemChanges, Tick
<1> QED  BY <1>1, <1>2, <1>3, <1>4, <1>5

\* A timeout that ends a call is that of the call's own timer.
LEMMA NextNoFalseTimeout ==
  ASSUME IInv, Next
  PROVE  NoFalseTimeout'
<1> SUFFICES ASSUME NEW c \in Call, result'[c] = "timeout" PROVE elapsed'[c] = HardTimeout
  BY DEF NoFalseTimeout
<1> USE DEF IInv, Types, CallInv
<1>1. CASE result[c] = "timeout"
  BY <1>1, Lasting DEF NoFalseTimeout
<1>2. CASE result[c] # "timeout" /\ GetTimeout
  <2>1. c = call /\ result[c] = "none" /\ queue[c] # << >> /\ queue[c][1] = "timeout"
    BY <1>2 DEF GetTimeout
  <2>2. 1 \in DOMAIN queue[c]
    BY <2>1
  <2> QED  BY <2>1, <2>2, Lasting DEF TimeoutInv
<1>3. CASE result[c] # "timeout" /\ ~GetTimeout
  <2>1. result'[c] # "timeout"
    BY <1>3 DEF Next, Begin, GetEvent, GetEmpty, ReadKind, Decide, HealthRaises,
                Cleanup, TimerPuts, WatcherPuts, StreamEnds, SystemChanges, Tick
  <2> QED  BY <2>1
<1> QED  BY <1>1, <1>2, <1>3

LEMMA NextQuietInv ==
  ASSUME IInv, Next
  PROVE  QuietInv'
<1> USE ConvergeAssumption DEF IInv, Types, CallInv, QuietInv
<1>1. CASE Begin
  BY <1>1 DEF Begin
<1>2. CASE GetEvent
  BY <1>2 DEF GetEvent, RearmGet
<1>3. CASE GetTimeout
  BY <1>3 DEF GetTimeout
<1>4. CASE GetEmpty
  BY <1>4 DEF GetEmpty
<1>5. CASE ReadKind
  BY <1>5 DEF ReadKind
<1>6. CASE Decide
  BY <1>6, DecideCases
<1>7. CASE HealthRaises
  BY <1>7 DEF HealthRaises
<1>8. CASE Cleanup
  BY <1>8 DEF Cleanup
<1>9. ASSUME NEW c \in Call, NEW msg \in Msg, Put(QueueOf(c), msg),
             UNCHANGED <<call, pc, waited>>
      PROVE  QuietInv'
  <2>1. CASE c = call
    BY <1>9, <2>1, PutQueue, PutClocks
  <2>2. CASE c # call
    <3>1. quiet' = quiet /\ (moved' <=> moved)
      BY <1>9, <2>2, PutClocks
    <3>2. pc = "get" => queue'[call] = queue[call]
      BY <1>9, <2>2, PutQueue
    <3> QED  BY <1>9, <3>1, <3>2
  <2> QED  BY <2>1, <2>2
<1>10. ASSUME NEW c \in Call, TimerPuts(c) \/ WatcherPuts(c) PROVE QuietInv'
  BY <1>9, <1>10 DEF TimerPuts, WatcherPuts, Msg
<1>11. ASSUME NEW c \in Call, StreamEnds(c) PROVE QuietInv'
  BY <1>11 DEF StreamEnds, check
<1>12. CASE SystemChanges
  BY <1>12 DEF SystemChanges
<1>13. CASE Tick
  BY <1>13 DEF Tick, UpTo, check
<1> QED
  BY <1>1, <1>2, <1>3, <1>4, <1>5, <1>6, <1>7, <1>8, <1>10, <1>11, <1>12, <1>13 DEF Next

LEMMA NextVerdictInv ==
  ASSUME IInv, Next
  PROVE  VerdictInv'
<1> USE DEF IInv, Types, VerdictInv
<1>0. Len(ReadOrder) \in Nat
  BY OrderLength
<1>1. CASE GetEmpty
  <2>1. asked' = 0 /\ verdict'
    BY <1>1 DEF GetEmpty
  <2> QED  BY <1>0, <2>1 DEF FineSoFar
<1>2. CASE ReadKind
  <2>1. /\ pc = "read" /\ pc' = "read" /\ asked < Len(ReadOrder) /\ asked' = asked + 1
        /\ system' = system /\ (moved' <=> moved)
        /\ verdict' <=> (verdict /\ KindHealthy(ReadOrder[asked + 1], system))
    BY <1>2 DEF ReadKind
  <2>2. FineSoFar' <=> (FineSoFar /\ KindHealthy(ReadOrder[asked + 1], system))
    <3>1. 1 .. asked + 1 = (1 .. asked) \cup {asked + 1}
      OBVIOUS
    <3> QED  BY <2>1, <3>1 DEF FineSoFar
  <2> QED  BY <1>0, <2>1, <2>2
<1>3. ASSUME UNCHANGED <<pc, asked, system>>, verdict' <=> verdict, moved => moved'
      PROVE  VerdictInv'
  BY <1>3 DEF FineSoFar
<1>4. ASSUME NEW c \in Call, TimerPuts(c) \/ WatcherPuts(c) PROVE VerdictInv'
  <2>1. PICK msg \in Msg : Put(QueueOf(c), msg)
    BY <1>4 DEF TimerPuts, WatcherPuts, Msg
  <2> QED  BY <1>3, <1>4, <2>1, PutClocks DEF TimerPuts, WatcherPuts
<1>5. CASE SystemChanges
  BY <1>5 DEF SystemChanges
<1>6. ASSUME NEW c \in Call, StreamEnds(c) PROVE VerdictInv'
  BY <1>3, <1>6 DEF StreamEnds, check
<1>7. CASE Begin \/ GetEvent \/ GetTimeout \/ Decide \/ HealthRaises \/ Cleanup
  BY <1>7, DecideCases DEF Begin, GetEvent, GetTimeout, HealthRaises, Cleanup
<1>8. CASE Tick
  BY <1>3, <1>8 DEF Tick, check
<1> QED
  BY <1>1, <1>2, <1>4, <1>5, <1>6, <1>7, <1>8 DEF Next

LEMMA NextIInv == IInv /\ [Next]_vars => IInv'
<1> SUFFICES ASSUME IInv, [Next]_vars PROVE IInv'
  OBVIOUS
<1>1. CASE Next
  BY <1>1, NextTypes, NextCallInv, NextTimeoutInv, NextNoFalseTimeout, NextQuietInv, NextVerdictInv
  DEF IInv
<1>2. CASE UNCHANGED vars
  BY <1>2 DEF IInv, Types, CallInv, TimeoutInv, NoFalseTimeout, QuietInv, VerdictInv,
              FineSoFar, vars, check
<1> QED  BY <1>1, <1>2

-----------------------------------------------------------------------------
(* What the checks of the kinds say together *)

\* check_health knows of a rollout only in a StatefulSet's revisions, and of one
\* that is stuck only in a Deployment or DaemonSet: systems in which the other
\* kinds are rolled out and not stuck.
Legible(s) ==
  /\ \A k \in {"daemon_set", "deployment", "replica_set"} : s.workload[k].rolled
  /\ \A k \in {"replica_set", "stateful_set"} : ~s.workload[k].stalled

AllFine(s) == \A i \in 1 .. Len(ReadOrder) : KindHealthy(ReadOrder[i], s)

LEMMA AllFineKinds ==
  ASSUME NEW s
  PROVE  AllFine(s) <=>
           /\ DaemonSetHealthy(s.workload["daemon_set"])
           /\ DeploymentHealthy(s.workload["deployment"])
           /\ PodsHealthy(s)
           /\ ReplicaSetHealthy(s.workload["replica_set"])
           /\ StatefulSetHealthy(s.workload["stateful_set"])
<1>1. 1 .. Len(ReadOrder) = {1, 2, 3, 4, 5}
  BY OrderLength
<1>2. AllFine(s) <=>
        /\ KindHealthy("daemon_set", s) /\ KindHealthy("deployment", s) /\ KindHealthy("pod", s)
        /\ KindHealthy("replica_set", s) /\ KindHealthy("stateful_set", s)
  BY <1>1 DEF AllFine, ReadOrder
<1>3. /\ KindHealthy("daemon_set", s) <=> DaemonSetHealthy(s.workload["daemon_set"])
      /\ KindHealthy("deployment", s) <=> DeploymentHealthy(s.workload["deployment"])
      /\ KindHealthy("pod", s) <=> PodsHealthy(s)
      /\ KindHealthy("replica_set", s) <=> ReplicaSetHealthy(s.workload["replica_set"])
      /\ KindHealthy("stateful_set", s) <=> StatefulSetHealthy(s.workload["stateful_set"])
  BY DEF KindHealthy
<1> QED  BY <1>2, <1>3

LEMMA SystemTypes ==
  ASSUME NEW s \in Systems, NEW k \in Workloads
  PROVE  /\ s.workload[k].wanted \in Nat /\ s.workload[k].running \in Nat
         /\ s.workload[k].ready \in Nat /\ s.workload[k].available \in Nat
         /\ s.workload[k].started \in BOOLEAN
         /\ s.workload[k].ready = s.workload[k].running => s.workload[k].started
  BY SystemsAssumption DEF System, Workload

\* A system that every kind's check accepts is what the wait promises.
LEMMA FineIsFinished ==
  ASSUME NEW s \in Systems, Legible(s), AllFine(s)
  PROVE  Finished(s)
<1>1. \A k \in Workloads : /\ s.workload[k].wanted \in Nat /\ s.workload[k].running \in Nat
                           /\ s.workload[k].ready \in Nat
  BY SystemTypes
<1>2. \A k \in Workloads : s.workload[k].ready = s.workload[k].running
  BY AllFineKinds DEF PodsHealthy
<1>3. Done(s.workload["daemon_set"])
  BY <1>1, <1>2, AllFineKinds DEF Workloads, DaemonSetHealthy, Done, Legible
<1>4. Done(s.workload["deployment"])
  BY <1>1, <1>2, AllFineKinds DEF Workloads, DeploymentHealthy, Reported, None, Done, Legible
<1>5. Done(s.workload["replica_set"])
  BY <1>1, <1>2, AllFineKinds
  DEF Workloads, ReplicaSetHealthy, ScaledToZero, Reported, None, Done, Legible
<1>6. Done(s.workload["stateful_set"])
  BY <1>1, <1>2, AllFineKinds
  DEF Workloads, StatefulSetHealthy, ScaledToZero, Reported, None, Done, Legible
<1> QED  BY <1>3, <1>4, <1>5, <1>6 DEF Finished, Workloads

\* A settled system is accepted, but for the two cases of NeverHealthy.
LEMMA SettledIsFine ==
  ASSUME NEW s \in Systems, Settled(s), ~NeverHealthy(s)
  PROVE  AllFine(s)
<1>1. \A k \in Workloads : /\ s.workload[k].wanted \in Nat /\ s.workload[k].running \in Nat
                           /\ s.workload[k].ready \in Nat /\ s.workload[k].available \in Nat
  BY SystemTypes
<1>2. \A k \in Workloads : Done(s.workload[k]) /\ s.workload[k].available = s.workload[k].wanted
  BY DEF Settled, Finished
<1>3. DaemonSetHealthy(s.workload["daemon_set"])
  BY <1>2 DEF Workloads, Done, DaemonSetHealthy
<1>4. DeploymentHealthy(s.workload["deployment"])
  <2>1. "deployment" \in Workloads /\ s.workload["deployment"].wanted # 0
    BY DEF Workloads, NeverHealthy
  <2> QED  BY <1>1, <1>2, <2>1
           DEF Done, DeploymentHealthy, DeploymentAvailable, Reported, None
<1>5. PodsHealthy(s)
  <2>1. \A p \in s.pods : p.ready # "False"
    BY DEF Settled, NeverHealthy
  <2> QED  BY <1>2, <2>1 DEF Done, PodsHealthy
<1>6. ReplicaSetHealthy(s.workload["replica_set"])
  BY <1>1, <1>2 DEF Workloads, Done, ReplicaSetHealthy, ScaledToZero, Reported, None
<1>7. StatefulSetHealthy(s.workload["stateful_set"])
  BY <1>1, <1>2 DEF Workloads, Done, StatefulSetHealthy, ScaledToZero, Reported, None
<1> QED  BY <1>3, <1>4, <1>5, <1>6, <1>7, AllFineKinds

\* The health oracle's rules about counts and conditions ask for no more than the
\* checks of the kinds do, of any system.
LEMMA FineAlarms ==
  ASSUME NEW s \in Systems, AllFine(s), HealthAlarm(s)
  PROVE  Unasked(s)
<1>1. /\ DaemonSetHealthy(s.workload["daemon_set"])
      /\ DeploymentHealthy(s.workload["deployment"])
      /\ PodsHealthy(s)
      /\ StatefulSetHealthy(s.workload["stateful_set"])
  BY AllFineKinds
<1>2. ~StatefulSetAlarm(s.workload["stateful_set"])
  BY <1>1 DEF StatefulSetHealthy, StatefulSetAlarm
<1>3. ~DeploymentAlarm(s.workload["deployment"])
  BY <1>1 DEF DeploymentHealthy, DeploymentAlarm
<1>4. DaemonSetAlarm(s.workload["daemon_set"]) => Unasked(s)
  BY <1>1 DEF DaemonSetHealthy, DaemonSetAlarm, Unasked
<1>5. PhaseAlarm(s) => Unasked(s)
  <2>1. "stateful_set" \in Workloads
    BY DEF Workloads
  <2>2. s.workload["stateful_set"].started
    BY <1>1, <2>1, SystemTypes DEF PodsHealthy
  <2> QED  BY <2>2 DEF PhaseAlarm, Unasked
<1>6. s.workload["deployment"].restarted \/ s.forbidden => Unasked(s)
  BY DEF Unasked
<1> QED  BY <1>2, <1>3, <1>4, <1>5, <1>6 DEF HealthAlarm

\* Of a system that Kubernetes calls settled the health oracle reports exactly this,
\* false alarm or not: a DaemonSet that wants no pods (its number_available is left
\* out of the status), a pod that failed, restarts in a Deployment's pods, and a CR
\* that says "is forbidden".
THEOREM SettledAlarms ==
  ASSUME NEW s \in Systems, Settled(s)
  PROVE  HealthAlarm(s) <=> \/ s.workload["daemon_set"].wanted = 0
                            \/ \E p \in s.pods : p.phase = "Failed"
                            \/ s.workload["deployment"].restarted
                            \/ s.forbidden
<1>1. \A k \in Workloads : /\ s.workload[k].wanted \in Nat
                           /\ s.workload[k].ready = s.workload[k].wanted
                           /\ s.workload[k].available = s.workload[k].wanted
                           /\ ~s.workload[k].stalled
                           /\ s.workload[k].started
  BY SystemTypes DEF Settled, Finished, Done
<1>2. "daemon_set" \in Workloads /\ "deployment" \in Workloads /\ "stateful_set" \in Workloads
  BY DEF Workloads
<1>3. ~StatefulSetAlarm(s.workload["stateful_set"])
  BY <1>1, <1>2 DEF StatefulSetAlarm, ScaledToZero, Reported
<1>4. ~DeploymentAlarm(s.workload["deployment"])
  BY <1>1, <1>2 DEF DeploymentAlarm, DeploymentAvailable, Reported
<1>5. DaemonSetAlarm(s.workload["daemon_set"]) <=> s.workload["daemon_set"].wanted = 0
  BY <1>1, <1>2 DEF DaemonSetAlarm, Reported, None
<1>6. PhaseAlarm(s) <=> \E p \in s.pods : p.phase = "Failed"
  <2>1. s.workload["stateful_set"].started
    BY <1>1, <1>2
  <2>2. \A p \in s.pods : p.phase \in {"Running", "Succeeded", "Failed"}
    BY DEF Settled
  <2> QED  BY <2>1, <2>2 DEF PhaseAlarm
<1> QED  BY <1>3, <1>4, <1>5, <1>6 DEF HealthAlarm

-----------------------------------------------------------------------------
(* The theorems *)

LEMMA Invariance == Spec => []IInv
  BY InitIInv, NextIInv, PTL DEF Spec

\* However many timers of past calls are still to wake, a call of
\* wait_for_system_converge that reports a timeout has lasted HardTimeout.
THEOREM TimeoutsAreOwn == Spec => []NoFalseTimeout
<1>1. IInv => NoFalseTimeout
  BY DEF IInv
<1> QED  BY <1>1, Invariance, PTL

\* If nothing moves while the kinds are read, a system is reported converged only
\* after WaitTime without an event and with every controller done: for any set of
\* legible systems.
THEOREM ConvergedIsQuiet ==
  ASSUME \A s \in Systems : Legible(s)
  PROVE  Spec => ConvergedMeansQuiet
<1> DEFINE A == \A c \in Call :
                 (result[c] = "none" /\ result'[c] = "converged" /\ ~moved)
                    => /\ quiet = WaitTime
                       /\ Finished(system)
                       /\ timer[c] \in {"armed", "sent"}
<1>1. IInv /\ [Next]_vars => [A]_vars
  <2> SUFFICES ASSUME IInv, Next, NEW c \in Call, result[c] = "none",
                      result'[c] = "converged", ~moved
               PROVE  /\ quiet = WaitTime /\ Finished(system)
                      /\ timer[c] \in {"armed", "sent"}
    OBVIOUS
  <2> USE DEF IInv, Types, CallInv
  <2>1. CASE ~Decide
    BY <2>1 DEF Next, Begin, GetEvent, GetTimeout, GetEmpty, ReadKind, HealthRaises, Cleanup,
                TimerPuts, WatcherPuts, StreamEnds, SystemChanges, Tick
  <2>2. CASE Decide
    <3>1. verdict /\ c = call /\ pc = "read" /\ asked = Len(ReadOrder)
      BY <2>2, DecideCases
    <3>2. quiet = WaitTime /\ timer[c] \in {"armed", "sent"}
      BY <3>1 DEF QuietInv
    <3>3. AllFine(system)
      BY <3>1 DEF VerdictInv, FineSoFar, AllFine
    <3> QED  BY <3>2, <3>3, FineIsFinished
  <2> QED  BY <2>1, <2>2
<1> QED  BY <1>1, Invariance, PTL DEF Spec, ConvergedMeansQuiet

\* The health oracle reports a system that the wait has accepted, and that held
\* still while it was read, only for what the wait does not ask: for any set of
\* systems.
THEOREM ConvergedAlarms == Spec => AlarmsOnlyForUnasked
<1> DEFINE A == \A c \in Call :
                 (result[c] = "none" /\ result'[c] = "converged" /\ ~moved)
                    => (HealthAlarm(system) => Unasked(system))
<1>1. IInv /\ [Next]_vars => [A]_vars
  <2> SUFFICES ASSUME IInv, Next, NEW c \in Call, result[c] = "none",
                      result'[c] = "converged", ~moved
               PROVE  HealthAlarm(system) => Unasked(system)
    OBVIOUS
  <2> USE DEF IInv, Types, CallInv
  <2>1. CASE ~Decide
    BY <2>1 DEF Next, Begin, GetEvent, GetTimeout, GetEmpty, ReadKind, HealthRaises, Cleanup,
                TimerPuts, WatcherPuts, StreamEnds, SystemChanges, Tick
  <2>2. CASE Decide
    <3>1. verdict /\ c = call /\ pc = "read" /\ asked = Len(ReadOrder)
      BY <2>2, DecideCases
    <3>2. AllFine(system)
      BY <3>1 DEF VerdictInv, FineSoFar, AllFine
    <3> QED  BY <3>2, FineAlarms
  <2> QED  BY <2>1, <2>2
<1> QED  BY <1>1, Invariance, PTL DEF Spec, AlarmsOnlyForUnasked

\* A settled system that holds still while it is read ends the wait, but for the
\* two cases that check_health never accepts: for any set of systems.
THEOREM SettledEndsTheWait == Spec => SettledConverges
<1> DEFINE A == (CheckEnds /\ pc' = "get" /\ ~moved) => ~Settled(system) \/ NeverHealthy(system)
<1>1. IInv /\ [Next]_vars => [A]_vars
  <2> SUFFICES ASSUME IInv, Next, CheckEnds, pc' = "get", ~moved
               PROVE  ~Settled(system) \/ NeverHealthy(system)
    OBVIOUS
  <2> USE DEF IInv, Types, CallInv
  <2>1. CASE ~Decide
    BY <2>1, OrderLength
    DEF CheckEnds, Next, Begin, GetEvent, GetTimeout, GetEmpty, ReadKind, HealthRaises, Cleanup,
        TimerPuts, WatcherPuts, StreamEnds, SystemChanges, Tick
  <2>2. CASE Decide
    <3>1. ~verdict /\ pc = "read" /\ asked = Len(ReadOrder)
      BY <2>2, DecideCases
    <3>2. ~AllFine(system)
      BY <3>1 DEF VerdictInv, FineSoFar, AllFine
    <3> QED  BY <3>2, SettledIsFine
  <2> QED  BY <2>1, <2>2
<1> QED  BY <1>1, Invariance, PTL DEF Spec, SettledConverges
=============================================================================
