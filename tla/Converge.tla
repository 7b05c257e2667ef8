------------------------------ MODULE Converge ------------------------------
(***************************************************************************)
(* Runner.wait_for_system_converge (acto/runner/runner.py): after every    *)
(* `kubectl apply` the worker waits until the system under test is quiet   *)
(* and healthy, or until a hard timeout.  Three threads of control meet in *)
(* one queue: the worker, a forked process that forwards the namespace's   *)
(* events, and an ActoTimer thread (acto/utils/acto_timer.py).  Every call *)
(* makes a queue, a timer and a watch process of its own, and returns      *)
(* without joining them: what they still send belongs to a past call.      *)
(* The workers of fault injection wait by the same function.               *)
(*                                                                         *)
(* Time passes in Ticks of one unit and is kept in counters that stop at   *)
(* the bound they are compared with.                                       *)
(***************************************************************************)
EXTENDS SystemHealth, Sequences

CONSTANTS
  Systems,      \* the systems the operator under test may bring about
  Calls,        \* successive calls are 1 .. Calls (the generations of a trial)
  WaitTime,     \* self.wait_time: the get's timeout
  HardTimeout,  \* hard_timeout (480 s in the code)
  MaxQueue      \* bound of the model: events waiting in one queue

ASSUME ConvergeAssumption ==
  /\ Calls \in Nat \ {0}
  /\ WaitTime \in Nat \ {0}
  /\ HardTimeout \in Nat \ {0}
  /\ MaxQueue \in Nat \ {0}

\* A pod that is ready is not Pending, and one that is available is ready.
ASSUME SystemsAssumption ==
  \A s \in Systems :
    /\ s \in System
    /\ \A k \in Workloads : LET w == s.workload[k] IN
         /\ w.available <= w.ready /\ w.ready <= w.running
         /\ w.ready = w.running => w.started

Call == 1 .. Calls

VARIABLES
  call,     \* the latest call, 0 before the first
  pc,       \* the worker: elsewhere, in queue.get, reading the system, or cleaning up
  queue,    \* combined_event_queue of each call
  timer,    \* ActoTimer of each call
  watcher,  \* watch_process of each call
  result,   \* what each call returned: converged, or timed out
  system,   \* environment: the system under test
  asked,    \* kinds read in the current check of the system's health
  verdict,  \* every kind read so far was healthy
  moved,    \* history: the system or the queue changed during the check
  elapsed,  \* time since a call began, stopped when it returned
  waited,   \* time since the current get began
  quiet     \* time since something was put in the current call's queue

check == <<asked, verdict, moved>>
vars == <<call, pc, queue, timer, watcher, result, system, check, elapsed, waited, quiet>>

Msg == {"event", "timeout"}

Init ==
  /\ call = 0
  /\ pc = "elsewhere"
  /\ queue = [c \in Call |-> << >>]
  /\ timer = [c \in Call |-> "off"]
  /\ watcher = [c \in Call |-> "off"]
  /\ result = [c \in Call |-> "none"]
  /\ system \in Systems
  /\ asked = 0
  /\ verdict = TRUE
  /\ moved = FALSE
  /\ elapsed = [c \in Call |-> 0]
  /\ waited = 0
  /\ quiet = 0

-----------------------------------------------------------------------------
(* The worker. *)

\* Start the timer and the watch process, and enter the loop.
Begin ==
  /\ pc = "elsewhere"
  /\ call < Calls
  /\ call' = call + 1
  /\ pc' = "get"
  /\ timer' = [timer EXCEPT ![call + 1] = "armed"]
  /\ watcher' = [watcher EXCEPT ![call + 1] = "watching"]
  /\ waited' = 0
  /\ quiet' = 0
  /\ UNCHANGED <<queue, result, system, check, elapsed>>

\* Mutant: the time already waited is not forgotten when an event arrives.
KeepWaited == UNCHANGED waited

\* Every get starts with the full timeout.
RearmGet == waited' = 0

GetEvent ==
  /\ pc = "get"
  /\ queue[call] # << >>
  /\ Head(queue[call]) = "event"
  /\ queue' = [queue EXCEPT ![call] = Tail(@)]
  /\ RearmGet
  /\ UNCHANGED <<call, pc, timer, watcher, result, system, check, elapsed, quiet>>

\* converge = False; break
GetTimeout ==
  /\ pc = "get"
  /\ queue[call] # << >>
  /\ Head(queue[call]) = "timeout"
  /\ queue' = [queue EXCEPT ![call] = Tail(@)]
  /\ result' = [result EXCEPT ![call] = "timeout"]
  /\ pc' = "cleanup"
  /\ UNCHANGED <<call, timer, watcher, system, check, elapsed, waited, quiet>>

\* queue.Empty: nothing arrived for WaitTime.
GetEmpty ==
  /\ pc = "get"
  /\ queue[call] = << >>
  /\ waited = WaitTime
  /\ pc' = "read"
  /\ asked' = 0
  /\ verdict' = TRUE
  /\ moved' = FALSE
  /\ UNCHANGED <<call, queue, timer, watcher, result, system, elapsed, waited, quiet>>

\* from_api_client asks for one kind after the other; check_health judges each.
ReadKind ==
  /\ pc = "read"
  /\ asked < Len(ReadOrder)
  /\ asked' = asked + 1
  /\ verdict' = (verdict /\ KindHealthy(ReadOrder[asked + 1], system))
  /\ UNCHANGED <<call, pc, queue, timer, watcher, result, system, moved, elapsed, waited, quiet>>

CheckEnds == pc = "read" /\ asked = Len(ReadOrder)

\* is_healthy: converged, whatever has reached the queue by now; otherwise the
\* worker keeps waiting.
Decide ==
  /\ CheckEnds
  /\ IF verdict
     THEN /\ result' = [result EXCEPT ![call] = "converged"]
          /\ pc' = "cleanup"
     ELSE /\ pc' = "get"
          /\ UNCHANGED result
  /\ waited' = 0
  /\ UNCHANGED <<call, queue, timer, watcher, system, check, elapsed, quiet>>

\* check_health raises KeyError or ValueError: Runner.run catches it above this
\* function, so nothing is closed, cancelled or terminated.
HealthRaises ==
  /\ pc = "read"
  /\ result' = [result EXCEPT ![call] = "raised"]
  /\ pc' = "elsewhere"
  /\ UNCHANGED <<call, queue, timer, watcher, system, check, elapsed, waited, quiet>>

\* event_stream.close(), timer.cancel(), watch_process.terminate(), return.
Cleanup ==
  /\ pc = "cleanup"
  /\ timer' = [timer EXCEPT ![call] = IF @ = "armed" THEN "cancelled" ELSE @]
  /\ watcher' = [watcher EXCEPT ![call] = "terminated"]
  /\ pc' = "elsewhere"
  /\ UNCHANGED <<call, queue, result, system, check, elapsed, waited, quiet>>

-----------------------------------------------------------------------------
(* The timer threads, the watch processes and the system. *)

\* Mutant: one queue object serves all the calls of a runner.
SharedQueue(c) == call

\* The timer holds on to the queue of the call that started it.
QueueOf(c) == c

Put(q, msg) ==
  /\ queue' = [queue EXCEPT ![q] = Append(@, msg)]
  /\ quiet' = IF q = call THEN 0 ELSE quiet
  /\ moved' = (moved \/ q = call)
  /\ UNCHANGED <<asked, verdict>>

\* Mutants: cancel does not wake the thread; the thread waits for cancel only.
DueOnly(c)       == timer[c] = "armed" /\ elapsed[c] = HardTimeout
CancelledOnly(c) == timer[c] = "cancelled"

\* The timer's wait ends: at the interval, or early because cancel sets the event.
TimerWakes(c) ==
  \/ timer[c] = "armed" /\ elapsed[c] = HardTimeout
  \/ timer[c] = "cancelled"

TimerExits(c) == timer' = [timer EXCEPT ![c] = "sent"]

\* Either way ActoTimer.run goes on to put its message.
TimerPuts(c) ==
  /\ TimerWakes(c)
  /\ Put(QueueOf(c), "timeout")
  /\ TimerExits(c)
  /\ UNCHANGED <<call, pc, watcher, result, system, elapsed, waited>>

\* An event of the namespace reaches the watch process, which forwards it.
WatcherPuts(c) ==
  /\ watcher[c] = "watching"
  /\ Len(queue[c]) < MaxQueue
  /\ Put(QueueOf(c), "event")
  /\ UNCHANGED <<call, pc, timer, watcher, result, system, elapsed, waited>>

\* The API server ends the watch: the process returns, the worker is not told.
StreamEnds(c) ==
  /\ watcher[c] = "watching"
  /\ watcher' = [watcher EXCEPT ![c] = "ended"]
  /\ UNCHANGED <<call, pc, queue, timer, result, system, check, elapsed, waited, quiet>>

\* The operator and Kubernetes change the system at any time.
SystemChanges ==
  /\ system' \in Systems \ {system}
  /\ moved' = TRUE
  /\ UNCHANGED <<call, pc, queue, timer, watcher, result, asked, verdict, elapsed, waited, quiet>>

UpTo(bound, n) == IF n < bound THEN n + 1 ELSE bound

Tick ==
  /\ elapsed' = [c \in Call |->
       IF c > call \/ (result[c] # "none" /\ timer[c] # "armed")
       THEN elapsed[c] ELSE UpTo(HardTimeout, elapsed[c])]
  /\ waited' = IF pc = "get" THEN UpTo(WaitTime, waited) ELSE waited
  /\ quiet' = UpTo(WaitTime, quiet)
  /\ UNCHANGED <<call, pc, queue, timer, watcher, result, system, check>>

Next ==
  \/ Begin
  \/ GetEvent
  \/ GetTimeout
  \/ GetEmpty
  \/ ReadKind
  \/ Decide
  \/ HealthRaises
  \/ Cleanup
  \/ \E c \in Call : TimerPuts(c) \/ WatcherPuts(c) \/ StreamEnds(c)
  \/ SystemChanges
  \/ Tick

Spec == Init /\ [][Next]_vars

\* Threads and processes that can run do run, and time passes.  Nothing is
\* assumed of the system: it may never be healthy, and events may never stop.
FairSpec == /\ Spec
            /\ WF_vars(GetEvent \/ GetTimeout \/ GetEmpty \/ ReadKind \/ Decide)
            /\ WF_vars(Cleanup)
            /\ \A c \in Call : WF_vars(TimerPuts(c))
            /\ WF_vars(Tick)

-----------------------------------------------------------------------------
(* Properties. *)

\* The docstring of wait_for_system_converge: the system has converged when
\* there was no event within the wait time (and it is healthy).  However events,
\* gets and failed checks interleave: if nothing moves while the kinds are read,
\* a system reported converged was quiet for WaitTime, and every controller was
\* done with the latest spec.
ConvergedMeansQuiet ==
  [][\A c \in Call :
       (result[c] = "none" /\ result'[c] = "converged" /\ ~moved)
          => /\ quiet = WaitTime
             /\ Finished(system)
             /\ timer[c] \in {"armed", "sent"}]_vars

\* The other way round: a settled system that holds still while it is read is
\* found healthy, so the call does not run into the hard timeout; but for the
\* two cases that check_health never accepts.
SettledConverges ==
  [][(CheckEnds /\ pc' = "get" /\ ~moved) => ~Settled(system) \/ NeverHealthy(system)]_vars

\* The wait and the health oracle, which judges the state collected after it by
\* rules of its own, agree about the counts and conditions of StatefulSets and
\* Deployments: a system that the wait has just accepted, and that held still while
\* it was read, is only reported for what the wait did not ask.
AlarmsOnlyForUnasked ==
  [][\A c \in Call :
       (result[c] = "none" /\ result'[c] = "converged" /\ ~moved)
          => (HealthAlarm(system) => Unasked(system))]_vars

\* Only a call that has lasted HardTimeout reports that the system failed to
\* converge: the message that a cancelled timer of an earlier call still puts
\* never ends a later wait.
NoFalseTimeout == \A c \in Call : result[c] = "timeout" => elapsed[c] = HardTimeout

\* The wait ends whatever the system does: under a flood of events, with a
\* system that is never healthy, and after the watch has ended.
EveryCallReturns == \A c \in Call : (call = c) ~> (result[c] # "none")

\* A call that returned normally leaves no thread and no process behind.
NothingLeftBehind ==
  \A c \in Call : (result[c] \in {"converged", "timeout"})
                    ~> (timer[c] = "sent" /\ watcher[c] = "terminated")

\* wait_for_system_converge returns, and what it started ends with it.
CallsEndCleanly == EveryCallReturns /\ NothingLeftBehind
=============================================================================
