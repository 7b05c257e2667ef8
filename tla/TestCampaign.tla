---------------------------- MODULE TestCampaign ----------------------------
(***************************************************************************)
(* What a worker of Acto promises about the test cases assigned to it,     *)
(* whatever the cluster does: it takes them out of the pending ones one at *)
(* a time, each for good, either finished (it was run and got an answer)   *)
(* or discarded (it could not be set up), until none is pending.           *)
(* TrialRunner implements it; Acto composes several of them.               *)
(***************************************************************************)
CONSTANT Assigned   \* the test cases of the worker

VARIABLES
  pending,    \* not consumed yet
  finished,   \* popped by finish_testcase
  discarded   \* popped by discard_testcase

campaignVars == <<pending, finished, discarded>>

Init == pending = Assigned /\ finished = {} /\ discarded = {}

Consume(t) == t \in pending /\ pending' = pending \ {t}

Finish(t) == /\ Consume(t)
             /\ finished' = finished \cup {t}
             /\ UNCHANGED discarded

Discard(t) == /\ Consume(t)
              /\ discarded' = discarded \cup {t}
              /\ UNCHANGED finished

Next == \E t \in pending : Finish(t) \/ Discard(t)

Safety == Init /\ [][Next]_campaignVars
Spec == Safety /\ WF_campaignVars(Next)
=============================================================================
