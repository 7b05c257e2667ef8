--------------------------- MODULE MCTrialRunner ---------------------------
(***************************************************************************)
(* Small instances of TrialRunner for TLC.  The test cases are those of    *)
(* acto/input/test_generators in miniature: scale one property down and    *)
(* then up (k8s-scaleDownUp, with a Store), shrink it (needs a setup at    *)
(* the boundary), toggle either of two that a constraint ties together (0  *)
(* and 1 are their Booleans), and a test case whose setup never works.     *)
(***************************************************************************)
EXTENDS TrialRunner

CONSTANTS downUp, shrink, toggle, expose, unfit, replicas, tls, plain

MCFields == {replicas, tls, plain}
MCValues == 0 .. 2
MCSeed   == [f \in MCFields |-> CASE f = replicas -> 1 [] f = tls -> 0 [] OTHER -> 1]

MCFieldOf == [t \in Tests |-> CASE t \in {downUp, shrink} -> replicas
                             [] t = expose -> plain
                             [] OTHER -> tls]

MCAccepts == [t \in Tests |->
  CASE t = downUp    -> {}
    [] t = shrink    -> {2}
    [] t \in {toggle, expose} -> {0, 1}
    [] t = unfit     -> {2}]

\* x * 2 + 1, at most the largest number of replicas of the instance.
MCMutateTo == [t \in Tests |->
  CASE t = downUp -> [v \in MCValues |-> IF v = 0 THEN 1 ELSE 2]
    [] t = shrink -> [v \in MCValues |-> IF v > 0 THEN v - 1 ELSE v]
    [] OTHER      -> [v \in MCValues |-> 1 - (v % 2)]]

MCSetupTo == [t \in Tests |->
  CASE t = downUp -> [v \in MCValues |-> v \div 2]
    [] t = shrink -> [v \in MCValues |-> 2]
    [] OTHER      -> [v \in MCValues |-> 0]]

MCNegate      == [v \in {0, 1} |-> 1 - v]
MCConstraints == << [left |-> tls, right |-> plain] >>

\* Groups of at most three test cases stand for the chunks of ten.  The last test
\* case of the plan is one that is dropped without a run.
MCPartition == << <<downUp, shrink, toggle>>, <<expose, unfit>> >>
=============================================================================
