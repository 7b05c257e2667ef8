-------------------------------- MODULE MCChactos -------------------------------
(* Trials for Chactos.tla. *)
EXTENDS Chactos

\* A trial with an invalid input and its revert, one that ended in an alarm and
\* has a step without its result, and one of a single step.
MCJobs == <<
  [last |-> 4, bad |-> {2}, missing |-> {}],
  [last |-> 3, bad |-> {3}, missing |-> {1}],
  [last |-> 0, bad |-> {0}, missing |-> {}] >>

\* One more step than digits.
LongTrial == << [last |-> 11, bad |-> {}, missing |-> {}] >>
=============================================================================
