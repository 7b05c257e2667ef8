--------------------------------- MODULE Inputs ---------------------------------
(***************************************************************************)
(* The CR under test: the test cases planned for a CRD, run and set up one *)
(* after the other on the CR of the last snapshot                          *)
(* (acto/engine.py, run_trial; TrialRunner.tla has the whole of its        *)
(* control, with CRs as atoms).  Here a CR is a value, and which test case *)
(* is next is left open: the order of the plan is TestPartition's matter.  *)
(***************************************************************************)
EXTENDS TestGenerators

CONSTANTS
  Cases,            \* CRDs: records [raw, examples, under, pruned, custom, focus, seed]
  MaxGenerations    \* num_mutation

Planned(c, root) == [root |-> root, plan |-> PlanEntries(c, root)]
InputModel(c) == Planned(c, RootOf(c))

VARIABLES
  case,         \* the CRD
  input_model,  \* its schema and its planned tests, made before the first trial
  cr,           \* curr_input_with_schema
  snapshot,     \* the input_cr of the last snapshot
  test,         \* the planned test that is being run, or 0
  asked,        \* the tests whose Store was set
  phase,        \* "choose", "setup", "judge_setup", "run", "judge" or "dead"
  generation

vars == <<case, input_model, cr, snapshot, test, asked, phase, generation>>

\* input_model is a function of case: a VIEW without it loses nothing.
View == <<case, cr, snapshot, test, asked, phase, generation>>

Root == input_model.root
Plan == input_model.plan
Entry == Plan[test]

Init ==
  /\ case \in DOMAIN Cases /\ input_model = InputModel(Cases[case])
  /\ cr = Cases[case].seed /\ snapshot = cr
  /\ test = 0 /\ asked = {} /\ generation = 0
  /\ phase = IF Plan = <<Raised>> THEN "dead" ELSE "choose"

\* The precondition of a test with a Store records that it was asked.
Ask(i) == asked' = IF Plan[i].test.store THEN asked \cup {i} ELSE asked

\* The answer for test i in the CR c; it raises if the CR does not fit the schema.
AnswerIn(c, i) ==
  LET v == ValueAt(c, Root, Plan[i].path) IN
  IF ~Attaches(c, Root) \/ v = Raised THEN "raises"
  ELSE PreconditionOf(Plan[i].test, v, i \in asked)

\* Attach the schema to the last snapshot's CR, and ask for the precondition.
\* An exception, here and below, ends the thread.
Choose(i) ==
  /\ phase = "choose" /\ generation < MaxGenerations
  /\ test' = i
  /\ Ask(i)
  /\ cr' = snapshot
  /\ phase' = [yes |-> "run", no |-> "setup", raises |-> "dead"][AnswerIn(snapshot, i)]
  /\ UNCHANGED <<case, input_model, snapshot, generation>>

Send(outcomes, next) ==
  \E x \in outcomes :
    /\ cr' = IF x = Raised THEN cr ELSE x
    /\ phase' = IF x = Raised THEN "dead" ELSE next
    /\ UNCHANGED <<case, input_model, snapshot, test, asked, generation>>

SetUp ==
  /\ phase = "setup"
  /\ Send(SetupOutcomes(Root, cr, Entry.path, Entry.test), "check_setup")

\* The precondition again: a setup that does not work discards the test.
SetupWorks ==
  /\ phase = "check_setup" /\ AnswerIn(cr, test) # "no"
  /\ Ask(test)
  /\ phase' = IF AnswerIn(cr, test) = "yes" THEN "judge_setup" ELSE "dead"
  /\ UNCHANGED <<case, input_model, cr, snapshot, test, generation>>

DropTest ==
  /\ phase = "check_setup" /\ AnswerIn(cr, test) = "no"
  /\ Ask(test)
  /\ phase' = "choose" /\ test' = 0
  /\ UNCHANGED <<case, input_model, cr, snapshot, generation>>

Run ==
  /\ phase = "run"
  /\ Send(RunOutcomes(Root, cr, Entry.path, Entry.test), "judge")

\* What run_and_check is answered.
Accepted ==
  /\ phase \in {"judge_setup", "judge"}
  /\ snapshot' = cr
  /\ generation' = generation + 1
  /\ phase' = IF phase = "judge_setup" /\ cr # snapshot THEN "run" ELSE "choose"
  /\ test' = IF phase' = "run" THEN test ELSE 0
  /\ UNCHANGED <<case, input_model, cr, asked>>

\* The input is invalid: revert to the snapshot before.
Invalid ==
  /\ phase \in {"judge_setup", "judge"}
  /\ cr' = snapshot
  /\ generation' = generation + 2
  /\ phase' = "choose" /\ test' = 0
  /\ UNCHANGED <<case, input_model, snapshot, asked>>

\* An alarm, or the connection is refused: a new trial starts from the seed.
TrialEnds ==
  /\ \/ phase \in {"judge_setup", "judge"}
     \/ phase = "choose" /\ generation >= MaxGenerations
  /\ cr' = Cases[case].seed /\ snapshot' = Cases[case].seed
  /\ generation' = 0
  /\ phase' = "choose" /\ test' = 0
  /\ UNCHANGED <<case, input_model, asked>>

Next ==
  \/ \E i \in DOMAIN Plan : Choose(i)
  \/ SetUp \/ SetupWorks \/ DropTest \/ Run
  \/ Accepted \/ Invalid \/ TrialEnds

Spec == Init /\ [][Next]_vars

-----------------------------------------------------------------------------
(* Properties *)

RECURSIVE IsJson(_)
IsJson(v) ==
  CASE Tag(v) = "enum" -> FALSE
    [] Tag(v) = "arr"  -> \A i \in DOMAIN Raw(v) : IsJson(Raw(v)[i])
    [] Tag(v) = "obj"  -> \A k \in DOMAIN Raw(v) : IsJson(Raw(v)[k])
    [] OTHER           -> TRUE

\* The CR is always a document that can be written to a file (no member of a
\* Python Enum is left in it) and that its own schema can be attached to again.
TypeOK ==
  /\ phase \in {"choose", "setup", "check_setup", "judge_setup", "run", "judge", "dead"}
  /\ test \in 0 .. Len(Plan)
  /\ IsJson(cr) /\ Attaches(cr, Root)

\* What has no regard to the value before: a literal, and string-change, which
\* may put the text that was there.
Regardless(t) == t.to[1] = "is" \/ t.name = "string-change"

\* The mutator of a primitive test never leaves what the precondition let through
\* as it was, whether that was found, set up, or left by other tests, at a path
\* that may run through sections that are gone: it would be judged, and counted
\* as run, although the operator was given no change.
TestsMakeAChange ==
  [][(phase = "run" /\ phase' = "judge" /\ "primitive" \in Entry.test.flags
       /\ ~Regardless(Entry.test)) =>
        ValueAt(cr', Root, Entry.path) # ValueAt(cr, Root, Entry.path)]_vars

\* The fields of a value with what they hold; an array's first index is ITEM.
RECURSIVE Fields(_)
Key(v, k) == IF Tag(v) = "arr" THEN IF k = 1 THEN "ITEM" ELSE Digit(k) ELSE k
Fields(v) ==
  {<< << >>, v>>} \cup
  IF Tag(v) \notin {"arr", "obj"} THEN {}
  ELSE UNION {{<< <<Key(v, k)>> \o f[1], f[2]>> : f \in Fields(Raw(v)[k])} : k \in DOMAIN Raw(v)}

Apart(p, q) == ~IsPrefix(p, q) /\ ~IsPrefix(q, p)
Untouched(e) == {f \in Fields(cr) : Apart(f[1], e.path)}

\* A test case and its setup change the field at their path and what is below
\* it, and create what leads to it: every other field the CR has keeps what it
\* holds.
OnlyThePathChanges ==
  [][(phase \in {"setup", "run"} /\ phase' # "dead") =>
        Untouched(Entry) \subseteq Fields(cr')]_vars
=============================================================================
