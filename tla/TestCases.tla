------------------------------ MODULE TestCases ------------------------------
(***************************************************************************)
(* What running a test case does to a value: test_precondition, the        *)
(* mutator and the setup (acto/input/testcase.py), for the functions of    *)
(* the primitive tests, of the tests of Kubernetes types                   *)
(* (acto/input/test_generators) and of the tests inside of an encoded      *)
(* configuration (test_generators/configuration.py).                       *)
(***************************************************************************)
EXTENDS PrimitiveTests

\* An under-specified property of type string holds a document as text.
Text(v) == <<"text", v>>
IsText(s) == Opt(s.raw, "type", << >>) = <<"string">>
Decode(s, v) ==
  IF ~IsText(s) THEN v ELSE IF Tag(v) = "text" THEN Raw(v) ELSE Raised
Encode(s, v) == IF IsText(s) /\ ~IsNone(v) THEN Text(v) ELSE v
Underlying(s) == s.options[1]

RECURSIVE Pre(_, _, _, _), To(_, _, _), Setup(_, _, _)

\* test_precondition stops at the first "no".
PreconditionOf(t, v, asked) ==
  LET answers == [i \in DOMAIN t.when |-> Pre(t.when[i], t.schema, v, asked)]
      stops == {i \in DOMAIN answers : answers[i] # "yes"} IN
  IF stops = {} THEN "yes" ELSE answers[Smallest(stops)]

ConfigPre(path, t, s, v, asked) ==
  LET doc == Decode(s, v)
      now == IF doc = Raised \/ ~Attaches(doc, Underlying(s)) THEN Raised
             ELSE ValueAt(doc, Underlying(s), path) IN
  IF now = Raised THEN "raises" ELSE PreconditionOf(t, now, asked)

\* canonicalize_quantity returns a text that is no quantity as it is, so only
\* INVALID itself is refused.
\* "asked": the Store of the test case remembers that it was asked before.
Pre(f, s, v, asked) ==
  CASE f[1] = "always"   -> "yes"
    [] f[1] = "some"     -> Answer(~IsNone(v))
    [] f[1] = "not"      -> Answer(v # f[2])
    [] f[1] = "nonempty" -> IF IsInt(v) /\ v \notin {Num(0), Bool(FALSE)} THEN "raises"
                            ELSE Answer(HasSize(v) /\ Size(v) > 0)
    [] f[1] = "quantity" -> Answer(v \notin {None, Str("INVALID")})
    [] f[1] = "again"    -> Answer(asked)
    [] f[1] = "valid"    -> Answer(Valid(v, f[2]))
    [] f[1] = "config"   -> ConfigPre(f[2], f[3], s, v, asked)
    [] f[1] = "array"    -> ArrayPre(f[2], s, v)
    [] f[1] = "boolean"  -> BooleanPre(f[2], s, v)
    [] f[1] \in {"integer", "object", "string"} -> PlainPre(f[2], s, v)

\* Quantities are numbers of the smallest unit; other text stays what it is.
Doubled(v) == IF Tag(v) = "int" THEN Num(2 * Raw(v)) ELSE v
Halved(v) == IF Tag(v) = "int" THEN Num(Raw(v) \div 2) ELSE v

\* x * 2 + 1 and x // 2 of replicas_tests; a text cannot be computed with.
TwicePlusOne == [n \in Int |-> 2 * n + 1]
Half == [n \in Int |-> n \div 2]
Computed(v, default, op) ==
  IF IsNone(v) THEN {Num(default)} ELSE IF Tag(v) = "int" THEN {Num(op[Raw(v)])} ELSE {Raised}

\* The document is decoded, changed at the path, and encoded again.
ConfigNew(path, new, s, v) ==
  LET doc == Decode(s, v) IN
  IF doc = Raised \/ ~Attaches(doc, Underlying(s)) THEN {Raised}
  ELSE UNION {IF x = Raised THEN {Raised}
              ELSE {IF y = Raised THEN Raised ELSE Encode(s, y) :
                      y \in Written(doc, Underlying(s), path, x)} : x \in new}

DocumentAt(path, s, v) ==
  LET doc == Decode(s, v) IN
  IF doc = Raised THEN Raised ELSE ValueAt(doc, Underlying(s), path)

To(f, s, v) ==
  CASE f[1] = "is"       -> {f[2]}
    [] f[1] = "swap"     -> {IF v = f[2] THEN f[3] ELSE f[2]}
    [] f[1] = "front"    -> {Arr(Front(Raw(v)))}
    [] f[1] = "double"   -> {Doubled(v)}
    [] f[1] = "halve"    -> {Halved(v)}
    [] f[1] = "up"       -> Computed(v, f[2], TwicePlusOne)
    [] f[1] = "down"     -> Computed(v, f[2], Half)
    [] f[1] = "config"   -> ConfigNew(f[2], To(f[3].to, f[3].schema, DocumentAt(f[2], s, v)), s, v)
    [] f[1] = "array"    -> ArrayTo(f[2], s, v)
    [] f[1] = "boolean"  -> BooleanTo(f[2])
    [] f[1] = "integer"  -> IntegerTo(f[2], v)
    [] f[1] = "object"   -> ObjectTo(f[2])
    [] f[1] = "string"   -> StringTo(f[2], s, v)

\* "assert": enum_setup is not expected to be called.
Setup(f, s, v) ==
  CASE f[1] = "is"       -> {f[2]}
    [] f[1] = "same"     -> {v}
    [] f[1] = "assert"   -> {Raised}
    [] f[1] = "up"       -> Computed(v, f[2], TwicePlusOne)
    [] f[1] = "down"     -> Computed(v, f[2], Half)
    [] f[1] = "config"   -> ConfigNew(f[2], Setup(f[3].setup, f[3].schema, DocumentAt(f[2], s, v)), s, v)
    [] f[1] = "array"    -> ArraySetup(f[2], s, v)
    [] f[1] = "boolean"  -> BooleanSetup(f[2], s)
    [] f[1] = "integer"  -> IntegerSetup(f[2], s)
    [] f[1] = "object"   -> ObjectSetup(f[2], s)
    [] f[1] = "string"   -> StringSetup(f[2], s)

-----------------------------------------------------------------------------
(* apply_testcase; its outcomes are values of the whole CR *)

RunOutcomes(root, cr, path, t) ==
  UNION {Written(cr, root, path, x) : x \in To(t.to, t.schema, ValueAt(cr, root, path))}

SetupOutcomes(root, cr, path, t) ==
  UNION {Written(cr, root, path, x) : x \in Setup(t.setup, t.schema, ValueAt(cr, root, path))}
=============================================================================
