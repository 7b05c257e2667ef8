---------------------------- MODULE PrimitiveTests ----------------------------
(***************************************************************************)
(* Test cases (acto/input/testcase.py) and those that every schema of a    *)
(* type gets (acto/input/test_generators/primitive.py).  A test case is a  *)
(* record: the functions it is made of are named by tuples, interpreted    *)
(* against the schema their closure holds.  A precondition answers "yes",  *)
(* "no" or "raises"; a mutator or a setup gives the set of its outcomes.   *)
(***************************************************************************)
EXTENDS ValueTree

TestCase(name, when, to, setup, s, flags) ==
  [name |-> name, when |-> <<when>>, to |-> to, setup |-> setup, schema |-> s,
   store |-> FALSE, flags |-> flags]

\* The constructor takes "primitive", and does not hand it on.
EnumTestCase(case, s, flags) ==
  TestCase("enum", <<"always">>, <<"is", case>>, <<"assert">>, s, {})

\* Mutant: it does.
EnumTestCaseFlagged(case, s, flags) ==
  TestCase("enum", <<"always">>, <<"is", case>>, <<"assert">>, s, flags)

AddPrecondition(t, when) == [t EXCEPT !.when = Append(@, when)]

EnumTests(s, flags) == [i \in DOMAIN s.enum |-> EnumTestCase(s.enum[i], s, flags)]

Primitive == {"primitive"}
PrimitiveTest(kind, f, s) ==
  TestCase(kind \o "-" \o f, <<kind, f>>, <<kind, f>>, <<kind, f>>, s, Primitive)

-----------------------------------------------------------------------------
(* The generators *)

ArrayTests(s) ==
  <<PrimitiveTest("array", "deletion", s)>> \o
  IF s.enum # << >> THEN EnumTests(s, Primitive)
  ELSE [i \in 1 .. 3 |-> PrimitiveTest("array", <<"push", "pop", "empty">>[i], s)]

BooleanTests(s) ==
  <<PrimitiveTest("boolean", "deletion", s)>> \o
  IF s.enum # << >> THEN EnumTests(s, Primitive)
  ELSE <<PrimitiveTest("boolean", "toggle-off", s), PrimitiveTest("boolean", "toggle-on", s)>>

IntegerTests(s) ==
  <<PrimitiveTest("integer", "deletion", s)>> \o
  IF s.enum # << >> THEN EnumTests(s, {}) ELSE <<PrimitiveTest("integer", "change", s)>>

\* list(schema.examples): a set has some order.
ObjectTests(s) ==
  LET list == Listed(s.examples) IN
  <<PrimitiveTest("object", "deletion", s)>> \o
  IF s.enum # << >> THEN EnumTests(s, {})
  ELSE <<PrimitiveTest("object", "empty", s)>> \o
       IF Len(list) > 1
       THEN <<TestCase("object-change", <<"some">>, <<"is", list[2]>>, <<"is", list[1]>>,
                       s, Primitive)>>
       ELSE << >>

OpaqueTests(s) ==
  LET list == Listed(s.examples)
      Change(name, v) == TestCase(name, <<"some">>, <<"is", v>>, <<"is", list[1]>>, s, Primitive) IN
  IF list = << >> THEN << >>
  ELSE <<Change("opaque-deletion", None)>> \o
       IF Len(list) > 1 THEN <<Change("opaque-change", list[2])>> ELSE << >>

StringTests(s) ==
  <<PrimitiveTest("string", "deletion", s)>> \o
  IF s.enum # << >> THEN EnumTests(s, Primitive)
  ELSE <<PrimitiveTest("string", "change", s), PrimitiveTest("string", "empty", s)>>

\* resolve_testcases: numbers, oneOf and under-specified schemas under anyOf
\* are not implemented.
RECURSIVE AnyOfTests(_)
Resolvable(s) == s.kind \notin {"number", "oneof", "under", "unknown"}
ResolveTests(s) ==
  CASE s.kind = "anyof"   -> AnyOfTests(s)
    [] s.kind = "array"   -> ArrayTests(s)
    [] s.kind = "boolean" -> BooleanTests(s)
    [] s.kind = "integer" -> IntegerTests(s)
    [] s.kind = "object"  -> ObjectTests(s)
    [] s.kind = "opaque"  -> << >>
    [] s.kind = "string"  -> StringTests(s)

\* Of anyOf and oneOf alike: the tests of every possibility, for values that
\* are valid under it.
AnyOfTests(s) ==
  IF s.enum # << >> THEN EnumTests(s, Primitive)
  ELSE FlattenSeq([i \in DOMAIN s.options |->
         LET tests == ResolveTests(s.options[i]) IN
         [j \in DOMAIN tests |-> AddPrecondition(tests[j], <<"valid", s.options[i].raw>>)]])

RECURSIVE AnyOfRaises(_)
AnyOfRaises(s) ==
  /\ s.kind \in {"anyof", "oneof"} /\ s.enum = << >>
  /\ \E i \in DOMAIN s.options : ~Resolvable(s.options[i]) \/ AnyOfRaises(s.options[i])

-----------------------------------------------------------------------------
(* Preconditions *)

Answer(b) == IF b THEN "yes" ELSE "no"

\* len(v)
HasSize(v) == Tag(v) \in {"arr", "str", "obj"}
Size(v) == IF Tag(v) = "obj" THEN Cardinality(DOMAIN Raw(v)) ELSE Len(Raw(v))

\* Mutant: what is empty already may be deleted.
DeletableIfSet(s, v) == v \notin {None, s.default}

Deletable(s, v) == v \notin {None, s.default, EmptyValue(s)}

ArrayPre(f, s, v) ==
  CASE f = "deletion" -> Answer(Deletable(s, v))
    [] f = "empty"    -> Answer(v # Arr(<< >>))
    [] f \in {"push", "pop"} /\ IsNone(v) -> "no"
    [] f \in {"push", "pop"} /\ ~HasSize(v) /\ ~IsNone(v) -> "raises"
    [] f = "push" /\ HasSize(v) -> Answer(Size(v) < s.hi)
    [] f = "pop" /\ HasSize(v)  -> Answer(Size(v) > s.lo /\ Size(v) # 0)

BooleanPre(f, s, v) ==
  CASE f = "deletion"   -> Answer(Deletable(s, v))
    [] f = "toggle-on"  -> Answer(Bool(FALSE) \in {v, IF IsNone(v) THEN s.default ELSE v})
    [] f = "toggle-off" -> Answer(Bool(TRUE) \in {v, IF IsNone(v) THEN s.default ELSE v})

\* Integers, objects and strings.
PlainPre(f, s, v) ==
  CASE f = "deletion" -> Answer(Deletable(s, v))
    [] f = "change"   -> Answer(~IsNone(v))
    [] f = "empty"    -> Answer(v # EmptyValue(s))

-----------------------------------------------------------------------------
(* Mutators *)

ArrayTo(f, s, v) ==
  CASE f \in {"deletion", "empty"} -> {Arr(<< >>)}
    [] f = "push" -> {IF x = Raised THEN Raised ELSE Arr(Append(Raw(v), x)) :
                        x \in Gen(s.item[1], None, FALSE, NoSize)}
    [] f = "pop"  -> {Arr(Front(Raw(v)))}

BooleanTo(f) == {Bool(f = "toggle-on")}   \* a deletion sets the empty value, False

\* A value that is no number, as int-or-string allows, cannot be added to.
IntegerTo(f, v) ==
  IF f = "deletion" THEN {Num(0)}
  ELSE CASE Tag(v) = "int"  -> {Num(Raw(v) + 2)}
         [] Tag(v) = "bool" -> {Num(IF Raw(v) THEN 3 ELSE 2)}
         [] OTHER           -> {Raised}

ObjectTo(f) == {Obj(Empty)}

\* The draw of a pattern, and ACTOKEY, may be what the value was.
StringTo(f, s, v) ==
  CASE f \in {"deletion", "empty"} -> {Str("")}
    [] f = "change" -> IF s.examples # {} THEN Gen(s, v, FALSE, NoSize)
                       ELSE IF s.pattern # {} THEN {Str(t) : t \in s.pattern}
                       ELSE {Str("ACTOKEY")}

-----------------------------------------------------------------------------
(* Setups *)

\* An example that is not the default, or else a draw that is not.
NotDefault(s, size) ==
  LET others == Without(s.examples, s.default) IN
  IF others # {} THEN others
  ELSE Gen(s, s.default, FALSE, IF s.examples = {} THEN size ELSE NoSize)

ArraySetup(f, s, v) ==
  LET long == {x \in s.examples : Len(Raw(x)) > 1} IN
  CASE f = "deletion" -> NotDefault(s, 1)
    [] f = "empty" -> Gen(s, None, FALSE, 1)
    [] f \in {"push", "pop"} /\ long # {} -> long
    [] f = "push" /\ long = {} ->
         IF IsNone(v) THEN Gen(s, None, TRUE, NoSize) ELSE Gen(s, None, FALSE, s.lo)
    [] f = "pop" /\ long = {} -> Gen(s, None, FALSE, IF IsNone(v) THEN s.lo + 1 ELSE s.hi)

BooleanSetup(f, s) ==
  CASE f = "deletion" -> NotDefault(s, NoSize)
    [] OTHER -> {Bool(f = "toggle-off")}

IntegerSetup(f, s) ==
  IF f = "deletion" THEN Gen(s, s.default, FALSE, NoSize) ELSE {Num(2)}

ObjectSetup(f, s) ==
  IF f = "deletion" THEN NotDefault(s, NoSize) ELSE Gen(s, s.default, FALSE, NoSize)

StringSetup(f, s) ==
  CASE f = "deletion" -> NotDefault(s, NoSize)
    [] f = "change"   -> Gen(s, None, FALSE, NoSize)
    [] f = "empty"    -> Gen(s, s.default, FALSE, NoSize)
=============================================================================
