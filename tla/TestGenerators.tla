---------------------------- MODULE TestGenerators ----------------------------
(***************************************************************************)
(* From the CRD to the test cases of a run: the registry of the test       *)
(* generators and get_testcases (acto/input/test_generators/generator.py), *)
(* the tests of an encoded configuration (test_generators/configuration.py)*)
(* and the parts of InputModel that put them together: __init__,           *)
(* apply_custom_field and generate_test_plan (acto/input/input.py).        *)
(***************************************************************************)
EXTENDS SemanticTests, K8sMatcher

PRIMITIVE == 0
SEMANTIC == 1
CUSTOM == 2

\* A primitive generator is registered for the class it is annotated with.
PrimitiveKinds == <<"anyof", "oneof", "array", "boolean", "integer", "object", "opaque", "string">>

Ranked(g, priority) == [g EXCEPT !.tests = <<priority, @>>]

\* TEST_GENERATORS, in the order of registration.
Registry ==
  <<Ranked(Generator(NoName, NoName, "under", AnyClass, << >>), CUSTOM)>>
  \o [i \in DOMAIN SemanticGenerators |-> Ranked(SemanticGenerators[i], SEMANTIC)]
  \o [i \in DOMAIN PrimitiveKinds |->
        Ranked(Generator(NoName, NoName, PrimitiveKinds[i], AnyClass, << >>), PRIMITIVE)]
Priority(g) == g.tests[1]

MatchPropertyName(g, s) == g.property = NoName \/ (s.path # << >> /\ g.property = Last(s.path))
MatchPropertyType(g, s) == g.type = NoName \/ IsKind(s, g.type)
MatchK8sName(g, model) == g.k8s = NoName \/ (model # << >> /\ EndsWith(model[1], g.k8s))

Match(g, s, model) ==
  MatchPropertyName(g, s) /\ MatchPropertyType(g, s) /\ MatchK8sName(g, model)

\* The name of the model of a path, if it has one.
NamedModel(matches, path) ==
  LET named == {i \in DOMAIN matches : /\ matches[i][1].path = path
                                       /\ matches[i][2].name # Unnamed} IN
  IF named = {} THEN << >> ELSE <<matches[CHOOSE i \in named : \A j \in named : j <= i][2].name>>

Candidates(s, matches) ==
  SelectSeq(Registry, LAMBDA g : Match(g, s, NamedModel(matches, s.path)))

\* The first of the highest priority: sort is stable.
HighestOf(all) ==
  LET tops == {i \in DOMAIN all : \A j \in DOMAIN all : Priority(all[j]) <= Priority(all[i])} IN
  IF all = << >> THEN << >> ELSE <<all[Smallest(tops)]>>
Selected(s, matches) == HighestOf(Candidates(s, matches))

\* validate_call: TypeError unless the schema is of the annotated class.
Accepts(g, s) == g.takes = AnyClass \/ IsKind(s, g.takes)

FilledIn(s, tests) == [i \in DOMAIN tests |-> [tests[i] EXCEPT !.schema = s]]

-----------------------------------------------------------------------------
(* get_testcases: a sequence of entries, one for each schema with tests *)

RECURSIVE TestcasesOf(_, _)

\* The enum and boolean tests of the underlying schema, wrapped.
Wrapped(s, entry, t) ==
  LET f == <<"config", entry.path, t>> IN
  [t EXCEPT !.when = <<f>>, !.to = f, !.setup = f, !.schema = s,
            !.name = "configuration-" \o @]
IsEnumTest(t) == t.setup = <<"assert">>
ConfigurationTests(s) ==
  LET entries == TestcasesOf(Underlying(s), << >>)
      Kept(e) == SelectSeq(e.tests, LAMBDA t :
                   IsEnumTest(t) \/ SchemaAt(Underlying(s), e.path).kind = "boolean") IN
  FlattenSeq([i \in DOMAIN entries |->
    [j \in DOMAIN Kept(entries[i]) |-> Wrapped(s, entries[i], Kept(entries[i])[j])]])

TestsBy(g, s) ==
  CASE Priority(g) = CUSTOM    -> ConfigurationTests(s)
    [] Priority(g) = SEMANTIC  -> FilledIn(s, g.tests[2])
    [] Priority(g) = PRIMITIVE -> IF g.type = "oneof" THEN AnyOfTests(s) ELSE ResolveTests(s)

\* The entry of a schema whose generator raises.
Failed == [path |-> Raised, tests |-> << >>, priority |-> CUSTOM, k8s |-> FALSE]

TestedBy(g, s) ==
  IF g = << >> THEN << >>
  ELSE IF ~Accepts(g[1], s) \/ AnyOfRaises(s) THEN <<Failed>>
  ELSE << [path |-> s.path, tests |-> TestsBy(g[1], s), priority |-> Priority(g[1]),
           k8s |-> FALSE] >>
Here(s, matches) == TestedBy(Selected(s, matches), s)

Below(s, matches) ==
  LET names == Listed(DOMAIN s.props) IN
  CASE s.kind = "array"  -> TestcasesOf(s.item[1], matches)
    [] s.kind = "object" ->
         FlattenSeq([i \in DOMAIN names |-> TestcasesOf(s.props[names[i]], matches)])
           \o (IF s.extra = << >> THEN << >> ELSE TestcasesOf(s.extra[1], matches))
    [] OTHER -> << >>

\* A matched schema, or one that is to be pruned, flags all that was collected.
Flagged(s, matches) ==
  \/ s.path \in MatchedPaths(matches)
  \/ s.marks # {}
  \/ "Prune" \in s.attributes

FlagAll(entries, flagged) ==
  [i \in DOMAIN entries |-> [entries[i] EXCEPT !.k8s = @ \/ flagged]]

TestcasesOf(s, matches) == FlagAll(Here(s, matches) \o Below(s, matches), Flagged(s, matches))

-----------------------------------------------------------------------------
(* InputModel *)

\* tag_property_attribute and apply_custom_field: every schema that
\* get_all_schemas lists below the property gets the attribute.
RECURSIVE Tagged(_, _, _)
Tagged(s, paths, attribute) ==
  [s EXCEPT !.attributes = IF s.path \in paths THEN @ \cup {attribute} ELSE @,
            !.props = [k \in DOMAIN @ |-> Tagged(@[k], paths, attribute)],
            !.extra = [i \in DOMAIN @ |-> Tagged(@[i], paths, attribute)],
            !.item  = [i \in DOMAIN @ |-> Tagged(@[i], paths, attribute)]]
ListedPaths(s) ==
  LET all == AllSchemas(s)
      Paths(q) == {q[i].path : i \in DOMAIN q} IN
  Paths(all.normal) \cup Paths(all.over) \cup Paths(all.copied)
ApplyCustomField(root, pruned) ==
  Tagged(root, UNION {ListedPaths(SchemaAt(root, p)) : p \in pruned}, "Prune")

\* CUSTOM_PROPERTY_SCHEMA_MAPPING: an under-specified schema over the property.
Customised(root, under) ==
  FoldSet(LAMBDA p, r : WithSchemaAt(r, p, UnderSpecified(SchemaAt(r, p), Extract(<< >>, under[p]))),
          root, DOMAIN under)

\* The test cases of a CRD: loaded, customised, matched, collected below the
\* mount, which is the property spec.
Mount == <<"spec">>
RootOf(c) ==
  ApplyCustomField(Customised(FoldLeft(LoadExamples, Extract(<< >>, c.raw), c.examples), c.under),
                   c.pruned)

\* Index 0, and ACTOKEY for any key; "ITEM" stands for the index.
ConcretePath(path) ==
  [i \in DOMAIN path |-> IF path[i] = "additional_properties" THEN "ACTOKEY" ELSE path[i]]

\* generate_test_plan: primitive tests of Kubernetes schemas are left out.
Focused(c, path) == c.focus = {} \/ \E f \in c.focus : IsPrefix(f, path)
Unpruned(entry) ==
  SelectSeq(entry.tests, LAMBDA t : ~(entry.k8s /\ "primitive" \in t.flags))
EntriesFor(entry, tests) ==
  [j \in DOMAIN tests |-> [path |-> ConcretePath(entry.path), test |-> tests[j],
                           priority |-> entry.priority, k8s |-> entry.k8s]]
PlanOf(c, collected) ==
  IF \E i \in DOMAIN collected : collected[i].path = Raised THEN <<Raised>>
  ELSE FlattenSeq([i \in DOMAIN collected |->
         IF Focused(c, collected[i].path) THEN EntriesFor(collected[i], Unpruned(collected[i]))
         ELSE << >>])
CollectedPlan(c, root, matches) ==
  IF Raised \in ToSet(matches) THEN <<Raised>>
  ELSE PlanOf(c, TestcasesOf(SchemaAt(root, Mount), matches))
PlanEntries(c, root) == CollectedPlan(c, root, FullMatches(SchemaAt(root, Mount), c.custom))
=============================================================================
