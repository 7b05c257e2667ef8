------------------------------- MODULE Schemas -------------------------------
(***************************************************************************)
(* The schema tree Acto builds from the OpenAPI schema of a CRD            *)
(* (acto/schema), and the values it draws from it.                         *)
(*                                                                         *)
(* A value is tagged with its JSON type.  Text is data: a string is an     *)
(* atom and a pattern the set of strings that match it.  A schema keyword  *)
(* is present if it is in the DOMAIN of the raw schema; "type" is always   *)
(* the list of types.  Whatever may be random is the SET of the outcomes,  *)
(* in which Raised stands for an exception.                                *)
(***************************************************************************)
EXTENDS Integers, Sequences, FiniteSets, SequencesExt

None == <<"none">>
Raised == <<"raised">>
Num(n) == <<"int", n>>
Str(s) == <<"str", s>>
Bool(b) == <<"bool", b>>
Arr(q) == <<"arr", q>>
Obj(f) == <<"obj", f>>
Member(v) == <<"enum", v>>   \* a member of a Python Enum whose value is v

Tag(v) == v[1]
Raw(v) == v[2]
IsNone(v) == Tag(v) = "none"
\* bool is a subclass of int.
IsInt(v) == Tag(v) \in {"int", "bool"}
Empty == << >>

Has(r, k) == k \in DOMAIN r
Opt(r, k, d) == IF Has(r, k) THEN r[k] ELSE d
Except(f, keys) == [k \in DOMAIN f \ keys |-> f[k]]
Over(f, g) == [k \in DOMAIN f \cup DOMAIN g |-> Opt(f, k, Opt(g, k, None))]
With(f, k, x) == [j \in DOMAIN f \cup {k} |-> IF j = k THEN x ELSE f[j]]

\* The order of the keys of a dictionary, whatever it is.
Listed(S) == FoldSet(LAMBDA k, q : Append(q, k), << >>, S)

Choice(S) == IF S = {} THEN {Raised} ELSE S
Without(S, x) == S \ {x}   \* exclude_value; no value is None

\* Every function that takes one outcome per key; an exception takes over.
Combined(f, Wrap(_)) ==
  LET Extended(k, gs) == {With(g, k, x) : g \in gs, x \in Without(f[k], Raised)}
      some == FoldSet(Extended, {Empty}, DOMAIN f) IN
  {Wrap(g) : g \in some} \cup (IF \E k \in DOMAIN f : Raised \in f[k] THEN {Raised} ELSE {})

-----------------------------------------------------------------------------
(* The constructors *)

Base(kind, raw, path) ==
  [kind |-> kind, path |-> path, raw |-> raw,
   default |-> Opt(raw, "default", None), enum |-> Opt(raw, "enum", << >>),
   examples |-> {}, attributes |-> {}, marks |-> {}, used |-> {},
   lo |-> 0, hi |-> 0, step |-> 0, pattern |-> {},
   props |-> Empty, extra |-> << >>, required |-> {}, item |-> << >>,
   options |-> << >>]

DefaultMaximum == 5
DefaultMaxItems == 5

NumberSchema(kind, raw, path) ==
  [Base(kind, raw, path) EXCEPT
     !.lo = Opt(raw, "minimum", 0), !.hi = Opt(raw, "maximum", DefaultMaximum),
     !.step = Opt(raw, "multipleOf", 0)]

\* The default of a schema that has none is the zero value.
IntegerSchema(raw, path) ==
  [NumberSchema("integer", raw, path) EXCEPT !.default = IF IsNone(@) THEN Num(0) ELSE @]

BooleanSchema(raw, path) ==
  [Base("boolean", raw, path) EXCEPT !.default = IF IsNone(@) THEN Bool(FALSE) ELSE @]

StringSchema(raw, path) ==
  [Base("string", raw, path) EXCEPT !.pattern = Opt(raw, "pattern", {})]

RECURSIVE Extract(_, _), Updated(_, _, _)

\* "required" is read only if there are properties of some kind.
ObjectSchema(raw, path) ==
  LET props == Opt(raw, "properties", Empty) IN
  [Base("object", raw, path) EXCEPT
     !.props = [k \in DOMAIN props |-> Extract(Append(path, k), props[k])],
     !.extra = IF Has(raw, "additionalProperties")
               THEN <<Extract(Append(path, "additional_properties"),
                              raw["additionalProperties"])>> ELSE << >>,
     !.required = IF Has(raw, "properties") \/ Has(raw, "additionalProperties")
                  THEN Opt(raw, "required", {}) ELSE {}]

ArraySchema(raw, path) ==
  [Base("array", raw, path) EXCEPT
     !.item = <<Extract(Append(path, "ITEM"), raw["items"])>>,
     !.lo = Opt(raw, "minItems", 0), !.hi = Opt(raw, "maxItems", DefaultMaxItems)]

Digit(i) == <<"0", "1", "2", "3">>[i]

AnyOfSchema(raw, path) ==
  [Base("anyof", raw, path) EXCEPT !.options =
     [i \in DOMAIN raw["anyOf"] |->
        Extract(Append(path, Digit(i)), Over(raw["anyOf"][i], Except(raw, {"anyOf"})))]]

\* __recursive_update: what is an object on both sides is merged.
Updated(inProperties, left, right) ==
  [k \in DOMAIN left \cup DOMAIN right |->
     IF k \notin DOMAIN right THEN left[k]
     ELSE IF k \notin DOMAIN left THEN right[k]
     ELSE IF inProperties \/ k \in {"items", "additionalProperties"}
     THEN Updated(FALSE, left[k], right[k])
     ELSE IF k = "properties" THEN Updated(TRUE, left[k], right[k])
     ELSE right[k]]

OneOfSchema(raw, path) ==
  [Base("oneof", raw, path) EXCEPT !.options =
     [i \in DOMAIN raw["oneOf"] |->
        Extract(path, Updated(FALSE, Except(raw, {"oneOf"}), raw["oneOf"][i]))]]

OpaqueSchema(raw, path) == Base("opaque", raw, path)

Untyped(raw, path) ==
  IF Has(raw, "properties") THEN ObjectSchema(raw, path)
  ELSE IF Opt(raw, "x-kubernetes-int-or-string", FALSE) THEN IntegerSchema(raw, path)
  ELSE OpaqueSchema(raw, path)

\* "null" is dropped from a list of types; two types that are left are unknown.
Extract(path, raw) ==
  IF Has(raw, "anyOf") THEN AnyOfSchema(raw, path)
  ELSE IF Has(raw, "oneOf") THEN OneOfSchema(raw, path)
  ELSE IF ~Has(raw, "type") THEN Untyped(raw, path)
  ELSE LET t == Remove(raw["type"], "null") IN
       CASE t = <<"string">>  -> StringSchema(raw, path)
         [] t = <<"number">>  -> NumberSchema("number", raw, path)
         [] t = <<"integer">> -> IntegerSchema(raw, path)
         [] t = <<"boolean">> -> BooleanSchema(raw, path)
         [] t = <<"array">>   -> ArraySchema(raw, path)
         [] t = <<"object">>  -> ObjectSchema(raw, path)
         [] OTHER             -> Base("unknown", raw, path)

-----------------------------------------------------------------------------
(* What the kinds have in common *)

\* A schema that generates with its underlying schema and encodes the value.
UnderSpecified(original, underlying) ==
  [original EXCEPT !.kind = "under", !.options = <<underlying>>]

\* IntegerSchema is a subclass of NumberSchema.
IsKind(s, kind) == s.kind = kind \/ (kind = "number" /\ s.kind = "integer")

EmptyValue(s) ==
  CASE s.kind \in {"integer", "number"} -> Num(0)
    [] s.kind = "boolean" -> Bool(FALSE)
    [] s.kind = "string"  -> Str("")
    [] s.kind = "array"   -> Arr(<< >>)
    [] s.kind = "object"  -> Obj(Empty)
    [] OTHER              -> None

PropertySchema(s, key) ==
  IF Has(s.props, key) THEN s.props[key]
  ELSE IF s.extra # << >> THEN s.extra[1]
  ELSE OpaqueSchema(Empty, Append(s.path, key))

\* __getitem__, which raises KeyError for a key there is no schema for.
RECURSIVE SchemaAt(_, _), WithSchemaAt(_, _, _)
SchemaAt(s, path) ==
  IF path = << >> THEN s
  ELSE IF s.kind = "array" THEN SchemaAt(s.item[1], Tail(path))
  ELSE IF Has(s.props, Head(path)) \/ s.extra # << >>
       THEN SchemaAt(PropertySchema(s, Head(path)), Tail(path))
  ELSE Base("unknown", Empty, path)

\* __setitem__ of the last schema but one on the path.
WithSchemaAt(s, path, new) ==
  LET k == Head(path)
      sub == IF Len(path) = 1 THEN new
             ELSE WithSchemaAt(SchemaAt(s, <<k>>), Tail(path), new) IN
  IF s.kind = "array" THEN [s EXCEPT !.item = <<sub>>]
  ELSE IF Len(path) = 1 \/ Has(s.props, k) THEN [s EXCEPT !.props = With(@, k, sub)]
  ELSE [s EXCEPT !.extra = <<sub>>]

-----------------------------------------------------------------------------
(* get_all_schemas: what is kept, pruned as over-specified, as copied over *)

\* An abandoned design may mark a schema; the fields in use survive then, and
\* the last of a copied-over schema if none is in use.
Keeps(s, normal) ==
  [i \in DOMAIN normal |->
     \/ s.marks \cap {"copied_over", "over_specified"} = {}
     \/ normal[i].path \in s.used
     \/ s.used = {} /\ i = Len(normal) /\ ("copied_over" \in s.marks \/ s.kind = "array")]

Chosen(q, keep) == LET kept == SelectSeq([i \in DOMAIN q |-> <<q[i], keep[i]>>],
                                         LAMBDA e : e[2])
                   IN [i \in DOMAIN kept |-> kept[i][1]]

Node(s, normal, over, copied) ==
  LET keep == Keeps(s, normal)
      out == Chosen(normal, [i \in DOMAIN normal |-> ~keep[i]]) IN
  [normal |-> Append(Chosen(normal, keep), s),
   over   |-> IF "copied_over" \in s.marks THEN over ELSE over \o out,
   copied |-> IF "copied_over" \in s.marks THEN copied \o out ELSE copied]

RECURSIVE AllSchemas(_)
AllSchemas(s) ==
  IF "problematic" \in s.marks \/ s.kind = "opaque"
  THEN [normal |-> << >>, over |-> << >>, copied |-> << >>]
  ELSE IF s.kind = "array"
  THEN LET sub == AllSchemas(s.item[1]) IN Node(s, sub.normal, sub.over, sub.copied)
  ELSE IF s.kind = "object"
  THEN LET names == Listed(DOMAIN s.props)
           subs == [i \in DOMAIN names |-> AllSchemas(s.props[names[i]])] IN
       \* The schema of additional properties counts, the schemas in it do not.
       Node(s, FlattenSeq([i \in DOMAIN subs |-> subs[i].normal]) \o s.extra,
            FlattenSeq([i \in DOMAIN subs |-> subs[i].over]),
            FlattenSeq([i \in DOMAIN subs |-> subs[i].copied]))
  ELSE [normal |-> <<s>>, over |-> << >>, copied |-> << >>]

-----------------------------------------------------------------------------
(* validate: the keywords of JSON Schema that the samples use *)

HasType(v, t) ==
  CASE t = "integer" -> Tag(v) = "int"
    [] t = "number"  -> Tag(v) = "int"
    [] t = "string"  -> Tag(v) \in {"str", "text"}
    [] t = "boolean" -> Tag(v) = "bool"
    [] t = "array"   -> Tag(v) = "arr"
    [] t = "object"  -> Tag(v) = "obj"
    [] t = "null"    -> Tag(v) = "none"

RECURSIVE Valid(_, _)
ValidNumber(n, raw) ==
  /\ n >= Opt(raw, "minimum", n) /\ n <= Opt(raw, "maximum", n)
  /\ n % Opt(raw, "multipleOf", 1) = 0
ValidArray(q, raw) ==
  /\ Len(q) >= Opt(raw, "minItems", 0) /\ Len(q) <= Opt(raw, "maxItems", Len(q))
  /\ Has(raw, "items") => \A i \in DOMAIN q : Valid(q[i], raw["items"])
ValidObject(f, raw) ==
  LET props == Opt(raw, "properties", Empty) IN
  /\ Opt(raw, "required", {}) \subseteq DOMAIN f
  /\ \A k \in DOMAIN f \cap DOMAIN props : Valid(f[k], props[k])
  /\ Has(raw, "additionalProperties") =>
       \A k \in DOMAIN f \ DOMAIN props : Valid(f[k], raw["additionalProperties"])
Valid(v, raw) ==
  /\ Has(raw, "type") => \E t \in ToSet(raw["type"]) : HasType(v, t)
  /\ Has(raw, "enum") => v \in ToSet(raw["enum"])
  /\ Tag(v) = "int" => ValidNumber(Raw(v), raw)
  /\ Tag(v) = "str" /\ Has(raw, "pattern") => Raw(v) \in raw["pattern"]
  /\ Tag(v) = "arr" => ValidArray(Raw(v), raw)
  /\ Tag(v) = "obj" => ValidObject(Raw(v), raw)
  /\ Has(raw, "anyOf") => \E i \in DOMAIN raw["anyOf"] : Valid(v, raw["anyOf"][i])
  /\ Has(raw, "oneOf") =>
       Cardinality({i \in DOMAIN raw["oneOf"] : Valid(v, raw["oneOf"][i])}) = 1

-----------------------------------------------------------------------------
(* load_examples *)

\* A number takes no null and a string nothing but strings: TypeError.
RECURSIVE LoadRaises(_, _), LoadExamples(_, _)
LoadRaises(s, x) ==
  CASE s.kind = "number" -> ~IsInt(x)
    [] s.kind = "string" -> /\ Tag(x) \notin {"none", "str", "text"}
                            /\ ~Opt(s.raw, "x-kubernetes-preserve-unknown-fields", FALSE)
    [] s.kind = "array"  -> \/ Tag(x) \notin {"none", "arr"}
                            \/ Tag(x) = "arr" /\ \E i \in DOMAIN Raw(x) :
                                 LoadRaises(s.item[1], Raw(x)[i])
    [] s.kind = "object" -> \/ Tag(x) \notin {"none", "obj"}
                            \/ Tag(x) = "obj" /\ \E k \in DOMAIN Raw(x) \cap DOMAIN s.props :
                                 LoadRaises(s.props[k], Raw(x)[k])
    [] s.kind \in {"anyof", "oneof"} -> \E i \in DOMAIN s.options :
         Valid(x, s.options[i].raw) /\ LoadRaises(s.options[i], x)
    [] OTHER -> FALSE

\* Loaded into the schema and into what it is made of; booleans need none.
LoadExamples(s, x) ==
  LET seen == [s EXCEPT !.examples = @ \cup {x}] IN
  CASE s.kind = "integer" -> IF IsInt(x) THEN seen ELSE s
    [] s.kind = "boolean" -> s
    [] s.kind \in {"number", "string"} -> IF Tag(x) \in {"str", "text", "int", "bool"} THEN seen ELSE s
    [] s.kind = "opaque" -> IF IsNone(x) THEN s ELSE seen
    [] s.kind = "array" /\ ~IsNone(x) ->
         [seen EXCEPT !.item = <<FoldLeft(LoadExamples, @[1], Raw(x))>>]
    [] s.kind = "object" /\ ~IsNone(x) ->
         [seen EXCEPT !.props = [k \in DOMAIN @ |->
            IF Has(Raw(x), k) THEN LoadExamples(@[k], Raw(x)[k]) ELSE @[k]]]
    [] s.kind \in {"anyof", "oneof"} ->
         [s EXCEPT !.options = [i \in DOMAIN @ |->
            IF Valid(x, @[i].raw) THEN LoadExamples(@[i], x) ELSE @[i]]]
    [] OTHER -> s

-----------------------------------------------------------------------------
(* gen(exclude_value, minimum, size) *)

FromEnum(s, out) == Choice(Without(ToSet(s.enum), out))

\* The range begins one above the minimum.  multipleOf ignores exclude_value.
GenInteger(s, out) ==
  IF s.enum # << >> THEN FromEnum(s, out)
  ELSE IF s.step # 0
  THEN Choice({Num(n) : n \in {m \in s.lo .. s.hi : (m - s.lo) % s.step = 0}})
  ELSE Choice(Without({Num(n) : n \in s.lo + 1 .. s.hi}, out))

\* uniform takes its bounds in either order; a draw is represented by the
\* integers between them.
GenNumber(s, out) ==
  IF s.enum # << >> THEN FromEnum(s, out)
  ELSE {Num(n) : n \in s.lo .. s.hi \cup s.hi .. s.lo}

GenBoolean(s, out) ==
  IF IsNone(out) THEN {Bool(TRUE), Bool(FALSE)}
  ELSE {Bool(out \notin {Bool(TRUE)})}

\* A pattern's draw is not compared with exclude_value.
GenString(s, out, least) ==
  LET others == Without(s.examples, out) IN
  IF s.enum # << >> THEN FromEnum(s, out)
  ELSE IF others # {} THEN others
  ELSE IF s.pattern # {} THEN {Str(t) : t \in s.pattern}
  ELSE IF least THEN {Str("random")}
  ELSE {Str("ACTOSTRING")}

RECURSIVE Gen(_, _, _, _)
NoSize == -1

\* The examples are cut: their first num elements are dropped.
GenArray(s, out, least, size) ==
  LET sizes == IF size # NoSize THEN {size} ELSE IF least THEN {s.lo} ELSE s.lo .. s.hi
      Longer(n) == {x \in Without(s.examples, out) : Len(Raw(x)) > n}
      Cut(n) == {Arr(SubSeq(Raw(x), n + 1, Len(Raw(x)))) : x \in Longer(n)}
      Items(n) == Combined([i \in 1 .. n |-> Gen(s.item[1], None, least, NoSize)], Arr) IN
  IF sizes = {} THEN {Raised}
  ELSE IF s.enum # << >> THEN FromEnum(s, out)
  ELSE UNION {IF Longer(n) # {} THEN Cut(n) ELSE Items(n) : n \in sizes}

\* One optional property in ten is null; the minimal object has the required ones.
GenObject(s, out, least) ==
  LET others == Without(s.examples, out)
      names == IF least THEN DOMAIN s.props \cap s.required ELSE DOMAIN s.props
      Draw(k) == Gen(s.props[k], None, least, NoSize)
                   \cup (IF least \/ k \in s.required THEN {} ELSE {None})
      Enabled(f) == Obj(IF Has(s.props, "enabled") THEN With(f, "enabled", Bool(TRUE)) ELSE f)
  IN
  IF s.enum # << >> THEN FromEnum(s, out)
  ELSE IF others # {} THEN others
  ELSE IF DOMAIN s.props # {} THEN Combined([k \in names |-> Draw(k)], Enabled)
  ELSE IF s.extra = << >> THEN {Obj(Empty)}
  ELSE Combined([k \in {"ACTOKEY"} |-> Gen(s.extra[1], None, least, NoSize)], Obj)

Gen(s, out, least, size) ==
  CASE s.kind = "integer" -> GenInteger(s, out)
    [] s.kind = "number"  -> GenNumber(s, out)
    [] s.kind = "boolean" -> GenBoolean(s, out)
    [] s.kind = "string"  -> GenString(s, out, least)
    [] s.kind = "array"   -> GenArray(s, out, least, size)
    [] s.kind = "object"  -> GenObject(s, out, least)
    [] s.kind \in {"anyof", "oneof"} ->
         UNION {Gen(s.options[i], out, least, NoSize) : i \in DOMAIN s.options}
    [] s.kind = "under"   -> Gen(s.options[1], out, least, size)
    [] OTHER -> {None}
=============================================================================
