------------------------------ MODULE K8sMatcher ------------------------------
(***************************************************************************)
(* Which schemas of a CRD are types of Kubernetes                          *)
(* (acto/input/k8s_schemas.py).  Definitions is the "definitions" part of  *)
(* the OpenAPI document of Kubernetes, in its order: a sequence of         *)
(* <<name, spec>>.  A spec is a raw schema, or has only "ref".             *)
(***************************************************************************)
EXTENDS Schemas

CONSTANTS
  Definitions,
  Similarity(_, _)   \* SequenceMatcher.ratio of two texts

Substring(a, b) == \E i \in 1 .. Len(b) + 1 - Len(a) : SubSeq(b, i, i + Len(a) - 1) = a
EndsWith(a, b) == Len(b) <= Len(a) /\ SubSeq(a, Len(a) + 1 - Len(b), Len(a)) = b

Unnamed == ""
Specs == [n \in {Definitions[i][1] : i \in DOMAIN Definitions} |->
            (CHOOSE d \in ToSet(Definitions) : d[1] = n)[2]]

-----------------------------------------------------------------------------
(* _generate_k8s_models *)

K8sKind(name, spec) ==
  IF EndsWith(name, "ObjectMeta") THEN "meta"
  ELSE CASE spec["type"] # "object"              -> spec["type"]
         [] Has(spec, "additionalProperties") /\ spec["type"] = "object" -> "map"
         [] Has(spec, "properties") /\ ~Has(spec, "additionalProperties") -> "object"
         [] OTHER                                -> "opaque"

\* Every reference is resolved, so a model holds the models it is made of.
RECURSIVE Resolve(_, _)
Model(name, spec) ==
  LET kind == K8sKind(name, spec)
      props == Opt(spec, "properties", Empty)
      inner == IF kind = "map" THEN <<spec["additionalProperties"]>>
               ELSE IF kind = "array" THEN <<spec["items"]>> ELSE << >> IN
  [kind |-> kind, name |-> name,
   anyInt |-> Opt(spec, "format", "none") = "int-or-string",
   props |-> IF kind \in {"object", "meta"}
             THEN [k \in DOMAIN props |-> Resolve(Unnamed, props[k])] ELSE Empty,
   inner |-> [i \in DOMAIN inner |-> Resolve(Unnamed, inner[i])]]
Resolve(name, spec) ==
  IF Has(spec, "ref") THEN Model(spec["ref"], Specs[spec["ref"]]) ELSE Model(name, spec)

Models == [i \in DOMAIN Definitions |-> Resolve(Definitions[i][1], Definitions[i][2])]
ModelOf(name) == Resolve(name, Specs[name])

\* _generate_schema_name_to_property_name_mapping: the names of the properties
\* that refer to a definition, themselves or in their items.
Refers(spec, name) ==
  \/ Opt(spec, "ref", Unnamed) = name
  \/ Has(spec, "items") /\ Opt(spec["items"], "ref", Unnamed) = name
PropertiesOf(spec) == Opt(spec, "properties", Empty)
Observed(name) ==
  UNION {{k \in DOMAIN PropertiesOf(Specs[n]) : Refers(PropertiesOf(Specs[n])[k], name)} :
           n \in DOMAIN Specs}

-----------------------------------------------------------------------------
(* match *)

RECURSIVE Matches(_, _)

\* All properties, and no others; there is no approximate match.
MatchesObject(m, s) ==
  /\ s.kind = "object" /\ DOMAIN m.props # {}
  /\ Cardinality(DOMAIN m.props) = Cardinality(DOMAIN s.props)
  /\ \A k \in DOMAIN m.props : Has(s.props, k) /\ Matches(m.props[k], s.props[k])

MatchesString(m, s) ==
  \/ s.kind = "string"
  \/ s.kind = "anyof" /\ \E i \in DOMAIN s.options : Matches(m, s.options[i])
  \/ s.kind = "integer" /\ m.anyInt

MatchesMap(m, s) == s.kind = "object" /\ s.extra # << >> /\ Matches(m.inner[1], s.extra[1])
MatchesArray(m, s) == s.kind = "array" /\ Matches(m.inner[1], s.item[1])

\* controller-gen writes some of the properties of ObjectMeta, or none.
MatchesMeta(m, s) ==
  \/ s.kind = "opaque"
  \/ /\ s.kind = "object"
     /\ {"name", "namespace"} \subseteq DOMAIN s.props
     /\ \A k \in DOMAIN s.props : Has(m.props, k) /\ Matches(m.props[k], s.props[k])

\* An integer schema is a number schema too.
MatchesScalar(m, s) == IsKind(s, m.kind)

Matches(m, s) ==
  CASE m.kind = "object"  -> MatchesObject(m, s)
    [] m.kind = "meta"    -> MatchesMeta(m, s)
    [] m.kind = "string"  -> MatchesString(m, s)
    [] m.kind \in {"boolean", "integer", "number"} -> MatchesScalar(m, s)
    [] m.kind = "map"     -> MatchesMap(m, s)
    [] m.kind = "array"   -> MatchesArray(m, s)
    [] m.kind = "opaque"  -> TRUE

\* ObjectMetaSchema is a subclass of KubernetesObjectSchema.
IsObjectModel(m) == m.kind \in {"object", "meta"}

-----------------------------------------------------------------------------
(* _rank_matched_k8s_schemas *)

LastKey(path) == IF Last(path) = "ITEM" THEN path[Len(path) - 1] ELSE Last(path)
TooShort(path) == Len(path) < 2

NameMatched(path, candidates) ==
  {i \in DOMAIN candidates :
     \E n \in Observed(candidates[i].name) : Substring(LastKey(path), n)}

\* The most similar of those whose name matched, or of all; the first of equals,
\* and the first of all if nothing is similar.
Rank(path, candidates) ==
  LET named == NameMatched(path, candidates)
      eligible == IF named = {} THEN DOMAIN candidates ELSE named
      ratio(i) == Similarity(path, candidates[i].name)
      best == {i \in eligible : ratio(i) > 0 /\ \A j \in eligible : ratio(j) <= ratio(i)} IN
  IF best = {} THEN 1 ELSE CHOOSE i \in best : \A j \in best : i <= j

-----------------------------------------------------------------------------
(* The matches of a schema: a match is a pair of a schema and a model.     *)
(* Custom is KUBERNETES_TYPE_MAPPING, from paths to names.                 *)

NamedCandidates(s) == SelectSeq(Models, LAMBDA m : IsObjectModel(m) /\ Matches(m, s))

\* Raised if the best of the candidates is asked for at a path of one key.
RECURSIVE TopLevel(_, _)
TopLevelBelow(s, custom) ==
  CASE s.kind = "object" ->
         LET names == Listed(DOMAIN s.props) IN
         FlattenSeq([i \in DOMAIN names |-> TopLevel(s.props[names[i]], custom)])
    [] s.kind = "array" -> TopLevel(s.item[1], custom)
    [] OTHER -> << >>
TopLevel(s, custom) ==
  LET candidates == NamedCandidates(s) IN
  IF Has(custom, s.path) THEN << <<s, ModelOf(custom[s.path])>> >>
  ELSE IF candidates = << >> THEN TopLevelBelow(s, custom)
  ELSE IF TooShort(s.path) THEN <<Raised>>
  ELSE << <<s, candidates[Rank(s.path, candidates)]>> >>

\* What one round of the worklist adds to it; "raises" if the types differ.
Explored(s, m) ==
  IF s.kind = "object" /\ IsObjectModel(m)
  THEN LET keys == Listed(DOMAIN s.props \cap DOMAIN m.props) IN
       [i \in DOMAIN keys |-> <<s.props[keys[i]], m.props[keys[i]]>>]
  ELSE IF s.kind = "object" /\ m.kind = "map" /\ s.extra # << >>
  THEN << <<s.extra[1], m.inner[1]>> >>
  ELSE IF s.kind = "array" /\ m.kind = "array" THEN << <<s.item[1], m.inner[1]>> >>
  ELSE IF \/ s.kind \in {"object", "array"} /\ m.kind # "opaque" /\ ~IsObjectModel(m)
          \/ s.kind = "array" /\ IsObjectModel(m)
  THEN <<Raised>>
  ELSE << >>

\* The worklist is a stack.  A custom mapping overrides what it meets.
RECURSIVE Expand(_, _, _)
Expand(todo, found, custom) ==
  IF todo = << >> THEN found
  ELSE IF Last(todo) = Raised THEN Append(found, Raised)
  ELSE LET s == Last(todo)[1]
           m == IF Has(custom, s.path) THEN ModelOf(custom[s.path]) ELSE Last(todo)[2] IN
       Expand(Front(todo) \o Explored(s, m), Append(found, <<s, m>>), custom)

FullMatches(s, custom) == Expand(TopLevel(s, custom), << >>, custom)

MatchedPaths(matches) == {matches[i][1].path : i \in DOMAIN matches}
=============================================================================
