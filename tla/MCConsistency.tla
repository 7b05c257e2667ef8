----------------------------- MODULE MCConsistency -----------------------------
(* A CRD for Consistency.tla with the shapes of real ones. *)
EXTENDS Consistency

Of(t) == [type |-> <<t>>]
ObjectSpec(props) == [type |-> <<"object">>, properties |-> props]
QuantitySpec == [anyOf |-> <<Of("integer"), Of("string")>>]
MapSpec(value) == [type |-> <<"object">>, additionalProperties |-> value]
ListSpec(item) == [type |-> <<"array">>, items |-> item]

\* Fields of no known type, a section that can be switched off, a container, a
\* section of a known type that can be switched off, and a map.
Sections ==
  [replicas  |-> Of("integer"),
   backup    |-> ObjectSpec([enabled |-> Of("boolean"), image |-> Of("string"), size |-> Of("integer")]),
   container |-> ObjectSpec([args |-> ListSpec(Of("string")), image |-> Of("string"),
                             resources |-> ObjectSpec([limits |-> MapSpec(QuantitySpec)])]),
   tls       |-> ObjectSpec([enabled |-> Of("boolean"), secretName |-> Of("string")])]

MCRawCrd == ObjectSpec([apiVersion |-> Of("string"), spec |-> ObjectSpec(Sections)])

\* The section of a known type is part of another that can be switched off.
MCNestedCrd == ObjectSpec([apiVersion |-> Of("string"), spec |-> ObjectSpec(
  [replicas |-> Of("integer"),
   backup   |-> ObjectSpec([enabled |-> Of("boolean"), image |-> Of("string"), tls |-> Sections.tls])])])

\* As the API server lists them.
MCPropertyOrder == <<"apiVersion", "args", "backup", "container", "enabled", "image", "limits", "replicas",
  "resources", "secretName", "size", "spec", "tls">>

MCSeedCR == Obj([spec |-> Obj(
  [replicas  |-> Num(2),
   backup    |-> Obj([enabled |-> Bool(FALSE), size |-> Num(1)]),
   container |-> Obj([args |-> Arr(<<Str("-v")>>), image |-> Str("db:1"),
                      resources |-> Obj([limits |-> Obj([cpu |-> Str("1")])])]),
   tls       |-> Obj([enabled |-> Bool(TRUE), secretName |-> Str("old")])])])

MCNestedSeed == Obj([spec |-> Obj(
  [replicas |-> Num(2),
   backup   |-> Obj([enabled |-> Bool(TRUE), image |-> Str("db:1"),
                     tls |-> Obj([enabled |-> Bool(TRUE), secretName |-> Str("old")])])])])

To(path, values) == {[path |-> <<"spec">> \o path, value |-> v] : v \in values}

MCChanges ==
  To(<<"replicas">>, {Num(2), Num(3)})
  \cup To(<<"backup">>, {NotPresent})
  \cup To(<<"backup", "enabled">>, {Bool(TRUE), Bool(FALSE)})
  \cup To(<<"backup", "size">>, {Num(3)})
  \cup To(<<"container", "image">>, {Str("db:2"), None})
  \cup To(<<"container", "args">>, {Arr(<< >>), Arr(<<Str("-v"), Str("-q")>>)})
  \cup To(<<"container", "resources", "limits", "cpu">>, {Str("1"), Str("1000m"), Str("2")})
  \cup To(<<"tls">>, {NotPresent})
  \cup To(<<"tls", "enabled">>, {Bool(TRUE), Bool(FALSE)})
  \cup To(<<"tls", "secretName">>, {Str("old"), Str("new")})

MCNestedChanges ==
  To(<<"backup", "enabled">>, {Bool(TRUE), Bool(FALSE)})
  \cup To(<<"backup", "tls", "enabled">>, {Bool(TRUE), Bool(FALSE)})
  \cup To(<<"backup", "tls", "secretName">>, {Str("old"), Str("new")})

Set(name, rest) == <<"stateful_set", name, "spec">> \o rest
Pod(name, rest) == Set(name, <<"template", "spec", "containers", "0">> \o rest)
Owner(name) == <<"secret", name, "metadata", "owner_references", "0", "block_owner_deletion">>

MCShows ==
  {[from |-> <<"spec">> \o m[1], to |-> m[2]] : m \in {
     <<<<"replicas">>, Set("db", <<"replicas">>)>>,
     <<<<"backup", "size">>, Set("backup", <<"replicas">>)>>,
     <<<<"backup", "image">>, Pod("backup", <<"image">>)>>,
     <<<<"container", "args">>, Pod("db", <<"args">>)>>,
     <<<<"container", "image">>, Pod("db", <<"image">>)>>,
     <<<<"container", "resources">>, Pod("db", <<"resources">>)>>,
     <<<<"tls", "enabled">>, Owner("tls")>>,
     <<<<"tls", "secretName">>, <<"secret", "tls", "secret_name">>>>,
     <<<<"backup", "tls", "enabled">>, Owner("tls")>>,
     <<<<"backup", "tls", "secretName">>, <<"secret", "tls", "secret_name">>>>}}

\* Two of them have as text what the CR asks for as a part.
MCWrongValues == {Num(4), Str("db:22"), Str("12.000")}
MCMessages == {[invalid |-> TRUE, mentions |-> {}, values |-> {}],
               [invalid |-> FALSE, mentions |-> {"size", "cpu"}, values |-> {Str("new"), Str("2"), Num(3)}],
               [invalid |-> FALSE, mentions |-> {}, values |-> {}]}
MCParts ==
  {<<Num(1), Str("db:1")>>, <<Num(1), Str("1.000")>>, <<Num(2), Str("db:2")>>, <<Num(2), Str("2.000")>>,
   <<Num(2), Str("db:22")>>, <<Num(1), Str("12.000")>>, <<Num(2), Str("12.000")>>,
   <<Str("db:2"), Str("db:22")>>, <<Str("2.000"), Str("12.000")>>}
MCQuantity == ("1" :> "1.000" @@ "1000m" :> "1.000" @@ "2" :> "2.000")
MCSnake == ("secretName" :> "secret_name")
MCGenericFields == {"name", "key", "operator", "effect", "claimName", "host", "type"}
MCTrueTypes == {<<"spec", "container">>, <<"spec", "tls">>}
NoPaths == {}
=============================================================================
