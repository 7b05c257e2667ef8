-------------------------------- MODULE MCInputs --------------------------------
(* CRDs for Inputs.tla: the shapes of real ones, with few values of each type. *)
EXTENDS Inputs, TLC

Of(t) == [type |-> <<t>>]
ObjectOf(props) == [type |-> <<"object">>, properties |-> props]
MapOf(value) == [type |-> <<"object">>, additionalProperties |-> value]
ArrayOf(item) == [type |-> <<"array">>, items |-> item, minItems |-> 0, maxItems |-> 2]
Bit == [type |-> <<"integer">>, minimum |-> 0, maximum |-> 1]
Crd(spec) == ObjectOf([spec |-> ObjectOf(spec)])
Seed(spec) == Obj([spec |-> Obj(spec)])

\* Part of the "definitions" of Kubernetes.
Ref(name) == [ref |-> name]
QuantityName == "io.k8s.apimachinery.pkg.api.resource.Quantity"
RequirementsName == "io.k8s.api.core.v1.ResourceRequirements"
TolerationName == "io.k8s.api.core.v1.Toleration"
AffinityName == "io.k8s.api.core.v1.Affinity"
StrategyName == "io.k8s.api.apps.v1.DeploymentStrategy"
PodName == "io.k8s.api.core.v1.PodSpec"
SpecOf(t) == [type |-> t]
Definition(props) == [type |-> "object", properties |-> props]

K8sDefinitions == <<
  <<StrategyName, Definition([type |-> SpecOf("string"), rollingUpdate |-> SpecOf("object")])>>,
  <<AffinityName, Definition([podAffinity |-> SpecOf("object"), podAntiAffinity |-> SpecOf("object")])>>,
  <<RequirementsName, Definition(
     [limits |-> [type |-> "object", additionalProperties |-> Ref(QuantityName)],
      requests |-> [type |-> "object", additionalProperties |-> Ref(QuantityName)]])>>,
  <<TolerationName, Definition([key |-> SpecOf("string"), operator |-> SpecOf("string"),
                            effect |-> SpecOf("string")])>>,
  <<PodName, Definition([resources |-> Ref(RequirementsName), affinity |-> Ref(AffinityName),
     tolerations |-> [type |-> "array", items |-> Ref(TolerationName)]])>>,
  <<QuantityName, SpecOf("string")>> >>

\* How alike a path and a name are, in percent.
K8sSimilarity(path, name) == 100 \div (Len(name) + Len(path))

Case(raw, seed) ==
  [raw |-> raw, examples |-> <<seed>>, under |-> << >>, pruned |-> {}, custom |-> << >>,
   focus |-> {}, seed |-> seed]

\* One property of every primitive type, some with constraints and samples.
Primitives == Case(
  Crd([size  |-> [type |-> <<"integer">>, minimum |-> 1, maximum |-> 3],
       flag  |-> Of("boolean"),
       mode  |-> [type |-> <<"string">>, enum |-> <<Str("a"), Str("b")>>, default |-> Str("a")],
       title |-> Of("string"),
       ports |-> [ArrayOf(Bit) EXCEPT !.maxItems = 3]]),
  Seed([title |-> Str("one"), ports |-> Arr(<<Num(1), Num(4)>>)]))

\* Nested objects that the seed leaves out, free keys, and alternatives.
Nested == Case(
  Crd([users |-> ArrayOf(ObjectOf([admin |-> Of("boolean"), level |-> Bit])),
       labels |-> MapOf(Of("string")),
       port   |-> [anyOf |-> <<[Bit EXCEPT !.maximum = 2], Of("string")>>]]),
  Seed([port |-> Num(1)]))

\* Types of Kubernetes.
AffinityObject == ObjectOf([podAffinity |-> Of("object"), podAntiAffinity |-> Of("object")])
Kubernetes == Case(
  Crd([pod |-> ObjectOf(
         [resources |-> ObjectOf([limits |-> MapOf(Of("string")), requests |-> MapOf(Of("string"))]),
          affinity  |-> AffinityObject,
          tolerations |-> ArrayOf(ObjectOf([key |-> Of("string"), operator |-> Of("string"),
                                            effect |-> Of("string")]))]),
       rules |-> ObjectOf(   \* almost a pod
         [affinity |-> AffinityObject, resources |-> Of("string"),
          tolerations |-> ObjectOf([key |-> Of("string")])]),
       imagePullPolicy |-> Of("string"),
       replicas |-> Of("integer")]),
  Seed([replicas |-> Num(2)]))

\* An encoded configuration that the CR holds as an object.
Configured == [Case(
  Crd([config |-> ObjectOf([verbose |-> Of("boolean")]), name |-> Of("string")]),
  Seed([name |-> Str("n"), config |-> Obj([verbose |-> Bool(TRUE)])])) EXCEPT !.under =
  <<"spec", "config">> :>
     ObjectOf([verbose |-> Of("boolean"),
               level |-> [type |-> <<"string">>, enum |-> <<Str("low"), Str("high")>>]])]

\* What a user's configuration changes: a type that is mapped by hand, a
\* property that is pruned, and a plan for some of the fields; and the rarer
\* shapes: oneOf, numbers, schemas without a type, a list of types, "enabled".
Adapted == [Case(
  Crd([update |-> ObjectOf([type |-> Of("string"), partition |-> Bit]),
       backup |-> ObjectOf([enabled |-> Of("boolean"), ratio |-> Of("number"), every |-> Bit]),
       source |-> [oneOf |-> <<"required" :> {"host"} @@ ObjectOf([host |-> Of("string")]), Of("boolean")>>],
       extra  |-> [description |-> "anything"],
       limit  |-> [type |-> <<"integer", "null">>, maximum |-> 4],
       grace  |-> "x-kubernetes-int-or-string" :> TRUE,
       tags   |-> ArrayOf(Of("string")),
       hidden |-> ObjectOf([secret |-> Of("string")])]),
  Seed([extra |-> Num(7), limit |-> Num(1), tags |-> Arr(<<Str("a"), Str("b")>>)])) EXCEPT
  !.examples = @ \o <<Seed([extra |-> Num(8), backup |-> Obj([every |-> Num(1)])])>>,
  !.custom = <<"spec", "update">> :> StrategyName,
  !.pruned = {<<"spec", "hidden">>},
  !.focus = {<<"spec", "update">>, <<"spec", "backup">>, <<"spec", "source">>,
             <<"spec", "extra">>, <<"spec", "limit">>, <<"spec", "tags">>, <<"spec", "hidden">>}]

\* Where a setup cannot work or a draw is empty: a Boolean that is on by default,
\* an object without properties, a step that takes the draw back to the default, a
\* sample that is full, a range of one value; and where a mutator meets a value it
\* cannot compute with: text held by int-or-string.
Boundary == Case(
  Crd([on    |-> [type |-> <<"boolean">>, default |-> Bool(TRUE)],
       free  |-> Of("object"),
       step  |-> [type |-> <<"integer">>, minimum |-> 0, maximum |-> 4, multipleOf |-> 2],
       below |-> [type |-> <<"integer">>, minimum |-> -1, maximum |-> 2, default |-> Num(2)],
       full  |-> [ArrayOf(Bit) EXCEPT !.maxItems = 2],
       fixed |-> [type |-> <<"integer">>, minimum |-> 3, maximum |-> 3],
       only  |-> [type |-> <<"string">>, enum |-> <<Str("a")>>, default |-> Str("a")],
       share |-> "x-kubernetes-int-or-string" :> TRUE,
       mixed |-> [anyOf |-> <<ArrayOf(Bit), Of("integer")>>]]),
  Seed([share |-> Str("10%"), full |-> Arr(<<Num(1), Num(0)>>), mixed |-> Num(1)]))

\* A configuration that the CR holds as text, and that the seed leaves out.
Encoded == [Case(
  Crd([config |-> Of("string"), size |-> Bit]), Seed([size |-> Num(1)])) EXCEPT !.under =
  <<"spec", "config">> :> ObjectOf([verbose |-> Of("boolean")])]

MCCases == <<Primitives, Nested, Kubernetes, Configured, Adapted, Boundary, Encoded>>
=============================================================================
