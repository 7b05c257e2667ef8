------------------------------ MODULE Consistency ------------------------------
(***************************************************************************)
(* The consistency oracle (acto/checker/impl/consistency.py) on an         *)
(* operator that may obey, ignore or bungle each change of its CR.  A CR   *)
(* is a value of Schemas.tla; the system state maps the path of every leaf *)
(* of every resource to its value.                                         *)
(*                                                                         *)
(* Text is data: which texts the comparison takes for parts of which,      *)
(* which names are generic, and what a message mentions, are constants.    *)
(* The conditions that the static analysis may add are left out.           *)
(***************************************************************************)
EXTENDS KnownSchemas, FiniteSetsExt

CONSTANTS
  RawCrd,        \* openAPIV3Schema
  PropertyOrder, \* the names of properties, in the order the CRD lists them
  SeedCR,
  Changes,       \* what a test case does: records [path, value]
  Shows,         \* records [from, to]: what the operator shows of the CR, and where
  WrongValues,   \* values it may show instead
  Messages,      \* conditions it may report: records [invalid, mentions, values]
  Parts,         \* pairs of values: as text, the first is a part of, or configured by, the second
  Quantity,      \* canonicalize_quantity, on the texts it changes
  Snake,         \* the names that are spelt differently in the system state
  GenericFields,
  MappedPaths, PatchPaths,   \* paths with these property attributes
  MaxGenerations,            \* bound: snapshots of a trial after the first
  TrueTypes      \* the paths of the CRD that really have a Kubernetes type

Crd == Extract(<< >>, RawCrd)

-----------------------------------------------------------------------------
(* Deltas: acto/snapshot.py and acto/common.py *)

Delta(category, path, prev, curr) ==
  [category |-> category, path |-> path, prev |-> prev, curr |-> curr]

NotPresent == <<"not present">>
IsNoneOrNotPresent(v) == v \in {None, NotPresent}

\* What has no leaves is one, but for a list that is a value of a dictionary.
RECURSIVE Flatten(_, _)
Flatten(v, path) ==
  IF Tag(v) = "obj" /\ v # Obj(Empty)
  THEN UNION {Flatten(Raw(v)[k], Append(path, k)) : k \in DOMAIN Raw(v)}
  ELSE IF Tag(v) = "arr"
  THEN UNION {LET at == Append(path, Digit(i)) IN
              IF Raw(v)[i] = Arr(<< >>) THEN {<<at, Raw(v)[i]>>} ELSE Flatten(Raw(v)[i], at)
              : i \in DOMAIN Raw(v)}
  ELSE {<<path, v>>}

Leaves(v) == IF v = Obj(Empty) THEN {} ELSE {l \in Flatten(v, << >>) : ~IsNoneOrNotPresent(l[2])}

\* A whole dictionary or list that comes or goes is flattened.
PostprocessDiff(category, path, prev, curr) ==
  IF Tag(prev) \in {"obj", "arr"} /\ IsNoneOrNotPresent(curr)
  THEN {Delta(category, path \o l[1], l[2], curr) : l \in Leaves(prev)}
  ELSE IF Tag(curr) \in {"obj", "arr"} /\ IsNoneOrNotPresent(prev)
  THEN {Delta(category, path \o l[1], prev, l[2]) : l \in Leaves(curr)}
  ELSE {Delta(category, path, prev, curr)}

RECURSIVE DeepDiff(_, _, _)
DeepDiff(prev, curr, path) ==
  IF prev = curr THEN {}
  ELSE IF Tag(prev) = Tag(curr) /\ Tag(prev) \in {"obj", "arr"} THEN
    LET old == Raw(prev) new == Raw(curr)
        item == IF Tag(prev) = "obj" THEN "dictionary_item" ELSE "iterable_item"
        At(k) == Append(path, IF Tag(prev) = "obj" THEN k ELSE Digit(k)) IN
    UNION ({DeepDiff(old[k], new[k], At(k)) : k \in DOMAIN old \cap DOMAIN new}
      \cup {PostprocessDiff(<<item, "removed">>, At(k), old[k], NotPresent) : k \in DOMAIN old \ DOMAIN new}
      \cup {PostprocessDiff(<<item, "added">>, At(k), NotPresent, new[k]) : k \in DOMAIN new \ DOMAIN old})
  ELSE PostprocessDiff(<<"values", "changed">>, path, prev, curr)

\* The first element of a leaf's path is the resource.
SystemDelta(prev, curr) ==
  {Delta(<<p[1]>>, Tail(p), Opt(prev, p, NotPresent), Opt(curr, p, NotPresent)) :
     p \in {q \in DOMAIN prev \cup DOMAIN curr : Opt(prev, q, NotPresent) # Opt(curr, q, NotPresent)}}

-----------------------------------------------------------------------------
(* Comparison of values: acto/checker/impl/state_compare.py *)

Canonical(v) == IF Tag(v) = "str" THEN Str(Opt(Quantity, Raw(v), Raw(v))) ELSE v

IsNullish(v) == IsNoneOrNotPresent(v) \/ v \in {Str(""), Num(0), Bool(FALSE), Arr(<< >>), Obj(Empty)}

RECURSIVE Decimal(_)
Decimal(n) == IF n < 10 THEN <<n>> ELSE Append(Decimal(n \div 10), n % 10)

InputIsSubstringOfOutput(in, out) ==
  \/ in = Str("")
  \/ /\ Tag(in) = "int" /\ Tag(out) = "int"
     /\ \E i, j \in 1 .. Len(Decimal(Raw(out))) : SubSeq(Decimal(Raw(out)), i, j) = Decimal(Raw(in))
  \/ <<in, out>> \in Parts

EqualValues(in, out) == in = out \/ InputIsSubstringOfOutput(in, out)

EqualAtOneEnd(d, e) ==
  EqualValues(Canonical(d.prev), Canonical(e.prev)) \/ EqualValues(Canonical(d.curr), Canonical(e.curr))
EqualsAfterTransform(d, e) ==
  LET inPrev == Canonical(d.prev) inCurr == Canonical(d.curr)
      outPrev == Canonical(e.prev) outCurr == Canonical(e.curr) IN
  \/ EqualValues(inPrev, outPrev) /\ EqualValues(inCurr, outCurr)
  \/ (IsNullish(inPrev) \/ IsNullish(outPrev)) /\ EqualValues(inCurr, outCurr)
  \/ EqualValues(inPrev, outPrev) /\ (IsNullish(inCurr) \/ IsNullish(outCurr))

-----------------------------------------------------------------------------
(* Fields that depend on an "enabled" *)

\* update_dependency: the objects with an "enabled", in the order of the search.
RECURSIVE Dependers(_)
Dependers(s) ==
  LET Below(k) ==
        LET p == s.props[k] IN
        (IF k = "enabled" THEN <<s.path>> ELSE << >>)
        \o (IF p.kind = "array" THEN Dependers(p.item[1]) ELSE Dependers(p)) IN
  IF s.kind # "object" THEN << >>
  ELSE FlattenSeq([i \in DOMAIN PropertyOrder |->
         IF Has(s.props, PropertyOrder[i]) THEN Below(PropertyOrder[i]) ELSE << >>])

FieldConditions == Dependers(Crd)

\* encode_dependency: a condition is added to the entries there are at that time.
Conditions(i) == {FieldConditions[j] : j \in {n \in i .. Len(FieldConditions) :
                                          IsPrefix(FieldConditions[n], FieldConditions[i])}}

\* The entry of the path itself, or the last one found of those above it.
NearestParent(path) ==
  LET above == {i \in DOMAIN FieldConditions :
                  FieldConditions[i] # << >> /\ IsPrefix(FieldConditions[i], path)}
      exact == {i \in DOMAIN FieldConditions : FieldConditions[i] = path} IN
  IF exact # {} THEN exact ELSE IF above # {} THEN {Max(above)} ELSE {}

RECURSIVE Lookup(_, _)
Lookup(v, path) ==
  IF path = << >> THEN v
  ELSE IF Tag(v) = "obj" /\ Has(Raw(v), Head(path)) THEN Lookup(Raw(v)[Head(path)], Tail(path))
  ELSE IF Tag(v) = "arr" /\ \E i \in DOMAIN Raw(v) : Digit(i) = Head(path)
  THEN Lookup(Raw(v)[CHOOSE i \in DOMAIN Raw(v) : Digit(i) = Head(path)], Tail(path))
  ELSE NotPresent

IsOn(cr, object) == Lookup(cr, Append(object, "enabled")) = Bool(TRUE)

NoDependencies(cr, path) == TRUE
DependenciesSatisfied(cr, path) ==
  \A i \in NearestParent(path) : \A object \in Conditions(i) : IsOn(cr, object)

-----------------------------------------------------------------------------
(* Matching fields *)

Canon(name) == IF name \in {"0", "1", "2", "3"} THEN "ITEM" ELSE Opt(Snake, name, name)

CommonSuffix(p, q) ==
  LET same(n) == \A i \in 0 .. n - 1 : Canon(p[Len(p) - i]) = Canon(q[Len(q) - i]) IN
  Max({n \in 0 .. Min({Len(p), Len(q)}) : same(n)})

\* is_prefix: an index on the path stands for any segment.
UnderPath(prefix, path) ==
  /\ Len(prefix) <= Len(path)
  /\ \A i \in DOMAIN prefix : Canon(path[i]) = "ITEM" \/ path[i] = prefix[i]

K8sPaths == FindMatchedSchema(Crd)
ShouldComparePath(path) == Last(path) = "ACTOKEY" \/ \E p \in K8sPaths : UnderPath(p, path)

\* The deltas with the longest match; one name in common is enough only for a
\* Kubernetes type.
Matching(path, system) ==
  LET longest == Max({0} \cup {CommonSuffix(path, e.path) : e \in system})
      found == {e \in system : longest # 0 /\ CommonSuffix(path, e.path) = longest} IN
  IF Canon(Last(path)) = "ITEM" \/ Last(path) \in GenericFields THEN [deltas |-> {}, compare |-> FALSE]
  ELSE IF longest > 1 \/ ShouldComparePath(path) THEN [deltas |-> found, compare |-> TRUE]
  ELSE [deltas |-> {}, compare |-> FALSE]

-----------------------------------------------------------------------------
(* The verdict *)

\* A change from or to nothing need not show, unless it is one of these.
ShowsAlways(d) ==
  d.category = <<"iterable_item", "removed">> \/ d.path \in PatchPaths \/ Last(d.path) = "ACTOKEY"

MustProduceDelta(d, cr) ==
  /\ "ephemeralContainers" \notin Range(d.path)
  /\ DependenciesSatisfied(cr, d.path)
  /\ ShowsAlways(d) \/ ~(IsNoneOrNotPresent(d.prev) \/ IsNoneOrNotPresent(d.curr))
  /\ Canonical(d.prev) # Canonical(d.curr)

\* Any of the matched deltas will do; without one, any delta with these values.
IsMatched(d, cr, system) ==
  LET m == Matching(d.path, system)
      candidates == IF m.deltas = {} THEN system ELSE m.deltas IN
  \/ ~(m.compare \/ d.path \in MappedPaths) \/ ~MustProduceDelta(d, cr)
  \/ \E e \in candidates : EqualsAfterTransform(d, e)

Condition == <<"custom_resource_status", "conditions", "0", "message">>

\* A value of one character is not looked for.
LongText(v) ==
  CASE Tag(v) = "int" -> Raw(v) \notin 0 .. 9
    [] Tag(v) = "str" -> Len(Raw(v)) > 1
    [] OTHER          -> TRUE

InvalidInputMessage(message, input) ==
  \/ message.invalid
  \/ \E d \in input : \/ Last(d.path) \in message.mentions
                      \/ d.curr \in message.values /\ LongText(d.curr)

\* The message of a condition is a record, not text: whether an expression of
\* INVALID_INPUT_LOG_REGEX finds it, and the names and values it contains.
IsInvalid(input, system) ==
  \E e \in system :
    /\ e.category = <<Condition[1]>> /\ e.path = Tail(Condition)
    /\ Tag(e.curr) = "message" /\ InvalidInputMessage(Raw(e.curr), input)

Check(prev, curr) ==
  LET input == DeepDiff(prev.cr, curr.cr, << >>)
      system == SystemDelta(prev.state, curr.state) IN
  IF IsInvalid(input, system) THEN "invalid"
  ELSE IF \E d \in input : SchemaAt(Crd, d.path).kind = "unknown" THEN "raised"
  ELSE IF \A d \in input : IsMatched(d, curr.cr, system) THEN "pass"
  ELSE "alarm"

-----------------------------------------------------------------------------
(* The operator *)

\* A part of the CR counts if every object around it that has an "enabled" is on.
Enabled(cr, path) ==
  \A n \in 0 .. Len(path) :
    LET object == SubSeq(path, 1, n) IN
    Has(SchemaAt(Crd, object).props, "enabled") => IsOn(cr, object)

Shown(cr) ==
  LET leaves == UNION {{<<s.to \o [i \in DOMAIN l[1] |-> Opt(Snake, l[1][i], l[1][i])], Canonical(l[2])>> :
                          l \in Leaves(Lookup(cr, s.from))}
                       : s \in {r \in Shows : Enabled(cr, r.from)}} IN
  [p \in {l[1] : l \in leaves} |-> (CHOOSE l \in leaves : l[1] = p)[2]]

RECURSIVE Put(_, _, _)
Put(v, path, new) ==
  LET fields == IF Tag(v) = "obj" THEN Raw(v) ELSE Empty
      k == Head(path) IN
  IF path = << >> THEN new
  ELSE IF Len(path) = 1 /\ new = NotPresent THEN Obj(Except(fields, {k}))
  ELSE Obj(With(fields, k, Put(Opt(fields, k, None), Tail(path), new)))

VARIABLES
  prev, curr,   \* the last two snapshots: records [cr, state]
  verdict,      \* of the oracle on them
  generation    \* of the last snapshot

vars == <<prev, curr, verdict, generation>>

Faithful(cr) == [cr |-> cr, state |-> Shown(cr)]

Init ==
  /\ prev = Faithful(SeedCR) /\ curr = prev
  /\ verdict = "pass"
  /\ generation = 0

Observe(snapshot) ==
  /\ prev' = curr
  /\ curr' = snapshot
  /\ verdict' = Check(curr, snapshot)
  /\ generation' = generation + 1

NewCRs == {cr \in {Put(curr.cr, c.path, c.value) : c \in Changes} : cr # curr.cr}

Obey(cr) == Observe(Faithful(cr))

Ignore(cr) == Observe([cr |-> cr, state |-> curr.state])

\* What the operator says of a CR it refuses, or of one it works on.
Report(cr) ==
  \E m \in Messages, state \in {curr.state, Shown(cr)} :
    Observe([cr |-> cr, state |-> With(state, Condition, <<"message", m>>)])

\* One leaf that changes gets another value.
Bungle(cr) ==
  \E p \in DOMAIN Shown(cr), v \in WrongValues :
    /\ Shown(cr)[p] # Opt(curr.state, p, NotPresent)
    /\ v \notin {Shown(cr)[p], Opt(curr.state, p, NotPresent)}
    /\ Observe([cr |-> cr, state |-> [Shown(cr) EXCEPT ![p] = v]])

Generate ==
  /\ verdict = "pass" /\ generation < MaxGenerations
  /\ \E cr \in NewCRs : Obey(cr) \/ Ignore(cr) \/ Report(cr) \/ Bungle(cr)

\* An invalid input is taken back; what the oracles say of that is not read.
Revert ==
  /\ verdict = "invalid"
  /\ curr' = prev /\ verdict' = "pass"
  /\ UNCHANGED <<prev, generation>>

\* An alarm ends the trial; so does the bound.
NextTrial ==
  /\ \/ verdict \in {"alarm", "raised"}
     \/ verdict = "pass" /\ generation = MaxGenerations
  /\ prev' = Faithful(SeedCR) /\ curr' = Faithful(SeedCR) /\ verdict' = "pass"
  /\ generation' = 0

Next == Generate \/ Revert \/ NextTrial
Spec == Init /\ [][Next]_vars

-----------------------------------------------------------------------------
(* Properties *)

IsFaithful(s) == Except(s.state, {Condition}) = Shown(s.cr)

\* Both snapshots show what their CRs ask for: whatever a test case changed, and
\* in whatever state the trial had put the operator before, ConsistencyChecker.check
\* has nothing to report, and gets to the end.
NoFalseAlarm ==
  IsFaithful(prev) /\ IsFaithful(curr) => verdict \notin {"alarm", "raised"}

\* Some change of the system has, as text, what the CR asks for as a part of it.
Contained(d) ==
  \E e \in SystemDelta(prev.state, curr.state) :
    /\ e.curr # Canonical(d.curr)
    /\ InputIsSubstringOfOutput(Canonical(d.curr), Canonical(e.curr))

\* A change of one field of a Kubernetes type, from one value to another, that the
\* operator should show and does not, or shows wrong, is not passed: this is what
\* the oracle is for.  The comparison takes a value for shown where it is a part of
\* another (state_compare.py:61, for integers against the comment above it); what
\* the system shows of this kind, in the field or in a condition, is excepted.
FaultsAreReported ==
  \A d \in DeepDiff(prev.cr, curr.cr, << >>) :
    /\ IsFaithful(prev) /\ ~IsFaithful(curr)
    /\ DeepDiff(prev.cr, curr.cr, << >>) = {d}
    /\ \E p \in TrueTypes : UnderPath(p, d.path)
    /\ \E s \in Shows : IsPrefix(s.from, d.path)
    /\ Enabled(curr.cr, d.path)
    /\ Last(d.path) \notin GenericFields \cup {"0", "1", "2", "3"}
    /\ ~IsNullish(d.prev) /\ ~IsNullish(d.curr)
    => verdict \in {"alarm", "invalid"} \/ Contained(d)
=============================================================================
