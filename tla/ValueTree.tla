------------------------------ MODULE ValueTree ------------------------------
(***************************************************************************)
(* A CR as a value with a schema attached (acto/input/value_with_schema.py)*)
(* and what a test case does to it.  The schema of a node follows from its *)
(* place, so the tree is the plain value next to the root schema.  A path  *)
(* is a list of keys; the paths of test cases have no index but 0, which   *)
(* is written "ITEM" (InputModel.generate_test_plan).  Every operation     *)
(* returns the set of its outcomes; Raised is an exception.                *)
(***************************************************************************)
EXTENDS Schemas

\* __validate: which possibility takes a value of this type.
Takes(v, s) ==
  \/ IsNone(v)
  \/ Tag(v) = "obj"  /\ s.kind = "object"
  \/ Tag(v) = "arr"  /\ s.kind = "array"
  \/ Tag(v) \in {"str", "text"} /\ s.kind = "string"
  \/ Tag(v) = "bool" /\ s.kind = "boolean"
  \/ IsInt(v)        /\ IsKind(s, "number")

Possible(v, s) == {i \in DOMAIN s.options : Takes(v, s.options[i])}
Smallest(S) == CHOOSE n \in S : \A m \in S : n <= m

\* attach_schema_to_value raises TypeError for an object, array or anyOf
\* property whose value is of another type; any other schema takes anything.
RECURSIVE Attaches(_, _)

AttachesObject(v, s) ==
  \/ IsNone(v)
  \/ Tag(v) = "obj" /\ \A k \in DOMAIN Raw(v) : Attaches(Raw(v)[k], PropertySchema(s, k))

AttachesArray(v, s) ==
  \/ IsNone(v)
  \/ Tag(v) = "arr" /\ \A i \in DOMAIN Raw(v) : Attaches(Raw(v)[i], s.item[1])

Attaches(v, s) ==
  CASE s.kind = "object" -> AttachesObject(v, s)
    [] s.kind = "array" -> AttachesArray(v, s)
    [] s.kind = "anyof" ->
         Possible(v, s) # {} /\ Attaches(v, s.options[Smallest(Possible(v, s))])
    [] OTHER -> TRUE

\* Mutant: the member stays in the CR.
NotUnwrapped(v, s) == v

\* A member of an Enum is replaced by its value, except under anyOf.
Unwrapped(v, s) == IF Tag(v) = "enum" /\ s.kind # "anyof" THEN Raw(v) ELSE v

Updates(v, s) ==
  IF v = Raised \/ ~Attaches(Unwrapped(v, s), s) THEN {Raised} ELSE {Unwrapped(v, s)}

HasKey(v, k) ==
  IF Tag(v) = "arr" THEN Raw(v) # << >> ELSE Tag(v) = "obj" /\ Has(Raw(v), k)
ValueOf(v, k) == IF Tag(v) = "arr" THEN Raw(v)[1] ELSE Raw(v)[k]
Put(v, k, x) ==
  IF Tag(v) = "arr" THEN Arr(<<x>> \o Tail(Raw(v))) ELSE Obj(With(Raw(v), k, x))
\* Mutant: the new key replaces the others.
GrownAnew(v, k) == IF Tag(v) = "arr" THEN Arr(<<None>>) ELSE Obj([j \in {k} |-> None])

Grown(v, k) ==
  IF Tag(v) = "arr" THEN Arr(<<None>>) ELSE Obj(With(Raw(v), k, None))

SubSchema(s, k) == IF s.kind = "array" THEN s.item[1] ELSE PropertySchema(s, k)

\* The schema a value under anyOf is attached to.
Resolved(v, s) ==
  IF s.kind = "anyof" /\ ~IsNone(v) THEN s.options[Smallest(Possible(v, s))] ELSE s

\* get_value_by_path: None if the path leads nowhere.  An opaque value is the
\* end of every path; a basic value with more path to go raises.
RECURSIVE ValueAt(_, _, _)
ValueAt(v, s0, path) ==
  LET s == Resolved(v, s0) IN
  IF path = << >> \/ s.kind = "opaque" THEN v
  ELSE IF s.kind \in {"object", "array"}
  THEN IF ~IsNone(v) /\ HasKey(v, Head(path))
       THEN ValueAt(ValueOf(v, Head(path)), SubSchema(s, Head(path)), Tail(path))
       ELSE None
  ELSE IF s.kind = "anyof" THEN None
  ELSE Raised

\* create_path: a null object on the way is generated from its minimum (or an
\* example of it), a null array becomes a list of one null.
RECURSIVE Created(_, _, _)
Within(v, s, k, path) ==
  {IF x = Raised THEN Raised ELSE Put(v, k, x) :
     x \in Created(ValueOf(v, k), SubSchema(s, k), path)}
Created(v, s, path) ==
  IF path = << >> \/ s.kind = "opaque" THEN {v}
  ELSE IF s.kind \in {"object", "array"} THEN
    LET k == Head(path)
        Bases == IF ~IsNone(v) THEN {v}
                 ELSE IF s.kind = "array" THEN {Arr(<< >>)}
                 ELSE UNION {Updates(x, s) : x \in Gen(s, None, TRUE, NoSize)} IN
    UNION {IF b = Raised \/ IsNone(b) THEN {Raised}
           ELSE IF HasKey(b, k) /\ ~IsNone(v) THEN Within(b, s, k, Tail(path))
           ELSE Within(Grown(b, k), s, k, Tail(path)) : b \in Bases}
  ELSE {Raised}   \* NotImplementedError or RuntimeError

\* set_value_by_path.
RECURSIVE Stored(_, _, _, _)
Stored(v, s0, path, x) ==
  IF s0.kind = "opaque" THEN {x}   \* neither looks at the path nor unwraps x
  ELSE IF path = << >> THEN Updates(x, s0)
  ELSE LET s == Resolved(v, s0)
           k == Head(path) IN
       IF s.kind \in {"object", "array"} /\ ~IsNone(v) /\ HasKey(v, k)
       THEN {IF y = Raised THEN Raised ELSE Put(v, k, y) :
               y \in Stored(ValueOf(v, k), SubSchema(s, k), Tail(path), x)}
       ELSE {Raised}

\* The two calls of apply_testcase that write the new value.
Written(v, s, path, x) ==
  UNION {IF c = Raised \/ x = Raised THEN {Raised} ELSE Stored(c, s, path, x) :
           c \in Created(v, s, path)}
=============================================================================
