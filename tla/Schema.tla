------------------------------- MODULE Schema -------------------------------
(***************************************************************************)
(* The schema interpreter: a schema is a tree of nodes, and Validate()     *)
(* (validateNode) runs a node against a JavaScript value.  A node is a     *)
(* record with the field "kind" and the fields of its kind.  The outcome   *)
(* has the issues found, none if the value was accepted, and the output.   *)
(*                                                                         *)
(* Values carry their JavaScript type in "t".  Numbers are counted in      *)
(* halves, so that there are fractions; strings are short sequences of     *)
(* characters, because checks count them and normalizers change them.      *)
(* Messages, and the order of issues, are left out.                        *)
(***************************************************************************)
EXTENDS Integers, Sequences, SequencesExt, FiniteSets

CONSTANTS
  Matching,     \* the strings each format (email, url, uuid, ...) accepts
  Regexes,      \* <<source, flags>> of a pattern -> the strings it matches
  NumberOf,     \* the keys that are numerals -> their numbers
  Rejected,     \* the values each refinement predicate rejects or throws on
  Resolved,     \* the node each lazy node resolves to
  SafeLimit     \* Number.MAX_SAFE_INTEGER

Undefined == [t |-> "undefined"]
Null == [t |-> "null"]
NaN == [t |-> "number", nan |-> TRUE]
Str(s) == [t |-> "string", s |-> s]
Num(n) == [t |-> "number", n |-> n]
Bool(b) == [t |-> "boolean", b |-> b]
Arr(e) == [t |-> "array", e |-> e]
Obj(f) == [t |-> "object", f |-> f]

Infinity == 2000000

Valid(v) == [issues |-> {}, value |-> v]
Invalid(issues) == [issues |-> issues, value |-> Undefined]
Single(code, path) == Invalid({[code |-> code, path |-> path]})
Outcome(issues, v) == IF issues = {} THEN Valid(v) ELSE Invalid(issues)
Accepted(r) == r.issues = {}

-----------------------------------------------------------------------------
(* Primitives.  A check yields the codes of the issues it raises.          *)

Trimmed(s) ==
  LET ink == {i \in DOMAIN s : s[i] # " "}
  IN IF ink = {} THEN <<>>
     ELSE SubSeq(s, CHOOSE i \in ink : \A j \in ink : i <= j,
                    CHOOSE i \in ink : \A j \in ink : i >= j)

Recased(s, from, to) == [i \in DOMAIN s |-> IF s[i] = from THEN to ELSE s[i]]

Normalized(check, s) ==
  CASE check.kind = "trim" -> Trimmed(s)
    [] check.kind = "toLowerCase" -> Recased(s, "A", "a")
    [] check.kind = "toUpperCase" -> Recased(s, "a", "A")
    [] OTHER -> s

LengthCodes(check, len) ==
  IF check.kind \in {"min", "length"} /\ len < check.n THEN {"too_small"}
  ELSE IF check.kind \in {"max", "length"} /\ len > check.n THEN {"too_big"}
  ELSE {}

StringCodes(check, s) ==
  LengthCodes(check, Len(s)) \cup
  IF \/ check.kind \in DOMAIN Matching /\ s \notin Matching[check.kind]
     \/ check.kind = "regex" /\ s \notin Regexes[<<check.source, check.flags>>]
     \/ check.kind = "startsWith" /\ ~IsPrefix(check.s, s)
     \/ check.kind = "endsWith" /\ ~IsSuffix(check.s, s)
     \/ /\ check.kind = "includes"
        /\ \A i \in 1..Len(s) + 1 : ~IsPrefix(check.s, SubSeq(s, i, Len(s)))
  THEN {"invalid_format"} ELSE {}

\* Fault: checks see the value as it was given.
ValidateString_Unnormalized(node, v, path) ==
  IF v.t # "string" THEN Single("invalid_type", path)
  ELSE LET Step(s, check) == Normalized(check, s)
           codes == UNION {StringCodes(node.checks[i], v.s) : i \in DOMAIN node.checks}
       IN Outcome({[code |-> c, path |-> path] : c \in codes},
                  Str(FoldLeft(Step, v.s, node.checks)))

\* Later checks see the value as earlier normalizers left it.
ValidateString(node, v, path) ==
  IF v.t # "string" THEN Single("invalid_type", path)
  ELSE LET Step(r, check) ==
             LET s == Normalized(check, r.s)
             IN [s |-> s, codes |-> r.codes \cup StringCodes(check, s)]
           done == FoldLeft(Step, [s |-> v.s, codes |-> {}], node.checks)
       IN Outcome({[code |-> c, path |-> path] : c \in done.codes}, Str(done.s))

BoundCodes(check, n) ==
  IF \/ check.kind \in {"min", "gte"} /\ n < check.n
     \/ check.kind = "gt" /\ n <= check.n
  THEN {"too_small"}
  ELSE IF \/ check.kind \in {"max", "lte"} /\ n > check.n
          \/ check.kind = "lt" /\ n >= check.n
  THEN {"too_big"} ELSE {}

IsInteger(n) == n % 2 = 0 /\ n # Infinity
IsMultipleOf(n, divisor) == divisor # 0 /\ n % divisor = 0

NumberCodes(check, n) ==
  BoundCodes(check, n) \cup
  IF \/ check.kind = "multipleOf" /\ ~IsMultipleOf(n, check.n)
     \/ check.kind = "int" /\ ~IsInteger(n)
     \/ check.kind = "finite" /\ n = Infinity
     \/ check.kind = "safe" /\ (~IsInteger(n) \/ n > SafeLimit)
  THEN {"invalid_format"} ELSE {}

ValidateNumber(node, v, path) ==
  IF v.t # "number" \/ v = NaN THEN Single("invalid_type", path)
  ELSE Outcome({[code |-> c, path |-> path] :
                 c \in UNION {NumberCodes(node.checks[i], v.n) : i \in DOMAIN node.checks}}, v)

ValidateBigInt(node, v, path) ==
  IF v.t # "bigint" THEN Single("invalid_type", path)
  ELSE LET Codes(check) ==
             BoundCodes(check, v.n) \cup
             IF check.kind = "multipleOf" /\ ~IsMultipleOf(v.n, check.n)
             THEN {"invalid_format"} ELSE {}
       IN Outcome({[code |-> c, path |-> path] :
                    c \in UNION {Codes(node.checks[i]) : i \in DOMAIN node.checks}}, v)

-----------------------------------------------------------------------------
(* Composites.  Validate(node, v, path) recurs with longer paths, so that  *)
(* every issue carries its place in the input.                             *)
RECURSIVE Validate(_, _, _)

AllIssues(results) == UNION {results[k].issues : k \in DOMAIN results}

\* A field that is missing from the input is skipped if it is optional, takes
\* its default unvalidated, and is otherwise validated as undefined.
ValidateObject(node, v, path) ==
  IF v.t # "object" THEN Single("invalid_type", path)
  ELSE LET present == DOMAIN v.f
           fields == {k \in DOMAIN node.fields :
                        k \in present \/ node.fields[k].kind # "optional"}
           results == [k \in fields |->
             IF k \in present THEN Validate(node.fields[k], v.f[k], Append(path, k))
             ELSE IF node.fields[k].kind = "default" THEN Valid(node.fields[k].value)
             ELSE Validate(node.fields[k], Undefined, Append(path, k))]
           others == present \ DOMAIN node.fields
           unrecognized == IF node.unknownKeys = "strict" THEN others ELSE {}
           kept == IF node.unknownKeys = "passthrough" THEN others ELSE {}
       IN Outcome(
            AllIssues(results) \cup
              {[code |-> "unrecognized_keys", path |-> Append(path, k)] : k \in unrecognized},
            Obj([k \in fields \cup kept |->
                   IF k \in fields THEN results[k].value ELSE v.f[k]]))

ValidateItems(items, v, path, codes) ==
  LET results == [i \in DOMAIN items |-> Validate(items[i], v.e[i], Append(path, i))]
  IN Outcome({[code |-> c, path |-> path] : c \in codes} \cup AllIssues(results),
             Arr([i \in DOMAIN items |-> results[i].value]))

ValidateArray(node, v, path) ==
  IF v.t # "array" THEN Single("invalid_type", path)
  ELSE ValidateItems([i \in DOMAIN v.e |-> node.element], v, path,
         UNION {LengthCodes(node.checks[i], Len(v.e)) : i \in DOMAIN node.checks})

ValidateTuple(node, v, path) ==
  IF v.t # "array" THEN Single("invalid_type", path)
  ELSE ValidateItems(
         SubSeq(node.items, 1, IF Len(v.e) < Len(node.items) THEN Len(v.e) ELSE Len(node.items)),
         v, path, LengthCodes([kind |-> "length", n |-> Len(node.items)], Len(v.e)))

\* Keys are strings, and are looked at as numbers where the schema of the keys
\* is a number's.  The value under a key is looked at only if the key is
\* accepted, and it keeps the key it has.
ValidateKey(keys, k, keyPath) ==
  IF keys.kind # "number" THEN Validate(keys, Str(<<k>>), keyPath)
  ELSE IF k \notin DOMAIN NumberOf THEN Single("invalid_type", keyPath)
  ELSE Validate(keys, Num(NumberOf[k]), keyPath)

ValidateRecord(node, v, path) ==
  IF v.t # "object" THEN Single("invalid_type", path)
  ELSE LET results == [k \in DOMAIN v.f |->
             LET keyPath == Append(path, k)
                 key == ValidateKey(node.keys, k, keyPath)
             IN IF Accepted(key) THEN Validate(node.values, v.f[k], keyPath) ELSE key]
       IN Outcome(AllIssues(results), Obj([k \in DOMAIN results |-> results[k].value]))

\* The first variant that accepts decides.
ValidateUnion(node, v, path) ==
  LET results == [i \in DOMAIN node.variants |-> Validate(node.variants[i], v, path)]
      first == SelectInSeq(results, LAMBDA r : Accepted(r))
  IN IF first # 0 THEN results[first]
     ELSE Invalid({[code |-> "invalid_union", path |-> path]} \cup AllIssues(results))

ValidateDiscriminated(node, v, path) ==
  IF v.t # "object" THEN Single("invalid_type", path)
  ELSE LET tag == IF node.discriminator \in DOMAIN v.f THEN v.f[node.discriminator]
                  ELSE Undefined
           at == SelectInSeq(node.variants,
                   LAMBDA w : w.fields[node.discriminator].value = tag)
       IN IF tag.t # "string" \/ at = 0
          THEN Single("invalid_union", Append(path, node.discriminator))
          ELSE Validate(node.variants[at], v, path)

\* Two objects are merged unless they give one key different values.
ValidateIntersection(node, v, path) ==
  LET left == Validate(node.left, v, path)
      right == Validate(node.right, v, path)
      l == left.value
      r == right.value
  IN IF ~Accepted(left) \/ ~Accepted(right) THEN Invalid(left.issues \cup right.issues)
     ELSE IF l.t = "object" /\ r.t = "object"
     THEN Outcome({[code |-> "invalid_intersection", path |-> Append(path, k)] :
                     k \in {k \in DOMAIN l.f \cap DOMAIN r.f : l.f[k] # r.f[k]}},
                  Obj([k \in DOMAIN l.f \cup DOMAIN r.f |->
                         IF k \in DOMAIN r.f THEN r.f[k] ELSE l.f[k]]))
     ELSE IF l = r THEN left ELSE Single("invalid_intersection", path)

\* The kinds without structure.
ValidateConstant(node, v, path) ==
  CASE node.kind \in {"any", "unknown"} -> Valid(v)
    [] node.kind = "literal" /\ v # node.value -> Single("invalid_literal", path)
    [] node.kind = "enum" /\ ~(v.t = "string" /\ v.s \in node.values) ->
         Single("invalid_enum", path)
    [] node.kind \in {"boolean", "date", "null", "undefined"} /\ v.t # node.kind ->
         Single("invalid_type", path)
    [] node.kind = "never" -> Single("invalid_type", path)
    [] OTHER -> Valid(v)

\* Wrappers: a transform maps every value to its result, or throws.
ValidateWrapper(node, v, path) ==
  LET inner == Validate(node.inner, v, path)
  IN CASE node.kind = "optional" /\ v = Undefined -> Valid(v)
       [] node.kind = "nullable" /\ v = Null -> Valid(v)
       [] node.kind = "default" /\ v = Undefined -> Valid(node.value)
       [] node.kind = "transform" /\ Accepted(inner) ->
            IF node.throws THEN Single("custom", path) ELSE Valid(node.result)
       [] node.kind = "refine" /\ Accepted(inner) ->
            Outcome({[code |-> "custom", path |-> path] :
                       p \in {p \in node.predicates : inner.value \in Rejected[p]}},
                    inner.value)
       [] OTHER -> inner

Validate(node, v, path) ==
  CASE node.kind = "string" -> ValidateString(node, v, path)
    [] node.kind = "number" -> ValidateNumber(node, v, path)
    [] node.kind = "bigint" -> ValidateBigInt(node, v, path)
    [] node.kind = "object" -> ValidateObject(node, v, path)
    [] node.kind = "array" -> ValidateArray(node, v, path)
    [] node.kind = "tuple" -> ValidateTuple(node, v, path)
    [] node.kind = "record" -> ValidateRecord(node, v, path)
    [] node.kind = "union" -> ValidateUnion(node, v, path)
    [] node.kind = "discriminatedUnion" -> ValidateDiscriminated(node, v, path)
    [] node.kind = "intersection" -> ValidateIntersection(node, v, path)
    [] node.kind \in {"optional", "nullable", "default", "transform", "refine"} ->
         ValidateWrapper(node, v, path)
    [] node.kind = "lazy" -> Validate(Resolved[node.ref], v, path)
    [] OTHER -> ValidateConstant(node, v, path)

Parse(node, v) == Validate(node, v, <<>>)
Accepts(node, v) == Accepted(Parse(node, v))
=============================================================================
