------------------------------ MODULE OpenApi ------------------------------
(***************************************************************************)
(* Conversion of schemas into OpenAPI 3.1 and 3.0.  A converted schema is  *)
(* a function from keywords to their values; "type" is a set of type       *)
(* names.  Conversions return what they emit and the codes of the warnings *)
(* they raise; "throws" stands for the error on a recursive schema.        *)
(* JsonAccepts says what a reader of the document accepts.  Metadata,      *)
(* examples and message texts are left out.                                *)
(***************************************************************************)
EXTENDS SchemaBuilder

Conversion(s, warnings) == [out |-> s, warnings |-> warnings]
Plain(s) == Conversion(s, {})
RefTo(name) == "$ref" :> name

\* Conversion of every entry of a map or list.
Each(m, Op(_)) ==
  Conversion([k \in DOMAIN m |-> Op(m[k]).out], UNION {Op(m[k]).warnings : k \in DOMAIN m})

-----------------------------------------------------------------------------
RECURSIVE AcceptsUndefined(_, _)
\* acceptsUndefined(): whether a field need not be listed as required.
AcceptsUndefined(node, seen) ==
  CASE node.kind \in {"optional", "default", "any", "unknown", "undefined"} -> TRUE
    [] node.kind = "literal" -> node.value = Undefined
    [] node.kind \in {"nullable", "refine", "transform"} -> AcceptsUndefined(node.inner, seen)
    [] node.kind = "union" ->
         \E i \in DOMAIN node.variants : AcceptsUndefined(node.variants[i], seen)
    [] node.kind = "lazy" ->
         /\ node \notin seen
         /\ AcceptsUndefined(Resolved[node.ref], seen \cup {node})
    [] OTHER -> FALSE

IsSafeNumber(n) == n <= SafeLimit
Serializable(v) ==
  CASE v.t = "bigint" -> IsSafeNumber(v.n)
    [] v.t = "number" -> v # NaN /\ v.n # Infinity
    [] OTHER -> v # Undefined

WithDefault(c, v) ==
  IF Serializable(v) THEN Conversion(("default" :> v) @@ c.out, c.warnings)
  ELSE Conversion(c.out, c.warnings \cup {"nonserializable-default"})

\* Fault: null is put beside a $ref.
ApplyNullable_Beside(s, version) ==
  IF version = "3.1" /\ "type" \notin DOMAIN s THEN "anyOf" :> <<s, "type" :> {"null"}>>
  ELSE IF version = "3.1" THEN ("type" :> (s["type"] \cup {"null"})) @@ s
  ELSE ("nullable" :> TRUE) @@ s

ApplyNullable(s, version) ==
  CASE version = "3.1" /\ "type" \in DOMAIN s /\ Cardinality(s["type"]) = 1 ->
         ("type" :> (s["type"] \cup {"null"})) @@ s
    [] version = "3.1" -> "anyOf" :> <<s, "type" :> {"null"}>>
    [] version = "3.0" /\ DOMAIN s = {"$ref"} -> ("allOf" :> <<s>>) @@ ("nullable" :> TRUE)
    [] OTHER -> ("nullable" :> TRUE) @@ s

\* Each check of a kind overwrites the keyword of the one before.
Bound(kind, n, version) ==
  CASE kind \in {"min", "gte"} -> "minimum" :> n
    [] kind \in {"max", "lte"} -> "maximum" :> n
    [] kind = "gt" /\ version = "3.1" -> "exclusiveMinimum" :> n
    [] kind = "gt" -> ("minimum" :> n) @@ ("exclusiveMinimum" :> TRUE)
    [] kind = "lt" /\ version = "3.1" -> "exclusiveMaximum" :> n
    [] kind = "lt" -> ("maximum" :> n) @@ ("exclusiveMaximum" :> TRUE)
    [] kind = "multipleOf" -> "multipleOf" :> n
    [] OTHER -> <<>>

\* Of a regular expression the source is kept, its flags are not.
ConvertString(node) ==
  LET Keyword(check) ==
        CASE check.kind = "min" -> "minLength" :> check.n
          [] check.kind = "max" -> "maxLength" :> check.n
          [] check.kind = "length" -> ("minLength" :> check.n) @@ ("maxLength" :> check.n)
          [] check.kind = "regex" -> "pattern" :> [check EXCEPT !.flags = ""]
          [] check.kind \in DOMAIN Matching -> "format" :> check.kind
          [] check.kind \in {"startsWith", "endsWith", "includes"} -> "pattern" :> check
          [] OTHER -> <<>>
      Step(s, check) == Keyword(check) @@ s
  IN Conversion(FoldLeft(Step, "type" :> {"string"}, node.checks),
       IF \E i \in DOMAIN node.checks : node.checks[i].kind \in Normalizers
       THEN {"normalizer-dropped"} ELSE {})

ConvertNumber(node, version) ==
  LET Step(s, check) == Bound(check.kind, check.n, version) @@ s
      integer == \E i \in DOMAIN node.checks : node.checks[i].kind \in {"int", "safe"}
  IN Plain(("type" :> {IF integer THEN "integer" ELSE "number"}) @@
           FoldLeft(Step, <<>>, node.checks))

ConvertBigInt(node, version) ==
  LET Step(s, check) ==
        IF IsSafeNumber(check.n) THEN Bound(check.kind, check.n, version) @@ s ELSE s
  IN Conversion(FoldLeft(Step, ("type" :> {"integer"}) @@ ("format" :> "int64"), node.checks),
       IF \A i \in DOMAIN node.checks : IsSafeNumber(node.checks[i].n)
       THEN {} ELSE {"bigint-bound-omitted"})

JsonType(v) ==
  CASE v.t = "number" -> IF IsInteger(v.n) THEN "integer" ELSE "number"
    [] v.t = "bigint" -> "integer"
    [] OTHER -> v.t

ConvertLiteral(v, version) ==
  CASE v = Undefined -> Conversion(<<>>, {"undefined-literal"})
    [] v.t = "bigint" /\ ~IsSafeNumber(v.n) ->
         Conversion(("type" :> {"integer"}) @@ ("format" :> "int64"), {"bigint-bound-omitted"})
    [] version = "3.1" -> Plain("const" :> v)
    [] v = Null -> Plain("enum" :> {Null})
    [] OTHER -> Plain(("type" :> {JsonType(v)}) @@ ("enum" :> {v}))

Items(n) == ("type" :> {"array"}) @@ ("minItems" :> n) @@ ("maxItems" :> n)

-----------------------------------------------------------------------------
(* convert(): defs maps the names of registered schemas to their nodes,    *)
(* active holds the nodes on the way down.  Nodes are compared by content,   *)
(* the code compares them by identity: two nodes of one content that are     *)
(* different objects are told apart by a field "at".                         *)
RECURSIVE Convert(_, _, _, _, _)

\* Of several names of one node the map keeps the one registered last; they
\* stand for the same schema.
NamesOf(node, defs) == {name \in DOMAIN defs : defs[name] = node}

ConvertObject(node, version, defs, active) ==
  LET fields == Each(node.fields, LAMBDA f : Convert(f, version, defs, active, FALSE))
      required == {k \in DOMAIN node.fields : ~AcceptsUndefined(node.fields[k], {})}
      others == CASE node.unknownKeys = "strict" -> "additionalProperties" :> ("not" :> <<>>)
                  [] node.unknownKeys = "passthrough" -> "additionalProperties" :> <<>>
                  [] OTHER -> <<>>
  IN Conversion(("type" :> {"object"}) @@ ("properties" :> fields.out) @@
                  (IF required # {} THEN "required" :> required ELSE <<>>) @@ others,
                fields.warnings)

ConvertRecord(node, version, defs, active) ==
  LET values == Convert(node.values, version, defs, active, FALSE)
      keys == Convert(node.keys, version, defs, active, FALSE)
      target == ("type" :> {"object"}) @@ ("additionalProperties" :> values.out)
  IN CASE node.keys.kind = "string" /\ node.keys.checks = <<>> ->
            Conversion(target, values.warnings)
       [] node.keys.kind = "number" \/ version = "3.0" ->
            Conversion(target, values.warnings \cup {"property-names-dropped"})
       [] OTHER -> Conversion(("propertyNames" :> keys.out) @@ target,
                              values.warnings \cup keys.warnings)

IsNullish(node) ==
  \/ node.kind \in {"null", "undefined"}
  \/ node.kind = "literal" /\ node.value = Null

ConvertUnion(node, version, defs, active) ==
  LET Of(variants) == Each(variants, LAMBDA v : Convert(v, version, defs, active, FALSE))
      rest == SelectSeq(node.variants, LAMBDA v : ~IsNullish(v))
  IN IF version = "3.0" /\ Len(rest) # Len(node.variants)
     THEN LET some == Of(rest)
              base == IF Len(rest) = 1 THEN some.out[1] ELSE "anyOf" :> some.out
          IN Conversion(("nullable" :> TRUE) @@ base, some.warnings)
     ELSE Conversion("anyOf" :> Of(node.variants).out, Of(node.variants).warnings)

ConvertDiscriminated(node, version, defs, active) ==
  LET variants == Each(node.variants, LAMBDA v : Convert(v, version, defs, active, FALSE))
  IN Conversion(("oneOf" :> variants.out) @@ ("discriminator" :> node.discriminator),
                variants.warnings)

ConvertArray(node, version, defs, active) ==
  LET items == Convert(node.element, version, defs, active, FALSE)
      Keyword(check) ==
        CASE check.kind = "min" -> "minItems" :> check.n
          [] check.kind = "max" -> "maxItems" :> check.n
          [] OTHER -> ("minItems" :> check.n) @@ ("maxItems" :> check.n)
      Step(s, check) == Keyword(check) @@ s
  IN Conversion(FoldLeft(Step, ("type" :> {"array"}) @@ ("items" :> items.out), node.checks),
                items.warnings)

ConvertTuple(node, version, defs, active) ==
  LET items == Each(node.items, LAMBDA i : Convert(i, version, defs, active, FALSE))
  IN IF version = "3.1"
     THEN Conversion(("prefixItems" :> items.out) @@ Items(Len(node.items)), items.warnings)
     ELSE Conversion(("items" :> ("anyOf" :> items.out)) @@ Items(Len(node.items)),
                     items.warnings \cup {"tuple-positions-lost"})

ConvertInner(node, version, defs, active) ==
  LET inner == Convert(node.inner, version, defs, active, FALSE)
  IN CASE node.kind = "string" -> ConvertString(node)
       [] node.kind = "number" -> ConvertNumber(node, version)
       [] node.kind = "bigint" -> ConvertBigInt(node, version)
       [] node.kind = "boolean" -> Plain("type" :> {"boolean"})
       [] node.kind = "date" -> Plain(("type" :> {"string"}) @@ ("format" :> "datetime"))
       [] node.kind = "literal" -> ConvertLiteral(node.value, version)
       [] node.kind = "enum" ->
            Plain(("type" :> {"string"}) @@ ("enum" :> {Str(s) : s \in node.values}))
       [] node.kind = "null" ->
            Plain(IF version = "3.1" THEN "type" :> {"null"} ELSE "enum" :> {Null})
       [] node.kind = "undefined" -> Conversion(<<>>, {"undefined-literal"})
       [] node.kind \in {"any", "unknown"} -> Plain(<<>>)
       [] node.kind = "never" -> Plain("not" :> <<>>)
       [] node.kind = "object" -> ConvertObject(node, version, defs, active)
       [] node.kind = "array" -> ConvertArray(node, version, defs, active)
       [] node.kind = "tuple" -> ConvertTuple(node, version, defs, active)
       [] node.kind = "record" -> ConvertRecord(node, version, defs, active)
       [] node.kind = "union" -> ConvertUnion(node, version, defs, active)
       [] node.kind = "discriminatedUnion" ->
            ConvertDiscriminated(node, version, defs, active)
       [] node.kind = "intersection" ->
            LET both == Each(<<node.left, node.right>>,
                             LAMBDA n : Convert(n, version, defs, active, FALSE))
            IN Conversion("allOf" :> both.out, both.warnings)
       [] node.kind = "optional" -> inner
       [] node.kind = "nullable" ->
            Conversion(ApplyNullable(inner.out, version), inner.warnings)
       [] node.kind = "default" -> WithDefault(inner, node.value)
       [] node.kind = "transform" ->
            Conversion(inner.out, inner.warnings \cup {"transform-input-side"})
       [] node.kind = "refine" ->
            Conversion(inner.out, inner.warnings \cup {"refinement-dropped"})
       [] node.kind = "lazy" -> Convert(Resolved[node.ref], version, defs, active, FALSE)

Convert(node, version, defs, active, isRoot) ==
  IF ~isRoot /\ NamesOf(node, defs) # {}
  THEN Plain(RefTo(CHOOSE name \in NamesOf(node, defs) : TRUE))
  ELSE IF node \in active THEN Conversion(<<>>, {"throws"})
  ELSE ConvertInner(node, version, defs, active \cup {node})

Standalone(node, version) == Convert(node, version, <<>>, {}, TRUE)

-----------------------------------------------------------------------------
(* What a reader of the document accepts: JSON Schema, with nullable and    *)
(* boolean bounds in 3.0.  components holds the schemas $refs point to.     *)
RECURSIVE JsonAccepts(_, _, _, _)

HasType(v, type) ==
  \/ v.t = type
  \/ type = "integer" /\ v.t = "number" /\ IsInteger(v.n)

Keyword(components, version, s, k, v) ==
  CASE k = "type" -> \E type \in s[k] : HasType(v, type)
    [] k = "enum" -> v \in s[k]
    [] k = "const" -> v = s[k]
    [] k = "not" -> ~JsonAccepts(components, version, s[k], v)
    [] k = "allOf" -> \A i \in DOMAIN s[k] : JsonAccepts(components, version, s[k][i], v)
    [] k = "anyOf" -> \E i \in DOMAIN s[k] : JsonAccepts(components, version, s[k][i], v)
    [] k = "oneOf" ->
         Cardinality({i \in DOMAIN s[k] : JsonAccepts(components, version, s[k][i], v)}) = 1
    [] k = "$ref" -> JsonAccepts(components, version, components[s[k]], v)
    [] k = "minLength" -> v.t = "string" => Len(v.s) >= s[k]
    [] k = "maxLength" -> v.t = "string" => Len(v.s) <= s[k]
    [] k = "format" ->
         (v.t = "string" /\ s[k] \in DOMAIN Matching) => v.s \in Matching[s[k]]
    [] k = "pattern" -> v.t = "string" => StringCodes(s[k], v.s) = {}
    [] k = "minimum" -> v.t = "number" =>
         IF version = "3.0" /\ "exclusiveMinimum" \in DOMAIN s THEN v.n > s[k] ELSE v.n >= s[k]
    [] k = "maximum" -> v.t = "number" =>
         IF version = "3.0" /\ "exclusiveMaximum" \in DOMAIN s THEN v.n < s[k] ELSE v.n <= s[k]
    [] k = "exclusiveMinimum" -> (version = "3.1" /\ v.t = "number") => v.n > s[k]
    [] k = "exclusiveMaximum" -> (version = "3.1" /\ v.t = "number") => v.n < s[k]
    [] k = "multipleOf" -> v.t = "number" => v.n % s[k] = 0
    [] k = "minItems" -> v.t = "array" => Len(v.e) >= s[k]
    [] k = "maxItems" -> v.t = "array" => Len(v.e) <= s[k]
    [] k = "items" -> v.t = "array" =>
         \A i \in DOMAIN v.e : JsonAccepts(components, version, s[k], v.e[i])
    [] k = "prefixItems" -> v.t = "array" =>
         \A i \in DOMAIN v.e \cap DOMAIN s[k] :
           JsonAccepts(components, version, s[k][i], v.e[i])
    [] k = "required" -> v.t = "object" => s[k] \subseteq DOMAIN v.f
    [] k = "properties" -> v.t = "object" =>
         \A p \in DOMAIN v.f \cap DOMAIN s[k] :
           JsonAccepts(components, version, s[k][p], v.f[p])
    [] k = "additionalProperties" -> v.t = "object" =>
         \A p \in DOMAIN v.f \ (IF "properties" \in DOMAIN s THEN DOMAIN s["properties"] ELSE {}) :
           JsonAccepts(components, version, s[k], v.f[p])
    [] k = "propertyNames" -> v.t = "object" =>
         \A p \in DOMAIN v.f : JsonAccepts(components, version, s[k], Str(<<p>>))
    [] OTHER -> TRUE

\* nullable lifts the type, not an enum; in 3.0 nothing counts beside a $ref.
JsonAccepts(components, version, s, v) ==
  LET lifted == CASE version = "3.0" /\ "$ref" \in DOMAIN s -> {"$ref"}
                  [] v = Null /\ "nullable" \in DOMAIN s -> DOMAIN s \cap {"enum"}
                  [] OTHER -> DOMAIN s
  IN \A k \in lifted : Keyword(components, version, s, k, v)

-----------------------------------------------------------------------------
(* Properties *)

RECURSIVE IsJson(_)
IsJson(v) ==
  CASE v.t = "array" -> \A i \in DOMAIN v.e : IsJson(v.e[i])
    [] v.t = "object" -> \A k \in DOMAIN v.f : IsJson(v.f[k])
    [] OTHER -> v.t \in {"string", "number", "boolean", "null"} /\ v # NaN

RECURSIVE NullLoses(_)
NullLoses(node) ==
  node.kind \in {"literal", "enum", "default"} \/ ("inner" \in DOMAIN node /\ NullLoses(node.inner))

\* The checks that write one keyword.
Rivals == {{"min", "gt", "gte", "length"}, {"max", "lt", "lte", "length"},
           {"regex", "startsWith", "endsWith", "includes"}}

\* Schemas of which conversion silently loses more than checks: of checks that
\* write one keyword only the last is kept, a null added to an enumeration, a
\* default or a union is not accepted, and JSON has neither bigints nor dates.
RECURSIVE Plainly(_)
Plainly(node) ==
  CASE node.kind \in {"bigint", "date"} -> FALSE
    [] "checks" \in DOMAIN node ->
         /\ \A i, j \in DOMAIN node.checks : i # j =>
              /\ node.checks[i].kind # node.checks[j].kind
              /\ \A r \in Rivals : {node.checks[i].kind, node.checks[j].kind} \notin SUBSET r
         /\ node.kind = "array" => Plainly(node.element)
    [] node.kind = "nullable" -> ~NullLoses(node.inner) /\ Plainly(node.inner)
    [] "inner" \in DOMAIN node -> Plainly(node.inner)
    [] "fields" \in DOMAIN node -> \A k \in DOMAIN node.fields : Plainly(node.fields[k])
    [] "items" \in DOMAIN node -> \A k \in DOMAIN node.items : Plainly(node.items[k])
    [] "variants" \in DOMAIN node -> \A k \in DOMAIN node.variants :
         Plainly(node.variants[k]) /\ ~IsNullish(node.variants[k])
    [] "left" \in DOMAIN node -> Plainly(node.left) /\ Plainly(node.right)
    [] node.kind = "record" -> Plainly(node.keys) /\ Plainly(node.values)
    [] OTHER -> TRUE

\* A schema as a document renders it: a regular expression without its flags,
\* and a safe integer as any integer.
Rendered(check) ==
  CASE check.kind = "regex" -> [check EXCEPT !.flags = ""]
    [] check.kind = "safe" -> [check EXCEPT !.kind = "int"]
    [] OTHER -> check
RECURSIVE AsRendered(_)
AsRendered(node) ==
  LET All(m) == [k \in DOMAIN m |-> AsRendered(m[k])]
  IN [x \in DOMAIN node |->
        CASE x = "checks" -> [i \in DOMAIN node.checks |-> Rendered(node.checks[i])]
          [] x \in {"inner", "element", "left", "right", "keys"} -> AsRendered(node[x])
          [] x = "values" /\ node.kind = "record" -> AsRendered(node[x])
          [] x \in {"fields", "items", "variants"} -> All(node[x])
          [] OTHER -> node[x]]

=============================================================================
