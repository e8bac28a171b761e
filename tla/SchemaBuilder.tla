--------------------------- MODULE SchemaBuilder ---------------------------
(***************************************************************************)
(* Schemas as application code makes them: a schema starts as a primitive  *)
(* and goes through a chain of modifiers and composites, each of which     *)
(* returns a new schema.  A schema is an object of a class with its node,  *)
(* and, for the classes that keep one, the fields (ObjectSchema) or the    *)
(* schema inside (OptionalSchema, DefaultSchema).  The class is the one it *)
(* was made with; refine() replaces the node by one of another kind.       *)
(***************************************************************************)
EXTENDS Schema, TLC

CONSTANTS
  Primitives,   \* the schemas a chain starts with
  Checks,       \* the checks that are added
  Defaults,     \* values for default()
  Partner,      \* the schema next to the chain's in objects, tuples and records
  Partners,     \* the schemas other composites combine the chain's schema with
  Shape,        \* the fields given to extend() and merge()
  MaxCalls,     \* bound on the number of calls in a chain
  Values        \* the values schemas are run on

VARIABLES
  schema,       \* the schema at the end of the chain
  call          \* the last call, and how many there were

builderVars == <<schema, call>>

Leaf(kind) == [cls |-> kind, node |-> [kind |-> kind]]
Checked(kind) == [cls |-> kind, node |-> [kind |-> kind, checks |-> <<>>]]
Wrapped(kind, s, node) == [cls |-> kind, node |-> node, inner |-> s]

\* object(): the default policy is "strip".
Nodes(fields) == [k \in DOMAIN fields |-> fields[k].node]
ObjectOf(fields, policy) ==
  [cls |-> "object", fields |-> fields,
   node |-> [kind |-> "object", fields |-> Nodes(fields), unknownKeys |-> policy]]

WithNode(s, node) == [s EXCEPT !.node = node]

-----------------------------------------------------------------------------
(* Modifiers every schema has *)

Optional(s) == Wrapped("optional", s, [kind |-> "optional", inner |-> s.node])
Nullable(s) == Wrapped("nullable", s, [kind |-> "nullable", inner |-> s.node])
Defaulted(s, v) ==
  Wrapped("default", s, [kind |-> "default", inner |-> s.node, value |-> v])
Transformed(s, throws) ==
  Wrapped("transform", s, [kind |-> "transform", inner |-> s.node,
                           throws |-> throws, result |-> Null])

Refine(s, p) ==
  WithNode(s, IF s.node.kind = "refine"
              THEN [kind |-> "refine", inner |-> s.node.inner,
                    predicates |-> s.node.predicates \cup {p}]
              ELSE [kind |-> "refine", inner |-> s.node, predicates |-> {p}])

\* The checks a class has methods for.
StringChecks == DOMAIN Matching \cup
  {"min", "max", "length", "regex", "startsWith", "endsWith", "includes", "trim", "toLowerCase", "toUpperCase"}
NumberChecks == {"min", "max", "gt", "gte", "lt", "lte", "multipleOf", "int", "finite", "safe"}
BigIntChecks == {"min", "max", "gt", "gte", "lt", "lte", "multipleOf"}
ArrayChecks == {"min", "max", "length"}

\* On a refined schema node.checks is undefined, spreading it throws, and there
\* is no schema.
CanCheck(s, c) ==
  /\ s.node.kind = s.cls
  /\ c.kind \in CASE s.cls = "string" -> StringChecks [] s.cls = "number" -> NumberChecks
                  [] s.cls = "bigint" -> BigIntChecks [] s.cls = "array" -> ArrayChecks
                  [] OTHER -> {}
Check(s, c) == WithNode(s, [s.node EXCEPT !.checks = Append(@, c)])

-----------------------------------------------------------------------------
(* Modifiers of objects.  The policy of a refined object is written to, and *)
(* read from, the refinement's node.                                        *)

Policy(s) == IF "unknownKeys" \in DOMAIN s.node THEN s.node.unknownKeys ELSE "none"
Repolicy(s, policy) ==
  WithNode(s, [x \in DOMAIN s.node \cup {"unknownKeys"} |->
                 IF x = "unknownKeys" THEN policy ELSE s.node[x]])

\* Fault: the policy is not carried over.
Subset_Stripping(s, fields) == ObjectOf(fields, "strip")

Subset(s, fields) == ObjectOf(fields, Policy(s))
Pick(s, keys) == Subset(s, [k \in DOMAIN s.fields \cap keys |-> s.fields[k]])
Omit(s, keys) == Pick(s, DOMAIN s.fields \ keys)
Partial(s) == Subset(s, [k \in DOMAIN s.fields |-> Optional(s.fields[k])])
Required(s) ==
  Subset(s, [k \in DOMAIN s.fields |->
    IF s.fields[k].cls \in {"optional", "default"} THEN s.fields[k].inner ELSE s.fields[k]])
Extend(s, shape) == Subset(s, shape @@ s.fields)

-----------------------------------------------------------------------------
(* Composites of the chain's schema and others *)

ArrayOf(s) ==
  [cls |-> "array", node |-> [kind |-> "array", element |-> s.node, checks |-> <<>>]]
PairOf(s) ==
  [cls |-> "tuple", node |-> [kind |-> "tuple", items |-> <<s.node, Partner.node>>]]
RecordOf(keys, s) ==
  [cls |-> "record", node |-> [kind |-> "record", keys |-> keys.node, values |-> s.node]]
UnionOf(s, t) ==
  [cls |-> "union", node |-> [kind |-> "union", variants |-> <<s.node, t.node>>]]
IntersectionOf(s, t) ==
  [cls |-> "intersection",
   node |-> [kind |-> "intersection", left |-> s.node, right |-> t.node]]

\* discriminatedUnion() insists on objects with a literal string at the key.
CanDiscriminate(s, key) ==
  /\ s.node.kind = "object"
  /\ key \in DOMAIN s.node.fields
  /\ s.node.fields[key].kind = "literal"
  /\ s.node.fields[key].value.t = "string"
Discriminated(s, key) ==
  [cls |-> "discriminatedUnion",
   node |-> [kind |-> "discriminatedUnion", discriminator |-> key, variants |-> <<s.node>>]]

-----------------------------------------------------------------------------
BuilderInit == schema \in Primitives /\ call = [name |-> "new", count |-> 0]

Called(name, s) ==
  /\ call.count < MaxCalls
  /\ schema' = s
  /\ call' = [name |-> name, count |-> call.count + 1]

CallOptional == Called("optional", Optional(schema))
CallNullable == Called("nullable", Nullable(schema))
\* The value is not looked at: it may be one the schema rejects.
CallDefault == \E v \in Defaults : Called("default", Defaulted(schema, v))
CallTransform == \E throws \in BOOLEAN : Called("transform", Transformed(schema, throws))
CallRefine == \E p \in DOMAIN Rejected : Called("refine", Refine(schema, p))
CallCheck ==
  \E c \in Checks : CanCheck(schema, c) /\ Called("check", Check(schema, c))

CallRepolicy ==
  /\ schema.cls = "object"
  /\ \E policy \in {"strip", "passthrough", "strict"} :
       Called(policy, Repolicy(schema, policy))
CallSubset ==
  /\ schema.cls = "object"
  /\ \/ \E k \in DOMAIN schema.fields :
          \/ Called("pick", Pick(schema, {k}))
          \/ Called("omit", Omit(schema, {k}))
     \/ Called("partial", Partial(schema))
     \/ Called("required", Required(schema))
     \/ Called("extend", Extend(schema, Shape))

CallCompose ==
  \/ \E s \in {ObjectOf([a |-> schema, b |-> Partner], "strip"), ArrayOf(schema),
               PairOf(schema), RecordOf(Partner, schema), IntersectionOf(schema, schema)} :
       Called("compose", s)
  \/ \E p \in Partners :
       \E s \in {RecordOf(p, schema), UnionOf(p, schema), UnionOf(schema, p),
                IntersectionOf(schema, p)} :
         Called("compose", s)
  \/ CanDiscriminate(schema, "a") /\ Called("compose", Discriminated(schema, "a"))

BuilderNext ==
  \/ CallOptional \/ CallNullable \/ CallDefault \/ CallTransform \/ CallRefine
  \/ CallCheck \/ CallRepolicy \/ CallSubset \/ CallCompose

-----------------------------------------------------------------------------
(* Properties *)

RECURSIVE Resolves(_, _)
Resolves(v, path) ==
  \/ path = <<>>
  \/ /\ v.t = "object"
     /\ IF Head(path) \in DOMAIN v.f THEN Resolves(v.f[Head(path)], Tail(path))
        ELSE Len(path) = 1
  \/ /\ v.t = "array" /\ Head(path) \in DOMAIN v.e
     /\ Resolves(v.e[Head(path)], Tail(path))

\* Every issue is placed in the input, at a value or at a key an object lacks
\* (validateNode extends the path at every composite).
IssuesLocated ==
  \A v \in Values : \A i \in Parse(schema.node, v).issues : Resolves(v, i.path)

Normalizers == {"trim", "toLowerCase", "toUpperCase"}

\* A field that a parse does not add to an object that lacks it.
Unadded(field) == field.kind = "optional" \/ ~Accepts(field, Undefined)

\* The schemas that return what they accept as it is: nothing is normalized,
\* defaulted, added, or stripped.
RECURSIVE Rigid(_)
Rigid(node) ==
  CASE node.kind = "string" ->
         \A i \in DOMAIN node.checks : node.checks[i].kind \notin Normalizers
    [] node.kind \in {"transform", "default", "lazy"} -> FALSE
    [] "inner" \in DOMAIN node -> Rigid(node.inner)
    [] "fields" \in DOMAIN node ->
         /\ node.unknownKeys \in {"strict", "passthrough"}
         /\ \A k \in DOMAIN node.fields : Unadded(node.fields[k]) /\ Rigid(node.fields[k])
    [] "items" \in DOMAIN node -> \A i \in DOMAIN node.items : Rigid(node.items[i])
    [] "variants" \in DOMAIN node -> \A i \in DOMAIN node.variants : Rigid(node.variants[i])
    [] "left" \in DOMAIN node -> Rigid(node.left) /\ Rigid(node.right)
    [] "element" \in DOMAIN node -> Rigid(node.element)
    [] node.kind = "record" -> Rigid(node.values)
    [] OTHER -> TRUE

\* The schemas whose outputs may be parsed again.  Left out are transforms;
\* checks ahead of a normalizer; defaults their own schema would not return,
\* since default() does not look at its value; unions in which a variant after
\* the first changes what it accepts, for an earlier one may take the result;
\* and intersections, unless neither side changes what it accepts or both are
\* objects that add no fields.  (What lazy nodes resolve to is settled here.)
RECURSIVE Settled(_)
Settled(node) ==
  CASE node.kind = "string" ->
         \A i, j \in DOMAIN node.checks :
           (i < j /\ node.checks[j].kind \in Normalizers) => node.checks[i].kind \in Normalizers
    [] node.kind = "transform" -> FALSE
    [] node.kind = "lazy" -> TRUE
    [] node.kind = "default" ->
         Settled(node.inner) /\ Parse(node.inner, node.value) = Valid(node.value)
    [] node.kind = "union" ->
         \A i \in DOMAIN node.variants :
           IF i = 1 THEN Settled(node.variants[i]) ELSE Rigid(node.variants[i])
    [] node.kind = "intersection" ->
         \/ Rigid(node)
         \/ \A side \in {node.left, node.right} :
              /\ side.kind = "object"
              /\ Settled(side)
              /\ \A k \in DOMAIN side.fields : Unadded(side.fields[k])
    [] "inner" \in DOMAIN node -> Settled(node.inner)
    [] "fields" \in DOMAIN node -> \A k \in DOMAIN node.fields : Settled(node.fields[k])
    [] "items" \in DOMAIN node -> \A i \in DOMAIN node.items : Settled(node.items[i])
    [] "variants" \in DOMAIN node -> \A i \in DOMAIN node.variants : Settled(node.variants[i])
    [] "element" \in DOMAIN node -> Settled(node.element)
    [] node.kind = "record" -> Settled(node.values)
    [] OTHER -> TRUE

\* What a parse of a settled schema returns is accepted again, unchanged:
\* defaults, stripping and normalizing are done once (a DTO may be validated at
\* the edge and again).
ParseStable ==
  Settled(schema.node) =>
    \A v \in Values :
      LET first == Parse(schema.node, v)
      IN Accepted(first) => Parse(schema.node, first.value) = first

\* A parse answers in its input's terms, and once and for all: issues are placed
\* in the input, and outputs of settled schemas are accepted again unchanged.
ParsesSound == IssuesLocated /\ ParseStable

Accepting(node) == {v \in Values : Accepts(node, v)}

\* What the object modifiers build on: the fields of the schema and the policy
\* written to its node, without the refinements that refine() put around them.
Seen(s) == IF s.cls = "object" THEN ObjectOf(s.fields, Policy(s)).node ELSE s.node

\* required() unwraps an optional or default field by its class, and with the
\* wrapper goes what refine() put around it.
Unrefined(s) == IF s.node.kind = "refine" THEN WithNode(s, s.node.inner) ELSE s
SeenFields(s) ==
  ObjectOf([k \in DOMAIN s.fields |->
              IF s.fields[k].cls \in {"optional", "default"} THEN Unrefined(s.fields[k])
              ELSE s.fields[k]], Policy(s)).node

\* A modifier only loosens or only tightens.  Wrappers and the policies strip()
\* and passthrough() never reject what the schema before accepted; refinements,
\* checks and strict() never accept what it rejected, whatever chain they end.
\* So do partial() and required(), up to the refinements they forget: of the
\* object (ObjectSchema.subset) and, for required(), of optional and default
\* fields; a refined schema that is only called "strict" becomes so then.
ModifiersMonotone ==
  [][/\ call'.name \in {"optional", "nullable", "default", "passthrough", "strip"} =>
          Accepting(schema.node) \subseteq Accepting(schema'.node)
     /\ call'.name \in {"refine", "check", "strict"} =>
          Accepting(schema'.node) \subseteq Accepting(schema.node)
     /\ call'.name = "partial" => Accepting(Seen(schema)) \subseteq Accepting(schema'.node)
     /\ call'.name = "required" =>
          Accepting(schema'.node) \subseteq Accepting(SeenFields(schema))]_builderVars

=============================================================================
