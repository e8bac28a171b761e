-------------------------------- MODULE Sdl --------------------------------
(***************************************************************************)
(* Schemas as GraphQL SDL: sdl() walks the entries of its type map, then   *)
(* the operation roots of its options, and every object, enum and union it *)
(* meets is declared once under a name of its own.  An entry is an action; *)
(* the context of the conversion is the state.                             *)
(*                                                                         *)
(* A name is a sequence of words: User.tags is <<"User", "Tags">>, and so  *)
(* is a type called UserTags.  A node that must differ from one of equal   *)
(* content has a field "at".  Type references are [name |-> n] or          *)
(* [list |-> reference, required |-> BOOLEAN].                             *)
(***************************************************************************)
EXTENDS OpenApiDocument

CONSTANTS
  Clean,        \* the names that are sanitized -> the clean name, <<>> if nothing is left
  Pascals,      \* field or argument -> its words in Pascal case
  Catalogue,    \* type entries [key, node]
  RootInputs,   \* values of options: sequences of [name, fields] or [name, node]
  MaxTypes      \* bound on the entries of a type map

VARIABLES
  sdlEntries,   \* the keys of the type map so far
  sdlStage,     \* "types" or "roots"
  sdlRoots,     \* the operation roots still to come
  sdlContext    \* Context

sdlVars == <<sdlEntries, sdlStage, sdlRoots, sdlContext>>

OperationRoots == {<<"Query">>, <<"Mutation">>, <<"Subscription">>}

NewContext(federation) ==
  [warnings |-> {}, declared |-> <<>>, names |-> {}, scalars |-> {}, blocks |-> <<>>,
   active |-> {}, thrown |-> FALSE, federation |-> federation]

Warn(ctx, path, code) == [ctx EXCEPT !.warnings = @ \cup {<<path, code>>}]
Declare(ctx, node, declared) == [ctx EXCEPT !.declared = (node :> declared) @@ @]
Emit(ctx, block) == [ctx EXCEPT !.blocks = Append(@, block)]
Named(ctx, name) == [ctx |-> ctx, type |-> [name |-> name]]
Scalar(ctx, name) == Named([ctx EXCEPT !.scalars = @ \cup {name}], name)
AsJson(ctx, path, code) == Scalar(Warn(ctx, path, code), <<"JSON">>)

SanitizeName(raw, fallback) ==
  LET out == IF raw \in DOMAIN Clean THEN Clean[raw] ELSE raw
  IN IF out = <<>> THEN fallback ELSE out

\* Fault: a derived name is taken to be free.
ClaimName_Unchecked(ctx, path, base, fallback) ==
  LET clean == SanitizeName(base, fallback)
      name == IF clean \in ctx.names /\ Len(clean) = 1 THEN Append(clean, "2") ELSE clean
  IN [ctx |-> [ctx EXCEPT !.names = @ \cup {name}], name |-> name]

\* The first of X, X2, X3, ... that is free.
FirstFree(names, clean) ==
  LET Candidate(i) == IF i = 1 THEN clean ELSE Append(clean, ToString(i))
  IN Candidate(CHOOSE i \in 1..Cardinality(names) + 1 :
                 /\ Candidate(i) \notin names
                 /\ \A j \in 1..i - 1 : Candidate(j) \in names)

Claimed(ctx, path, base, name) ==
  [ctx |-> [ctx EXCEPT !.names = @ \cup {name},
              !.warnings = @ \cup IF name = base THEN {} ELSE {<<path, "name-sanitized">>}],
   name |-> name]
ClaimName(ctx, path, base, fallback) ==
  Claimed(ctx, path, base, FirstFree(ctx.names, SanitizeName(base, fallback)))

\* Directives of the federation facet, on a type and on a field.
TypeDirectives == {"key", "keys", "shareable", "inaccessible", "tags", "override", "directives"}
FieldDirectives ==
  {"shareable", "external", "provides", "requires", "override", "tags", "inaccessible", "directives"}
Directives(ctx, node, allowed) ==
  IF ctx.federation /\ "federation" \in DOMAIN node THEN node.federation \cap allowed ELSE {}

-----------------------------------------------------------------------------
(* What a field may be: undefined going in, undefined or null coming out.  *)

RECURSIVE InputUndef(_, _), OutputUndef(_, _), NullAccepting(_, _)

InputUndef(node, seen) ==
  CASE node.kind \in {"optional", "default", "any", "unknown", "undefined"} -> TRUE
    [] node.kind = "literal" -> node.value = Undefined
    [] node.kind \in {"nullable", "refine", "transform"} -> InputUndef(node.inner, seen)
    [] node.kind = "union" -> \E i \in DOMAIN node.variants : InputUndef(node.variants[i], seen)
    [] node.kind = "lazy" ->
         node \notin seen /\ InputUndef(Resolved[node.ref], seen \cup {node})
    [] OTHER -> FALSE

\* Conservative: a transform may return undefined.
OutputUndef(node, seen) ==
  CASE node.kind \in {"optional", "any", "unknown", "undefined", "transform"} -> TRUE
    [] node.kind = "literal" -> node.value = Undefined
    [] node.kind \in {"default", "nullable", "refine"} -> OutputUndef(node.inner, seen)
    [] node.kind = "union" -> \E i \in DOMAIN node.variants : OutputUndef(node.variants[i], seen)
    [] node.kind = "lazy" ->
         node \in seen \/ OutputUndef(Resolved[node.ref], seen \cup {node})
    [] OTHER -> FALSE

\* Fault: the null of a nullable schema is lost behind a default.
NullAccepting_NotDefault(node, seen) ==
  CASE node.kind \in {"nullable", "null"} -> TRUE
    [] node.kind \in {"optional", "refine", "transform"} -> NullAccepting(node.inner, seen)
    [] OTHER -> FALSE

NullAccepting(node, seen) ==
  CASE node.kind \in {"nullable", "null"} -> TRUE
    [] node.kind = "literal" -> node.value = Null
    [] node.kind \in {"optional", "default", "refine", "transform"} ->
         NullAccepting(node.inner, seen)
    [] node.kind = "union" -> \E i \in DOMAIN node.variants : NullAccepting(node.variants[i], seen)
    [] node.kind = "lazy" ->
         node \notin seen /\ NullAccepting(Resolved[node.ref], seen \cup {node})
    [] OTHER -> FALSE

NonNull(node, side) ==
  /\ ~(IF side = "input" THEN InputUndef(node, {}) ELSE OutputUndef(node, {}))
  /\ ~NullAccepting(node, {})

\* The literal of a default: at most one.  Items and entries are rendered
\* against the field itself, not against its element.
RECURSIVE Unwrapped(_), DefaultLiteral(_, _)
Unwrapped(node) ==
  IF node.kind \in {"default", "nullable", "optional"} THEN Unwrapped(node.inner) ELSE node

DefaultLiteral(value, field) ==
  LET inner == Unwrapped(field)
      Parts(m) ==
        LET each == [k \in DOMAIN m |-> DefaultLiteral(m[k], field)]
        IN IF \E k \in DOMAIN m : each[k] = {} THEN {}
           ELSE {[parts |-> [k \in DOMAIN m |-> CHOOSE x \in each[k] : TRUE]]}
      isMember == \/ inner.kind = "enum" /\ value.t = "string" /\ value.s \in inner.values
                  \/ inner.kind = "literal" /\ inner.value = value
  IN CASE value.t = "string" ->
            {IF isMember THEN [member |-> SanitizeName(value.s, <<"V">>)] ELSE [json |-> value]}
       [] value.t = "array" -> Parts(value.e)
       [] value.t = "object" -> IF \E k \in DOMAIN value.f : <<k>> \in DOMAIN Clean THEN {}
                                ELSE Parts(value.f)
       [] value = Undefined \/ value = NaN -> {}
       [] OTHER -> {[json |-> value]}

-----------------------------------------------------------------------------
(* References, and the declarations they bring about *)
RECURSIVE Ref(_, _, _, _, _)

\* Members that sanitize to one name are numbered.
EnumMembers(values) ==
  LET Step(members, v) ==
        Append(members, ClaimName([NewContext(FALSE) EXCEPT !.names = ToSet(members)],
                                  <<>>, v, <<"V">>).name)
  IN FoldLeft(Step, <<>>, SetToSeq(values))

\* The name of a type that is met as a part: its id, or a hint from its place.
NewName(ctx, node, path, hint, fallback) ==
  ClaimName(ctx, path, IF "id" \in DOMAIN node THEN node.id ELSE hint, fallback)

EnumType(ctx, node, values, path, claim) ==
  LET clean == [v \in values |-> SanitizeName(v, <<"V">>)]
      marked == IF \A v \in values : clean[v] = v THEN claim.ctx
                ELSE Warn(claim.ctx, path, "name-sanitized")
  IN IF node \in DOMAIN ctx.declared THEN Named(ctx, ctx.declared[node].name)
     ELSE Named(Emit(Declare(marked, node, [name |-> claim.name]),
                     [block |-> "enum", name |-> claim.name, members |-> EnumMembers(values)]),
                claim.name)

\* A reference with the mark of a required value.
Marked(r, node, side) == [ctx |-> r.ctx, item |-> [type |-> r.type, required |-> NonNull(node, side)]]

\* A field is converted for the type and for the input, each in its turn.
AddSide(acc, side, r) == [acc EXCEPT !.ctx = r.ctx, !.types = (side :> r.type) @@ @]
FieldRefs(ctx, field, path, hint) ==
  FoldLeft(LAMBDA acc, side : AddSide(acc, side, Ref(field, acc.ctx, path, hint, side)),
           [ctx |-> ctx, types |-> <<>>, args |-> <<>>], <<"output", "input">>)

AddArg(acc, arg, node, path, r) ==
  LET name == SanitizeName(<<arg>>, <<"arg">>)
      codes == (IF name # <<arg>> THEN {"name-sanitized"} ELSE {}) \cup
               (IF node.kind = "default" /\ DefaultLiteral(node.value, node) = {}
                THEN {"nonserializable-default"} ELSE {})
  IN [acc EXCEPT
       !.ctx = [r.ctx EXCEPT !.warnings = @ \cup {<<path, c>> : c \in codes}],
       !.args = (name :> Marked(r, node, "input").item) @@ @]

\* The arguments of a field of an operation root follow its types.
FieldArgs(refs, field, path, hint, isRoot) ==
  FoldLeft(LAMBDA acc, arg :
             AddArg(acc, arg, field.args[arg], Append(path, arg),
               Ref(field.args[arg], acc.ctx, Append(path, arg), hint \o Pascals[arg], "input")),
           refs, IF isRoot /\ "args" \in DOMAIN field THEN SetToSeq(DOMAIN field.args) ELSE <<>>)

FieldWarnings(key, field, clean, literal, isRoot) ==
  (IF clean # <<key>> THEN {"name-sanitized"} ELSE {}) \cup
  (IF ~isRoot /\ field.kind = "default" /\ literal = {}
   THEN {"nonserializable-default"} ELSE {}) \cup
  (IF ~isRoot /\ ~InputUndef(field, {}) /\ NullAccepting(field, {})
   THEN {"required-nullable"} ELSE {})

AddField(acc, key, field, path, isRoot, refs) ==
  LET clean == SanitizeName(<<key>>, <<"field">>)
      literal == IF field.kind = "default" THEN DefaultLiteral(field.value, field) ELSE {}
      codes == FieldWarnings(key, field, clean, literal, isRoot)
  IN [ctx |-> [refs.ctx EXCEPT !.warnings = @ \cup {<<path, c>> : c \in codes}],
      outs |-> Append(acc.outs,
        [key |-> key, field |-> clean, args |-> refs.args, type |-> refs.types["output"],
         required |-> NonNull(field, "output"),
         directives |-> Directives(acc.ctx, field, FieldDirectives)]),
      ins |-> Append(acc.ins,
        [key |-> key, field |-> clean, type |-> refs.types["input"],
         required |-> NonNull(field, "input"), default |-> literal])]

ConvertField(acc, key, field, path, hint, isRoot) ==
  AddField(acc, key, field, path, isRoot,
    FieldArgs(FieldRefs(acc.ctx, field, path, hint), field, path, hint, isRoot))

\* A type and, unless it is an operation root, an input.
ObjectBlocks(done, names, directives) ==
  LET type == [block |-> "type", name |-> names.name, fields |-> done.outs,
               directives |-> directives]
      input == [block |-> "input", name |-> names.input, fields |-> done.ins]
  IN [done.ctx EXCEPT !.blocks =
        @ \o IF names.name \in OperationRoots THEN <<type>> ELSE <<type, input>>]

\* buildObjectBlocks()
BuildObject(ctx, node, path, names) ==
  LET Hint(key) == names.name \o (IF Pascals[key] = <<>> THEN <<"Field">> ELSE Pascals[key])
  IN ObjectBlocks(
       FoldLeft(LAMBDA acc, key :
                  ConvertField(acc, key, node.fields[key], Append(path, key), Hint(key),
                               names.name \in OperationRoots),
                [ctx |-> ctx, outs |-> <<>>, ins |-> <<>>], SetToSeq(DOMAIN node.fields)),
       names, Directives(ctx, node, TypeDirectives))

WithInput(name) == Append(name, "Input")

\* The input of an operation root has a name that is not claimed.
UnclaimedInput(claim) ==
  [ctx |-> [claim.ctx EXCEPT !.names = @ \cup {WithInput(claim.name)}],
   name |-> WithInput(claim.name)]
InputName(claim, path) ==
  IF claim.name \in OperationRoots THEN UnclaimedInput(claim)
  ELSE ClaimName(claim.ctx, path, WithInput(claim.name), <<"AnonymousInput">>)

\* An object is declared before its fields are converted, so that recursion
\* ends at the name.
NewObject(ctx, node, path, names, declares) ==
  [ctx |-> BuildObject(IF declares THEN Declare(ctx, node, names) ELSE ctx, node, path, names),
   names |-> names]
WithNames(claim, input, node, path, declares) ==
  NewObject(input.ctx, node, path, [name |-> claim.name, input |-> input.name], declares)
ClaimedObject(claim, node, path, declares) ==
  WithNames(claim, InputName(claim, path), node, path, declares)

\* objectName()
ObjectName(ctx, node, path, hint, declares) ==
  IF node \in DOMAIN ctx.declared THEN [ctx |-> ctx, names |-> ctx.declared[node]]
  ELSE ClaimedObject(NewName(ctx, node, path, hint, <<"Anonymous">>), node, path, declares)

Side(r, side) == Named(r.ctx, IF side = "input" THEN r.names.input ELSE r.names.name)

AddItem(acc, m) == [ctx |-> m.ctx, refs |-> acc.refs \cup {m.item}]
TupleType(done, path) ==
  LET same == CHOOSE r \in done.refs : TRUE
  IN IF Cardinality(done.refs) = 1
     THEN [ctx |-> Warn(done.ctx, path, "tuple-length-lost"),
           type |-> [list |-> same.type, required |-> same.required]]
     ELSE AsJson(done.ctx, path, "tuple-as-json")
Tuple(ctx, items, path, hint, side) ==
  TupleType(
    FoldLeft(LAMBDA acc, i :
               AddItem(acc, Marked(Ref(items[i], acc.ctx, Append(path, ToString(i)), hint, side),
                                   items[i], side)),
             [ctx |-> ctx, refs |-> {}], [i \in DOMAIN items |-> i]),
    path)

\* The variants that count: null and undefined make the field nullable.
Absent(node) ==
  \/ node.kind \in {"null", "undefined", "never"}
  \/ node.kind = "literal" /\ node.value \in {Null, Undefined}

AddMember(acc, o) == [ctx |-> o.ctx, members |-> Append(acc.members, o.names.name)]
UnionNamed(done, name) ==
  IF Len(done.members) = 1 THEN Named(done.ctx, done.members[1])
  ELSE Named(Emit(done.ctx, [block |-> "union", name |-> name, members |-> done.members]), name)

\* The name of a union is claimed and declared before it is known to have several members.
Members(claim, node, objects, path) ==
  FoldLeft(LAMBDA acc, i :
             AddMember(acc, ObjectName(acc.ctx, objects[i], path,
                              Append(claim.name, "Member" \o ToString(i - 1)), TRUE)),
           [ctx |-> Declare(claim.ctx, node, [name |-> claim.name]), members |-> <<>>],
           [i \in DOMAIN objects |-> i])

UnionType(ctx, node, path, side, claim) ==
  LET objects == SelectSeq(node.variants, LAMBDA w : ~Absent(w))
  IN IF side = "input" THEN AsJson(ctx, path, "input-union-as-json")
     ELSE IF node \in DOMAIN ctx.declared THEN Named(ctx, ctx.declared[node].name)
     ELSE IF objects = <<>> \/ \E i \in DOMAIN objects : objects[i].kind # "object"
     THEN AsJson(ctx, path, "scalar-union-as-json")
     ELSE UnionNamed(Members(claim, node, objects, path), claim.name)

\* Fields of the right operand win.
Merged(node) ==
  [kind |-> "object", fields |-> node.right.fields @@ node.left.fields,
   unknownKeys |-> node.left.unknownKeys]
Mergeable(node) == node.left.kind = "object" /\ node.right.kind = "object"

\* The intersection is declared, the merged object is not.
DeclaredAs(node, o) == [o EXCEPT !.ctx = Declare(@, node, o.names)]
IntersectionType(ctx, node, path, hint, side) ==
  IF ~Mergeable(node) THEN AsJson(ctx, path, "intersection-as-json")
  ELSE IF node \in DOMAIN ctx.declared
  THEN Side([ctx |-> ctx, names |-> ctx.declared[node]], side)
  ELSE Side(DeclaredAs(node, ObjectName(Warn(ctx, path, "intersection-merged"), Merged(node),
                                        path, hint, FALSE)), side)

LiteralType(ctx, node, path, hint) ==
  LET value == node.value
  IN IF value.t = "string" THEN EnumType(ctx, node, {value.s}, path,
                                         NewName(ctx, node, path, hint, <<"AnonymousEnum">>))
     ELSE IF value.t = "bigint" THEN Scalar(ctx, <<"BigInt">>)
     ELSE Named(Warn(ctx, path, "literal-fallback"),
            CASE value.t = "number" -> IF IsInteger(value.n) THEN <<"Int">> ELSE <<"Float">>
              [] value.t = "boolean" -> <<"Boolean">>
              [] OTHER -> <<"String">>)

HasCheck(node, kinds) == \E i \in DOMAIN node.checks : node.checks[i].kind \in kinds

LeafType(ctx, node, path, hint) ==
  CASE node.kind = "string" ->
         Named(IF HasCheck(node, {"trim", "toLowerCase", "toUpperCase"})
               THEN Warn(ctx, path, "normalizer-dropped") ELSE ctx, <<"String">>)
    [] node.kind = "number" ->
         Named(ctx, IF HasCheck(node, {"int", "safe"}) THEN <<"Int">> ELSE <<"Float">>)
    [] node.kind = "boolean" -> Named(ctx, <<"Boolean">>)
    [] node.kind = "bigint" -> Scalar(ctx, <<"BigInt">>)
    [] node.kind = "date" -> Scalar(ctx, <<"DateTime">>)
    [] node.kind \in {"null", "undefined"} -> Named(Warn(ctx, path, "literal-fallback"), <<"String">>)
    [] node.kind \in {"any", "unknown"} -> Scalar(ctx, <<"JSON">>)
    [] node.kind = "never" -> AsJson(ctx, path, "never-as-json")
    [] node.kind = "record" -> AsJson(ctx, path, "record-as-json")

Listed(m) == [ctx |-> m.ctx, type |-> [list |-> m.item.type, required |-> m.item.required]]

\* A lazy node that is met again while it is being resolved makes sdl() throw.
LazyType(ctx, node, path, hint, side) ==
  IF node \in ctx.active THEN Named([ctx EXCEPT !.thrown = TRUE], <<>>)
  ELSE LET r == Ref(Resolved[node.ref], [ctx EXCEPT !.active = @ \cup {node}], path, hint, side)
       IN [r EXCEPT !.ctx.active = ctx.active]

Ref(node, ctx, path, hint, side) ==
  CASE node.kind = "literal" -> LiteralType(ctx, node, path, hint)
    [] node.kind = "enum" ->
         EnumType(ctx, node, node.values, path,
                  NewName(ctx, node, path, hint, <<"AnonymousEnum">>))
    [] node.kind = "object" -> Side(ObjectName(ctx, node, path, hint, TRUE), side)
    [] node.kind = "array" ->
         Listed(Marked(Ref(node.element, ctx, path, hint, side), node.element, side))
    [] node.kind = "tuple" -> Tuple(ctx, node.items, path, hint, side)
    [] node.kind \in {"union", "discriminatedUnion"} ->
         UnionType(ctx, node, path, side, NewName(ctx, node, path, hint, <<"AnonymousUnion">>))
    [] node.kind = "intersection" -> IntersectionType(ctx, node, path, hint, side)
    [] node.kind \in {"optional", "nullable", "default"} -> Ref(node.inner, ctx, path, hint, side)
    [] node.kind = "transform" ->
         IF side = "input" THEN Ref(node.inner, ctx, path, hint, side)
         ELSE AsJson(ctx, path, "transform-output-opaque")
    [] node.kind = "refine" ->
         Ref(node.inner, Warn(ctx, path, "refinement-dropped"), path, hint, side)
    [] node.kind = "lazy" -> LazyType(ctx, node, path, hint, side)
    [] OTHER -> LeafType(ctx, node, path, hint)

-----------------------------------------------------------------------------
(* sdl() *)

RECURSIVE ResolveRoot(_)
ResolveRoot(node) == IF node.kind = "lazy" THEN ResolveRoot(Resolved[node.ref]) ELSE node

\* toObjectNode(): a map of fields becomes an object; a schema must be one.
RootNode(root) ==
  IF "fields" \in DOMAIN root
  THEN {[kind |-> "object", fields |-> root.fields, unknownKeys |-> "strip", id |-> root.name]}
  ELSE {n \in {ResolveRoot(root.node)} : n.kind = "object"}

SdlInit ==
  /\ sdlEntries = <<>>
  /\ sdlStage = "types"
  /\ sdlRoots \in RootInputs
  /\ \E federation \in BOOLEAN :
       sdlContext = [NewContext(federation) EXCEPT !.warnings =
         {<<<<sdlRoots[i].name>>, "invalid-operation-root">> :
            i \in {i \in DOMAIN sdlRoots : RootNode(sdlRoots[i]) = {}}}]

\* An intersection is declared itself, and built as the object it merges into,
\* with facets of its own.
EntryIntersection(claim, input, node, path) ==
  LET names == [name |-> claim.name, input |-> input.name]
  IN BuildObject(Declare(input.ctx, node, names), Merged(node) @@ node, path, names)

\* The kind of an entry decides, once its name was claimed in ctx.
EntryOf(ctx, claim, node, path) ==
  LET declarable == \/ node.kind \in {"object", "enum", "union", "discriminatedUnion"}
                    \/ node.kind = "intersection" /\ Mergeable(node)
      merges == Warn(claim.ctx, path, "intersection-merged")
  IN IF ~declarable THEN Warn(claim.ctx, path, "root-kind-unsupported")
     ELSE IF node \in DOMAIN ctx.declared THEN Warn(claim.ctx, path, "duplicate-type")
     ELSE CASE node.kind = "object" -> ClaimedObject(claim, node, path, TRUE).ctx
            [] node.kind = "enum" -> EnumType(claim.ctx, node, node.values, path, claim).ctx
            [] node.kind = "intersection" ->
                 EntryIntersection(claim,
                   ClaimName(merges, path, WithInput(claim.name), <<"AnonymousInput">>), node, path)
            [] OTHER -> UnionType(claim.ctx, node, path, "output", claim).ctx

Entry(ctx, key, entry) ==
  EntryOf(ctx, ClaimName(ctx, <<key>>, key, <<"Anonymous">>), ResolveRoot(entry), <<key>>)

ConvertType ==
  /\ sdlStage = "types"
  /\ ~sdlContext.thrown
  /\ Len(sdlEntries) < MaxTypes
  /\ \E entry \in Catalogue :
       /\ entry.key \notin ToSet(sdlEntries)
       /\ sdlEntries' = Append(sdlEntries, entry.key)
       /\ sdlContext' = Entry(sdlContext, entry.key, entry.node)
  /\ UNCHANGED <<sdlRoots, sdlStage>>

\* A root whose name is taken is numbered, and then it has an input block, whose
\* name is added to the names without being claimed.
RootObject(claim, node, path) == WithNames(claim, UnclaimedInput(claim), node, path, TRUE).ctx

\* After the types.
ConvertRoot ==
  /\ ~sdlContext.thrown
  /\ sdlRoots # <<>>
  /\ sdlRoots' = Tail(sdlRoots)
  /\ sdlContext' =
       LET path == <<Head(sdlRoots).name>>
           nodes == RootNode(Head(sdlRoots))
           node == CHOOSE n \in nodes : TRUE
       IN IF nodes = {} THEN sdlContext
          ELSE IF node \in DOMAIN sdlContext.declared
          THEN Warn(sdlContext, path, "duplicate-type")
          ELSE RootObject(ClaimName(sdlContext, path, Head(sdlRoots).name, <<"Anonymous">>),
                          node, path)
  /\ sdlStage' = "roots"
  /\ UNCHANGED sdlEntries

SdlNext == ConvertType \/ ConvertRoot

Defined(kinds) ==
  {i \in DOMAIN sdlContext.blocks : sdlContext.blocks[i].block \in kinds}
DefinedNames(kinds) == {sdlContext.blocks[i].name : i \in Defined(kinds)}

-----------------------------------------------------------------------------
(* Properties *)

RECURSIVE NameIn(_)
NameIn(type) == IF "list" \in DOMAIN type THEN NameIn(type.list) ELSE type.name

BuiltIn == {<<"String">>, <<"Int">>, <<"Float">>, <<"Boolean">>}
Unions(n) == {node \in DOMAIN sdlContext.declared :
                /\ node.kind \in {"union", "discriminatedUnion"}
                /\ Len(SelectSeq(node.variants, LAMBDA w : ~Absent(w))) = n}

\* Every name a document refers to is defined in it exactly once, and in the
\* right direction: types and unions where values come out, inputs where they
\* go in.  Three places of the code are known to fall short: the name of a union
\* with one object member is handed out by declared, an operation root has no
\* input block to be referred to, and the definitions of scalars are added
\* without their names being claimed (sdl.ts:1158-1160): a type the application
\* calls JSON stands beside the scalar of that name (as does one with a derived
\* name that spells so, JSO with a field n, which names made of words do not show).
DocumentClosed ==
  ~sdlContext.thrown =>
    LET blocks == sdlContext.blocks
        either == BuiltIn \cup sdlContext.scalars \cup DefinedNames({"enum"})
        outward == either \cup DefinedNames({"type", "union"}) \cup
                   {sdlContext.declared[n].name : n \in Unions(1)}
        inward == either \cup DefinedNames({"input"}) \cup {WithInput(n) : n \in OperationRoots}
    IN /\ \A i, j \in DOMAIN blocks : blocks[i].name = blocks[j].name => i = j
       /\ \A i \in DOMAIN blocks :
            blocks[i].name \in sdlContext.scalars => blocks[i].name \in ToSet(sdlEntries)
       /\ \A i \in Defined({"union"}) : ToSet(blocks[i].members) \subseteq DefinedNames({"type"})
       /\ \A i \in Defined({"input"}) : \A k \in DOMAIN blocks[i].fields :
            NameIn(blocks[i].fields[k].type) \in inward
       /\ \A i \in Defined({"type"}) : \A k \in DOMAIN blocks[i].fields :
            /\ NameIn(blocks[i].fields[k].type) \in outward
            /\ LET args == blocks[i].fields[k].args
               IN \A x \in DOMAIN args : NameIn(args[x].type) \in inward

\* nullAccepting(), inputUndef() and outputUndef() do not look into intersections.
RECURSIVE TakesAbsent(_)
TakesAbsent(node) ==
  CASE node.kind = "intersection" ->
         \E v \in Values : LET r == Parse(node, v)
                          IN Accepted(r) /\ {v, r.value} \cap {Null, Undefined} # {}
    [] "inner" \in DOMAIN node -> TakesAbsent(node.inner)
    [] node.kind = "union" -> \E i \in DOMAIN node.variants : TakesAbsent(node.variants[i])
    [] OTHER -> FALSE

\* "!" is a promise: a value that a schema accepts is never null or undefined
\* where the type says it is not.  The intersection of two schemas that both
\* accept, or return, null or undefined is known to break it (the defaults at
\* sdl.ts:214, 251 and 284), and nothing else does.
NullabilitySound ==
  ~TakesAbsent(schema.node) =>
    \A v \in Values :
      LET r == Parse(schema.node, v)
      IN Accepted(r) =>
           /\ NonNull(schema.node, "output") => r.value \notin {Undefined, Null}
           /\ NonNull(schema.node, "input") => v \notin {Undefined, Null}

\* A generated document stands by itself, and its "!" are true.
DocumentSound == DocumentClosed /\ NullabilitySound

=============================================================================
