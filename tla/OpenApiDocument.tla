-------------------------- MODULE OpenApiDocument --------------------------
(***************************************************************************)
(* OpenAPI documents: schemas registered as components, operations under   *)
(* paths and webhooks, and the documents generated from the routes of an   *)
(* application.  Bodies, responses and parameters are reduced to what      *)
(* conversion looks into: a reference, or a map from media types (or the   *)
(* field "schema") to schema inputs; what is copied verbatim is left out.  *)
(* An input is [ref |-> name] or [node |-> a schema's node].               *)
(***************************************************************************)
EXTENDS OpenApi

CONSTANTS
  Apps,         \* name of an application -> its sequence of routes
  RouteMap,     \* <<method, path>> -> [input, output, operation]: two sets of at most
                \* one node, and the operation as far as the caller wrote it
  Given,        \* the path items of the caller's options.paths, as first written
  OasSegment,   \* ":id" -> "{id}", "*" -> "{wildcard}", others to themselves
  Uppercase,    \* method names as route tables are keyed
  Lowercase,
  MaxDocuments  \* bound on the number of generated documents

VARIABLES
  shared,       \* the path items of the caller's options.paths
  document,     \* the last document generated
  earlier       \* what the documents before it were generated of: [app, auto]

documentVars == <<shared, document, earlier>>

Standard == {"get", "put", "post", "delete", "options", "head", "patch", "trace"}
IsRef(input) == "ref" \in DOMAIN input

ToOasSchema(input, version, defs) ==
  IF IsRef(input) THEN Plain(RefTo(input.ref))
  ELSE Convert(input.node, version, defs, {}, FALSE)

\* Request bodies, responses and parameters: all a reference or a content map.
ConvertContent(input, version, defs) ==
  IF IsRef(input) THEN Plain(RefTo(input.ref))
  ELSE Each(input, LAMBDA s : ToOasSchema(s, version, defs))

ConvertContents(m, version, defs) == Each(m, LAMBDA c : ConvertContent(c, version, defs))

\* An operation maps "parameters", "requestBody" and "responses" to maps.
ConvertOperation(op, version, defs) ==
  Each(op, LAMBDA part : ConvertContents(part, version, defs))

\* Only the methods OpenAPI knows are looked up in an item.
ConvertPathItem(item, version, defs) ==
  Each([m \in DOMAIN item \cap Standard |-> item[m]],
       LAMBDA op : ConvertOperation(op, version, defs))

ConvertPaths(items, version, defs) ==
  Each(items, LAMBDA item : ConvertPathItem(item, version, defs))

ConvertComponents(components, version, defs) ==
  LET plain == [k \in DOMAIN components \ {"pathItems"} |-> components[k]]
      contents == Each(plain, LAMBDA m : ConvertContents(m, version, defs))
      items == ConvertPaths(components["pathItems"], version, defs)
  IN IF "pathItems" \in DOMAIN components
     THEN Conversion(("pathItems" :> items.out) @@ contents.out,
                     contents.warnings \cup items.warnings)
     ELSE contents

\* buildDocument(): a schema given by name wins over a component of that name;
\* the nodes of all of them become $refs wherever they occur.
BuildDocument(version, schemas, options) ==
  LET all == schemas @@ options.schemas
      defs == [name \in {n \in DOMAIN all : ~IsRef(all[n])} |-> all[name].node]
      components == Each(all, LAMBDA input :
                      IF IsRef(input) THEN Plain(RefTo(input.ref))
                      ELSE Convert(input.node, version, defs, {}, TRUE))
      paths == ConvertPaths(options.paths, version, defs)
      webhooks == IF version = "3.0" THEN Conversion(<<>>, {"webhooks-requires-3.1"})
                  ELSE ConvertPaths(options.webhooks, version, defs)
      others == ConvertComponents(options.components, version, defs)
  IN [version |-> version, schemas |-> components.out, paths |-> paths.out,
      webhooks |-> IF options.webhooks = <<>> THEN <<>> ELSE webhooks.out,
      components |-> others.out, defs |-> defs,
      warnings |-> components.warnings \cup paths.warnings \cup others.warnings
                   \cup IF options.webhooks = <<>> THEN {} ELSE webhooks.warnings]

-----------------------------------------------------------------------------
(* generateMinoDocument(): one operation per route *)

\* Slashes in a row become one; one at the end stays, as an empty last segment.
MinoPath(path) ==
  LET kept == {i \in DOMAIN path : path[i] # "" \/ i = Len(path)}
      segments == [i \in 1..Cardinality(kept) |->
                     path[CHOOSE k \in kept : Cardinality({j \in kept : j <= k}) = i]]
  IN [i \in DOMAIN segments |-> OasSegment[segments[i]]]

\* The map is tried with the method as it is, in capitals, and in small letters.
RouteMapEntry(route) ==
  LET keys == SelectSeq(<<route.method, Uppercase[route.method], Lowercase[route.method]>>,
                        LAMBDA m : <<m, route.path>> \in DOMAIN RouteMap)
  IN IF keys = <<>> THEN [input |-> {}, output |-> {}, operation |-> <<>>]
     ELSE RouteMap[<<Head(keys), route.path>>]

\* Names are AutoInput1, AutoOutput2, ...: one counter serves both.
AutoName(kind, n) == <<kind, n>>
Json(nodes) == "application/json" :> [node |-> CHOOSE n \in nodes : TRUE]

Part(operation, part) == IF part \in DOMAIN operation THEN operation[part] ELSE <<>>

\* The input joins, as the JSON content, the body the caller wrote.
WithBody(operation, entry, auto) ==
  LET body == Part(Part(operation, "requestBody"), "body")
  IN IF entry.input = {} \/ ~auto THEN operation
     ELSE ("requestBody" :> ("body" :> (Json(entry.input) @@ body))) @@ operation

\* The output is the response 200, unless the caller wrote one.
TakesOutput(entry, auto) ==
  entry.output # {} /\ auto /\ "200" \notin DOMAIN Part(entry.operation, "responses")

\* Fault: a response the caller wrote is replaced.
WithResponse_Replacing(operation, entry, auto) ==
  IF entry.output # {} /\ auto
  THEN ("responses" :> (("200" :> Json(entry.output)) @@ Part(operation, "responses"))) @@ operation
  ELSE operation @@ ("responses" :> ("200" :> <<>>))

WithResponse(operation, entry, auto) ==
  IF TakesOutput(entry, auto)
  THEN ("responses" :> (("200" :> Json(entry.output)) @@ Part(operation, "responses"))) @@ operation
  ELSE operation @@ ("responses" :> ("200" :> <<>>))

OperationOf(entry, auto) ==
  WithResponse(WithBody(entry.operation, entry, auto), entry, auto)

\* An operation is put beside those its path has.  A schema is registered under
\* a name of its own, unless the caller has one of that name.
AddRoute(acc, route, auto) ==
  LET entry == RouteMapEntry(route)
      method == Lowercase[route.method]
      path == MinoPath(route.path)
      item == IF path \in DOMAIN acc.paths THEN acc.paths[path] ELSE <<>>
      asInput == IF entry.input = {} \/ ~auto THEN 0 ELSE 1
      asOutput == IF TakesOutput(entry, auto) THEN 1 ELSE 0
      Named(kind, n, nodes) ==
        IF nodes = {} THEN <<>> ELSE AutoName(kind, n) :> [node |-> CHOOSE x \in nodes : TRUE]
  IN IF method \notin Standard THEN acc
     ELSE [paths |-> (path :> ((method :> OperationOf(entry, auto)) @@ item)) @@ acc.paths,
           schemas |-> acc.schemas
             @@ Named("AutoInput", acc.counter + 1, IF asInput = 0 THEN {} ELSE entry.input)
             @@ Named("AutoOutput", acc.counter + asInput + 1,
                      IF asOutput = 0 THEN {} ELSE entry.output),
           counter |-> acc.counter + asInput + asOutput]

Collected(app, auto, schemas, paths) ==
  FoldLeft(LAMBDA acc, route : AddRoute(acc, route, auto),
           [paths |-> paths, schemas |-> schemas, counter |-> 0], Apps[app])

DocumentInit ==
  /\ shared = Given
  /\ document = <<>>
  /\ earlier = <<>>

\* Fault: the map of paths is shared too, and not only its items.
Generate_Sharing(app, version, auto, schemas, options) ==
  LET collected == Collected(app, auto, schemas, shared)
      made == BuildDocument(version, collected.schemas, ("paths" :> collected.paths) @@ options)
  IN /\ Len(earlier) < MaxDocuments
     /\ earlier' = Append(earlier, [app |-> app, auto |-> auto])
     /\ shared' = collected.paths
     /\ document' = [app |-> app, auto |-> auto] @@ made

\* The items of options.paths are written to, not copied: they are shared with
\* the next document made with these options, also if conversion then throws.
Generate(app, version, auto, schemas, options) ==
  LET collected == Collected(app, auto, schemas, shared)
      made == BuildDocument(version, collected.schemas, ("paths" :> collected.paths) @@ options)
  IN /\ Len(earlier) < MaxDocuments
     /\ earlier' = Append(earlier, [app |-> app, auto |-> auto])
     /\ shared' = [p \in DOMAIN shared |-> collected.paths[p]]
     /\ document' = IF "throws" \in made.warnings THEN <<>> ELSE [app |-> app, auto |-> auto] @@ made

-----------------------------------------------------------------------------
(* Compatibility of two route tables *)

RouteKeys(app) ==
  {<<Uppercase[Apps[app][i].method], Apps[app][i].path>> : i \in DOMAIN Apps[app]}
Breaking(prev, next) == RouteKeys(prev) \ RouteKeys(next)
-----------------------------------------------------------------------------
(* Properties *)

\* The document of a schema that is registered together with its part.
Registered(node, version) ==
  BuildDocument(version, ("Schema" :> [node |-> node]) @@ ("Part" :> [node |-> Partner.node]),
    [schemas |-> <<>>, paths |-> <<>>, webhooks |-> <<>>, components |-> <<>>])

\* A document, standalone or with its parts as $refs, says of JSON values what
\* the validator does, or a warning tells that something was lost: "nothing is
\* silently lost" (oas.ts:5-7), with exceptions.  The flags of a regular
\* expression and the limit of safe() are lost without a warning, and nothing
\* else is, except in schemas that Plainly() leaves out.
DocumentsAgree ==
  Plainly(schema.node) =>
    \A version \in {"3.0", "3.1"} :
      LET alone == Standalone(schema.node, version)
          named == Registered(schema.node, version)
          rendered == AsRendered(schema.node)
      IN \A v \in {v \in Values : IsJson(v)} :
           LET accepted == Accepts(rendered, v)
           IN /\ alone.warnings = {} => accepted = JsonAccepts(<<>>, version, alone.out, v)
              /\ named.warnings = {} =>
                   accepted = JsonAccepts(named.schemas, version, named.schemas["Schema"], v)

\* At most one operation; and the routes that are to have it, of which the last
\* one does.
At(paths, path, method) ==
  IF path \in DOMAIN paths /\ method \in DOMAIN paths[path] THEN {paths[path][method]} ELSE {}
RoutesAt(app, path, method) ==
  {i \in DOMAIN Apps[app] :
     MinoPath(Apps[app][i].path) = path /\ Lowercase[Apps[app][i].method] = method}

\* What stands in the document for a content says of JSON values what its schema does.
Says(out, content) ==
  IF IsRef(content) THEN out = RefTo(content.ref)
  ELSE /\ DOMAIN out = DOMAIN content
       /\ \A m \in DOMAIN content : ~IsRef(content[m]) =>
            LET node == content[m].node
            IN Convert(node, document.version, document.defs, {}, TRUE).warnings = {} =>
                 \A v \in {v \in Values : IsJson(v)} :
                   Accepts(node, v) = JsonAccepts(document.schemas, document.version, out[m], v)

\* Every route of a standard method has an operation in the document, with what
\* the caller wrote for it: each response is the caller's; the output of its entry
\* is the response 200 where there is no such response of the caller's, and the
\* input is the JSON body, if autoSchemas is on; a body that is a reference stays one.
RoutesSaid ==
  \A i \in DOMAIN Apps[document.app] :
    LET route == Apps[document.app][i]
        method == Lowercase[route.method]
        path == MinoPath(route.path)
        entry == RouteMapEntry(route)
        given == Part(entry.operation, "responses")
        body == Part(Part(entry.operation, "requestBody"), "body")
    IN (method \in Standard /\ \A j \in RoutesAt(document.app, path, method) : j <= i) =>
         \E op \in At(document.paths, path, method) :
           /\ DOMAIN op["responses"] \ DOMAIN given \subseteq {"200"}
           /\ \A code \in DOMAIN given : Says(op["responses"][code], given[code])
           /\ (document.auto /\ entry.output # {} /\ "200" \notin DOMAIN given) =>
                Says(op["responses"]["200"], Json(entry.output))
           /\ IF document.auto /\ entry.input # {}
              THEN Says(op["requestBody"]["body"],
                        IF IsRef(body) THEN body ELSE Json(entry.input) @@ body)
              ELSE "requestBody" \in DOMAIN entry.operation => Says(op["requestBody"]["body"], body)

\* Nothing else stands in the document, but operations the caller gave, and, in
\* an item of options.paths, operations of a document made before with these
\* options: the items are written to (mino.ts:155-157).
NothingElse ==
  \A path \in DOMAIN document.paths : \A method \in DOMAIN document.paths[path] :
    \/ RoutesAt(document.app, path, method) # {}
    \/ path \in DOMAIN Given /\ method \in DOMAIN Given[path]
    \/ /\ path \in DOMAIN Given
       /\ \E n \in 1..Len(earlier) - 1 : RoutesAt(earlier[n].app, path, method) # {}

\* What the document of an application had is kept if diffRoutes() finds nothing
\* breaking.
Compatible ==
  \A prev \in DOMAIN Apps :
    LET before == Collected(prev, TRUE, <<>>, <<>>).paths
    IN Breaking(prev, document.app) = {} =>
         \A path \in DOMAIN before :
           /\ path \in DOMAIN document.paths
           /\ DOMAIN before[path] \subseteq DOMAIN document.paths[path]

\* The document of an application says of its routes what its entries do, nothing
\* of other routes, but for what shared path items kept of documents before, and
\* what it said before a change that breaks nothing.
RoutesDocumented == document # <<>> => RoutesSaid /\ NothingElse /\ Compatible
=============================================================================
