------------------------------ MODULE MCSchema ------------------------------
(* Chains of schema calls on small values, and the OpenAPI and SDL documents made of them. *)
EXTENDS Sdl

CONSTANT Focused

VARIABLE focus

a == <<"a">>
MCMatching == [email |-> {a}]
MCRegexes == <<"^a$", "">> :> {a} @@ <<"^a$", "i">> :> {a, <<"A">>}
MCNumberOf == "1" :> 2
MCRejected == [p |-> {Str(<<>>), Num(0), Obj(<<>>), Obj([a |-> Str(a)]), Arr(<<>>), Null}]
MCResolved == [self |-> [kind |-> "object", unknownKeys |-> "strip", fields |->
                 [a |-> [kind |-> "optional", inner |-> [kind |-> "lazy", ref |-> "self"]]]]]
MCPartner == [cls |-> "number", node |-> [kind |-> "number", checks |-> <<>>, at |-> "part"]]
MCPrimitives ==
  {Checked("string"), MCPartner, Leaf("null"),
   [cls |-> "literal", node |-> [kind |-> "literal", value |-> Str(a)]],
   [cls |-> "enum", node |-> [kind |-> "enum", values |-> {a}]],
   [cls |-> "lazy", node |-> [kind |-> "lazy", ref |-> "self"]],
   ObjectOf([a |-> [cls |-> "literal", node |-> [kind |-> "literal", value |-> Str(a)]],
             b |-> Checked("number")], "strip"),
   ObjectOf([a |-> Refine(Optional(Checked("number")), "p")], "strict")}
MCChecks == {[kind |-> "min", n |-> 1], [kind |-> "max", n |-> 1], [kind |-> "length", n |-> 1],
             [kind |-> "email"], [kind |-> "startsWith", s |-> a], [kind |-> "trim"], [kind |-> "toLowerCase"],
             [kind |-> "regex", source |-> "^a$", flags |-> ""],
             [kind |-> "regex", source |-> "^a$", flags |-> "i"],
             [kind |-> "gt", n |-> 0], [kind |-> "gte", n |-> 1], [kind |-> "lte", n |-> 2],
             [kind |-> "int"], [kind |-> "safe"]}
MCDefaults == {Str(a), Num(2)}
MCPartners ==
  {Checked("string"),
   ObjectOf([a |-> [cls |-> "literal", node |-> [kind |-> "literal", value |-> Str(a)]]], "strip")}
MCShape == [b |-> Leaf("boolean")]

Plains == {Str(<<>>), Str(a), Str(<<"A">>), Str(<<"b", "a">>), Str(<<" ", "a">>), Str(<<" ">>), Num(0), Num(1), Num(2), Num(4),
           Bool(TRUE), Null}
Structured ==
  {Obj(<<>>), Obj([a |-> Str(a)]), Obj([a |-> Str(a), b |-> Num(2)]), Obj([b |-> Bool(TRUE)]),
   Obj([a |-> Obj(<<>>)]), Obj([a |-> Num(0)]), Obj("1" :> Num(2)), Obj([a |-> Str(<<" ", "a">>), b |-> Num(2)]), Obj([c |-> Num(2)]), Obj([a |-> Str(a), b |-> Num(2), c |-> Num(2)]),
   Arr(<<>>), Arr(<<Str(a)>>), Arr(<<Str(a), Num(2)>>)}
JsonValues == Plains \cup Structured
MCValues == JsonValues \cup {Undefined, NaN, Obj([a |-> Undefined, b |-> Num(2)])}

MCApps ==
  [v1 |-> <<[method |-> "GET", path |-> <<"users", ":id">>],
            [method |-> "post", path |-> <<"users">>],
            [method |-> "PROPFIND", path |-> <<"files", "*">>]>>,
   v2 |-> <<[method |-> "get", path |-> <<"users", ":id">>],
            [method |-> "POST", path |-> <<"users">>],
            [method |-> "PROPFIND", path |-> <<"files", "*">>],
            [method |-> "GET", path |-> <<"users", "">>],
            [method |-> "GET", path |-> <<"", "users">>]>>]
Methods == {"GET", "POST", "PROPFIND", "get", "post", "propfind"}
MCUppercase == [m \in Methods |-> CASE m = "get" -> "GET" [] m = "post" -> "POST"
                                    [] m = "propfind" -> "PROPFIND" [] OTHER -> m]
MCLowercase == [m \in Methods |-> CASE m = "GET" -> "get" [] m = "POST" -> "post"
                                    [] m = "PROPFIND" -> "propfind" [] OTHER -> m]
MCOasSegment == [users |-> "users", files |-> "files"] @@ ":id" :> "{id}" @@ "*" :> "{wildcard}" @@ "" :> ""

AnObject == [kind |-> "object", unknownKeys |-> "strict",
             fields |-> [a |-> [kind |-> "literal", value |-> Str(a)], b |-> MCPartner.node]]
Recursive == [kind |-> "lazy", ref |-> "self"]
Wrote(part, key, content) == part :> (key :> content)
MCRouteMap ==
  <<"GET", <<"users", ":id">>>> :>
    [input |-> {}, output |-> {AnObject}, operation |-> Wrote("responses", "404", Json({Recursive}))] @@
  <<"POST", <<"users">>>> :>
    [input |-> {Recursive}, output |-> {AnObject},
     operation |-> Wrote("responses", "200", Json({MCPartner.node})) @@
                   Wrote("requestBody", "body", Json({AnObject}) @@ "text/plain" :> [node |-> MCPartner.node])] @@
  <<"GET", <<"users", "">>>> :>
    [input |-> {AnObject}, output |-> {}, operation |-> Wrote("requestBody", "body", [ref |-> "Body"])]
MCGiven == <<"users">> :> ("head" :> Wrote("responses", "204", <<>>)) @@ <<"users", "{id}">> :> <<>>

Text == Checked("string").node
Object(fields) == [kind |-> "object", fields |-> fields, unknownKeys |-> "strip"]
Roles == [kind |-> "enum", values |-> {a, <<"x-y">>, <<"x_y">>}]
Inner == Object([a |-> MCPartner.node])
User == Object([a |-> [kind |-> "array", element |-> [kind |-> "nullable", inner |-> Roles]],
                b |-> [kind |-> "default", inner |-> Roles, value |-> Str(a)],
                c |-> Inner])
Only == [kind |-> "union", variants |-> <<Inner, Leaf("null").node>>]
Both == [kind |-> "intersection", left |-> Inner, right |-> Object([b |-> Roles])]
Pair == [kind |-> "tuple", items |-> <<Text, Text>>]
Holder == Object([a |-> Recursive, b |-> Only, c |-> Pair])
Asked == [kind |-> "array", element |-> User, checks |-> <<>>, federation |-> {"shareable", "key"},
          args |-> [a |-> [kind |-> "default", inner |-> MCPartner.node, value |-> NaN],
                    b |-> [kind |-> "optional", inner |-> User]]]
MCClean == <<"x-y">> :> <<"x_y">> @@ <<"1">> :> <<"_1">> @@ <<"-">> :> <<>>
MCPascals == [a |-> <<"A">>, b |-> <<"B">>, c |-> <<"C">>] @@ "-" :> <<>>
Root == Object([a |-> Asked])
MCCatalogue ==
  {[key |-> <<"Log">>, node |-> Object([c |-> Root])],
   [key |-> <<"User">>, node |-> User], [key |-> <<"User", "Input">>, node |-> Roles],
   [key |-> <<"User", "C">>, node |-> Object("-" :> Both @@ "b" :> Only)],
   [key |-> <<"Both">>, node |-> Both],
   [key |-> <<"Search">>, node |-> [kind |-> "union", variants |-> <<User, Holder>>]],
   [key |-> <<"Only">>, node |-> Only], [key |-> <<"Tree">>, node |-> Recursive],
   [key |-> <<"Holder">>, node |-> Holder], [key |-> <<"x-y">>, node |-> Text],
   [key |-> <<"JSON">>, node |-> Inner], [key |-> <<"Query">>, node |-> Root]}
MCRootInputs ==
  {<<>>, <<[name |-> <<"Query">>, fields |-> [a |-> Asked, b |-> Recursive]],
           [name |-> <<"Mutation">>, node |-> Text]>>,
   <<[name |-> <<"Query">>, node |-> Inner], [name |-> <<"Subscription">>, node |-> User]>>}

MCInit ==
  /\ focus \in Focused /\ BuilderInit /\ DocumentInit /\ SdlInit
  /\ focus # "builder" => schema = MCPartner
  /\ focus # "sdl" => sdlRoots = <<>> /\ ~sdlContext.federation
MCNext ==
  /\ UNCHANGED focus
  /\ \/ focus = "builder" /\ BuilderNext /\ UNCHANGED <<documentVars, sdlVars>>
     \/ focus = "sdl" /\ SdlNext /\ UNCHANGED <<builderVars, documentVars>>
     \/ /\ focus = "document" /\ UNCHANGED <<builderVars, sdlVars>>
        /\ \E app \in DOMAIN Apps, version \in {"3.0", "3.1"}, hooked \in BOOLEAN, auto \in BOOLEAN :
             \E n \in {AnObject, Recursive} :
               Generate(app, version, auto,
                 <<"Thing">> :> [node |-> n] @@ AutoName("AutoOutput", 1) :> [node |-> MCPartner.node],
                 [schemas |-> <<>>,
                  webhooks |-> IF hooked THEN <<"hook">> :> ("post" :> Wrote("requestBody", "body", Json({n})))
                               ELSE <<>>,
                  components |-> Wrote("responses", "Failure", Json({n})) @@
                    (IF hooked THEN "pathItems" :> ("Shared" :> ("get" :> Wrote("responses", "200", Json({n}))))
                     ELSE <<>>)])

MCSpec == MCInit /\ [][MCNext]_<<focus, builderVars, documentVars, sdlVars>>
=============================================================================
