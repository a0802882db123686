------------------------------ MODULE MCQueryService ------------------------------
(* Entities, contexts and requests for QueryService. *)
EXTENDS QueryMeaning

-----------------------------------------------------------------------------
(* The vocabulary.                                                         *)

TokenNames == {"a", "b", "c", "value", "speed", "brand", "color", "sensor", "meta", "address", "city", "en",
               "Car", "Van", "M", "e1"}
Literals == "1" :> Number(1) @@ "2" :> Number(2) @@ "3" :> Number(3) @@ "true" :> Flag(TRUE)
            @@ "'red'" :> Text("red") @@ "'iri:M'" :> Text("iri:M") @@ "'{'" :> BadRequest
            @@ "noon" :> Text("noon") @@ "eve" :> Text("eve")
Regexes == "M.*" :> {"M"} @@ "e[12]" :> {"e1", "e2"} @@ "r.*" :> {"red", "rouge"}
WebPages ==
    "http:u1" :> List(<<Text("http:u2"), Object([M |-> Text("iri:M")])>>)
    @@ "http:u2" :> Object("@context" :> Text("http:u1") @@ "a" :> Object("@id" :> Text("iri:a")))
Words == <<"", "/a", "/a/b", "/c/b", "Car", "GeoProperty", "JsonProperty", "LanguageProperty",
           "M", "Oslo", "Property", "Relationship", "Van", "e1", "e2", "e3", "http:u1", "http:u2",
           "iri:M", "iri:a", "red", "rouge", "several tokens", "urn:x", "vif">>
Scalars ==
    [w \in ToSet(Words) |-> <<"text", CHOOSE i \in DOMAIN Words : Words[i] = w>>]
    @@ "noon" :> <<"time", 12>> @@ "eve" :> <<"time", 18>>
ScopeLevels == "/a/b" :> <<"a", "b">> @@ "/a" :> <<"a">> @@ "/c/b" :> <<"c", "b">> @@ "" :> <<>>

-----------------------------------------------------------------------------
(* Entities.                                                               *)

Property(v) == Object([type |-> Text("Property"), value |-> v])
Entity(id, type, rest) == Object([id |-> Text(id), type |-> type] @@ rest)

Car1 == Entity("e1", Text("Car"),
    "speed" :> List(<<Property(Number(1)), Property(Number(3))>>)
    @@ "brand" :> Property(Text("M")) @@ "@context" :> Text("http:u1"))
Car2 == Entity("e2", List(<<Text("Car"), Text("Van")>>),
    "speed" :> Property(Number(2)) @@ "scope" :> Text("/a/b") @@ "a" :> Property(Text("noon"))
    @@ "color" :> Object([type |-> Text("LanguageProperty"), languageMap |->
          Object([en |-> Text("red"), fr |-> List(<<Text("rouge"), Text("vif")>>)])])
    @@ "sensor" :> Object([type |-> Text("Relationship"), object |-> Text("e1")]))
Van3 == Entity("e3", Text("Van"),
    "address" :> Property(Object([city |-> Text("Oslo")]))
    @@ "location" :> Object([type |-> Text("GeoProperty"), value |-> Shape({1, 2})])
    @@ "scope" :> List(<<Text("/a"), Text("/c/b")>>)
    @@ "a" :> Property(List(<<Number(1), Text("red")>>))
    @@ "meta" :> Object([type |-> Text("JsonProperty"), value |-> Number(1),
                         json |-> Object([a |-> Number(2)])]))
Faster1 == Entity("e1", Text("Car"), "speed" :> Property(Number(2)))

Untyped == Entity("e4", List(<<>>), "speed" :> Property(Number(3)))

SomeStores == {{Car1, Car2, Van3}, {Untyped}}
SomeWrites == {Faster1}

-----------------------------------------------------------------------------
(* Expressions and how they are written.                                   *)

Path(segments) == [op |-> "path", segments |-> segments, trailing |-> NoTrailing]
Trailing(segments, names) ==
    [op |-> "path", segments |-> segments, trailing |-> [op |-> "names", names |-> names]]
Linked(relation, types, attribute) ==
    [op |-> "linked", relation |-> relation, types |-> types, attribute |-> attribute]
AnyOf(values) == [op |-> "any of", values |-> values]
Between(lower, upper) == [op |-> "range", lower |-> lower, upper |-> upper]
Leaf(op, attribute, operand) == [op |-> op, attribute |-> attribute, operand |-> operand]
Exists(attribute) == [op |-> "exists", attribute |-> attribute]
And(parts) == [op |-> "and", parts |-> parts]
Or(parts) == [op |-> "or", parts |-> parts]

Speed == Path(<<"speed">>)
Brand == Path(<<"brand">>)
Terms ==
    {Exists(Speed),
     Leaf("==", Speed, AnyOf({Number(1), Number(2)})),
     Leaf("!=", Speed, AnyOf({Number(1)})),
     Leaf("==", Speed, Between(Number(2), Number(3))),
     Leaf(">", Speed, Number(2)),
     Leaf("==", Path(<<"a">>), Between(Text("noon"), Text("eve"))),
     Leaf("==", Path(<<"sensor">>), Between(Text("e1"), Text("e1"))),
     Leaf("==", Brand, AnyOf({Text("iri:M")})),
     Leaf("~=", Brand, [op |-> "regex", texts |-> {"M"}]),
     Leaf("~=", Path(<<"color">>), [op |-> "regex", texts |-> {"red", "rouge"}]),
     Leaf("==", Trailing(<<"color">>, <<"en">>), AnyOf({Text("red")})),
     Leaf("==", [op |-> "path", segments |-> <<"color">>, trailing |-> AnyLanguage],
          AnyOf({Text("red")})),
     Exists(Path(<<"address", "value", "city">>)),
     Leaf("==", Trailing(<<"meta">>, <<"a">>), AnyOf({Number(2)})),
     Leaf("==", Path(<<"a">>), AnyOf({Number(1)})),
     Leaf("==", Linked("sensor", {"Car"}, Speed), AnyOf({Number(3)})),
     Leaf(">=", Linked("sensor", {}, Speed), Number(2))}
Fast == Leaf(">", Speed, Number(2))
HasA == Exists(Path(<<"a">>))
IsM == Leaf("~=", Brand, [op |-> "regex", texts |-> {"M"}])
Trees ==
    {And(<<Fast, IsM>>), Or(<<HasA, IsM>>), Or(<<And(<<Fast, IsM>>), HasA>>),
     Or(<<HasA, And(<<HasA, Exists(Speed)>>)>>), And(<<Or(<<Fast, HasA>>), IsM>>),
     And(<<And(<<HasA, Exists(Speed)>>), HasA>>), Or(<<IsM, Or(<<Fast, HasA>>)>>)}

Name(s) == IF s = "noon" THEN s ELSE IF s \in TokenNames THEN s
           ELSE CHOOSE t \in DOMAIN Literals : Literals[t] = Text(s)
Value(v) == IF v.k = "string" THEN Name(v.s)
            ELSE CHOOSE t \in DOMAIN Literals : Literals[t] = v
RECURSIVE Join(_, _)
Join(parts, separator) ==
    IF Len(parts) = 1 THEN parts[1] ELSE parts[1] \o <<separator>> \o Join(Tail(parts), separator)
Singles(names) == Map(names, LAMBDA n : <<n>>)
RECURSIVE WriteAttribute(_)
WriteAttribute(a) ==
    IF a.op = "linked"
    THEN <<a.relation, "{">>
         \o (IF a.types = {} THEN <<>> ELSE Join(Singles(SetToSeq(a.types)), ",") \o <<":">>)
         \o WriteAttribute(a.attribute) \o <<"}">>
    ELSE Join(Singles(a.segments), ".")
         \o CASE a.trailing = NoTrailing -> <<>>
              [] a.trailing = AnyLanguage -> <<"[", "*", "]">>
              [] OTHER -> <<"[">> \o Join(Singles(a.trailing.names), ".") \o <<"]">>
WriteLeaf(e) ==
    IF e.op = "exists" THEN WriteAttribute(e.attribute)
    ELSE WriteAttribute(e.attribute) \o <<e.op>>
         \o CASE e.op \in {"~=", "!~="} ->
                   <<CHOOSE t \in DOMAIN Regexes : Regexes[t] = e.operand.texts>>
              [] e.op \in {"==", "!="} ->
                   IF e.operand.op = "range"
                   THEN <<Value(e.operand.lower), "..", Value(e.operand.upper)>>
                   ELSE Join(Singles(Map(SetToSeq(e.operand.values), Value)), ",")
              [] OTHER -> <<Value(e.operand)>>

Wrapped(texts) == {<<"(">> \o ts \o <<")">> : ts \in texts}
RECURSIVE Writings(_)
Writings(e) ==
    LET Part(p) == IF p.op = "or" \/ p.op = e.op THEN Wrapped(Writings(p)) ELSE Writings(p)
        separator == IF e.op = "or" THEN "|" ELSE ";"
        plain == IF e.op \notin {"and", "or"} THEN {WriteLeaf(e)}
                 ELSE {Join(s, separator) :
                       s \in {t \in [DOMAIN e.parts -> UNION {Part(e.parts[i]) : i \in DOMAIN e.parts}] :
                              \A i \in DOMAIN e.parts : t[i] \in Part(e.parts[i])}}
    IN plain \cup Wrapped(plain)

Pattern(levels, descendants) == [op |-> "pattern", levels |-> levels, descendants |-> descendants]
ScopeTexts ==
    {<<<<"/", "a", "/", "#">>, Or(<<Pattern(<<"a">>, TRUE)>>)>>,
     <<<<"/", "+", "/", "b", "|", "/", "c">>,
       Or(<<Pattern(<<"+", "b">>, FALSE), Pattern(<<"c">>, FALSE)>>)>>,
     <<<<"(", "/", "a", ";", "/", "c", "/", "#", ")">>,
       Or(<<And(<<Pattern(<<"a">>, FALSE), Pattern(<<"c">>, TRUE)>>)>>)>>,
     <<<<"/", "#">>, Or(<<[op |-> "any non-empty"]>>)>>}

-----------------------------------------------------------------------------
(* Requests.                                                               *)

Query(query) ==
    [kind |-> "query", query |-> query, meaning |-> NoFilter, scopes |-> NoFilter, link |-> {}]

Filtered ==
    {[Query([EveryEntity EXCEPT !.q = {ts}]) EXCEPT !.meaning = e] :
       <<e, ts>> \in UNION {{e} \X Writings(e) : e \in Terms \cup Trees}}
WithLimit ==
    {[Query([EveryEntity EXCEPT !.q = {WriteLeaf(e)}, !.limit = {1}, !.expand_values = {<<"brand">>},
                             !.json_keys = {<<"meta">>}])
        EXCEPT !.meaning = e, !.link = {Text("http:u2")}] : e \in Terms}
Scoped ==
    {[Query([EveryEntity EXCEPT !.scope_q = {pair[1]}, !.limit = limit]) EXCEPT !.scopes = pair[2]] :
       pair \in ScopeTexts, limit \in {{}, {1}}}

Georel(rel, clauses) == [rel |-> rel, clauses |-> clauses]
Near(kind, distance) == Georel("near", <<[kind |-> kind, distance |-> distance]>>)
Geo(georel) == [geometry |-> {"Polygon"}, georel |-> {georel}, coordinates |-> {Shape({2, 3})},
                geoproperty |-> {}]
Plain ==
    {[EveryEntity EXCEPT !.id = {<<"e1", "e3">>}], [EveryEntity EXCEPT !.id = {<<"">>}],
     [EveryEntity EXCEPT !.entity_type = {<<"Van", "Bus">>}], [EveryEntity EXCEPT !.id_pattern = {"e[12]"}],
     [EveryEntity EXCEPT !.attrs = {<<"speed">>}, !.pick = {<<"brand">>}, !.accept = {"application/geo+json"}],
     [EveryEntity EXCEPT !.omit = {<<"id">>}, !.options = {"keyValues"}],
     [EveryEntity EXCEPT !.geo = Geo(Georel("within", <<>>))],
     [EveryEntity EXCEPT !.geo = Geo(Georel("intersects", <<>>))],
     [EveryEntity EXCEPT !.geo = Geo(Near("maxDistance", {1}))]}
Wrong ==
    {[EveryEntity EXCEPT !.q = {<<"speed", "==">>}], [EveryEntity EXCEPT !.q = {<<"(", "a", "|", ")">>}],
     [EveryEntity EXCEPT !.scope_q = {<<"/", "a", ";", "/", "b">>}],
     [EveryEntity EXCEPT !.id_pattern = {"["}],
     [EveryEntity EXCEPT !.geo = Geo(Georel("disjoint", <<>>))],
     [EveryEntity EXCEPT !.geo = Geo(Near("maxDistance", {}))],
     [EveryEntity EXCEPT !.geo.georel = {Georel("within", <<>>)}]}
Other ==
    {[kind |-> "retrieve", id |-> id, type |-> type,
      query |-> [EveryEntity EXCEPT !.options = {"keyValues"}]] :
       id \in {"e1", "e9"}, type \in {{}, {"Van"}}}
    \cup {[kind |-> "discover", query |-> EveryEntity]}

AnySubscription ==
    [id |-> "s", is_active |-> TRUE, entities |-> {}, q |-> {}, scope_q |-> {}, watched |-> {},
     triggers |-> {}, endpoint |-> TRUE, accept |-> {}, format |-> {}, jsonld_context |-> {},
     at_context |-> {}, expand_values |-> {}, json_keys |-> {}]
AnySelector == [id |-> {}, id_pattern |-> {}, type |-> {}]
FirstSubscription ==
    {[AnySubscription EXCEPT !.entities = {{[AnySelector EXCEPT !.type = {"Car"}],
                                            [AnySelector EXCEPT !.id = {"e3"}]}},
                             !.format = {"keyValues"}],
     [AnySubscription EXCEPT !.q = {<<"brand", "==", "'iri:M'">>}, !.expand_values = {<<"brand">>},
                             !.at_context = {Text("http:u2")}],
     [AnySubscription EXCEPT !.entities = {{[AnySelector EXCEPT !.id_pattern = {"e[12]"}]}},
                             !.scope_q = {<<"/", "a", "/", "#">>},
                             !.accept = {"application/geo+json"}],
     [AnySubscription EXCEPT !.q = {<<"sensor", "{", "speed", "}", "==", "3">>},
                             !.entities = {{AnySelector}}],
     [AnySubscription EXCEPT !.q = {<<"speed", "==">>}],
     [AnySubscription EXCEPT !.watched = {{"speed"}}, !.endpoint = FALSE],
     [AnySubscription EXCEPT !.is_active = FALSE]}
SecondSubscription ==
    {[AnySubscription EXCEPT !.id = "t", !.watched = {{"speed"}}],
     [AnySubscription EXCEPT !.id = "t", !.triggers = {{"entityDeleted"}},
                             !.jsonld_context = {Text("http:u1")}]}
Events == {[kind |-> "Created", changed |-> {"speed", "a"}],
           [kind |-> "Updated", changed |-> {"brand"}], [kind |-> "Deleted", changed |-> {"speed"}]}
Notifications ==
    {[kind |-> "notify", entity |-> e, event |-> event, query |-> EveryEntity,
      subscriptions |-> <<s, t>>] :
       e \in {Car1, Car2}, event \in Events, s \in FirstSubscription, t \in SecondSubscription}

SomeRequests ==
    Filtered \cup WithLimit \cup Scoped \cup Other \cup Notifications
    \cup {Query(query) : query \in Plain \cup {[p EXCEPT !.limit = {1}] : p \in Plain} \cup Wrong}

RECURSIVE ReachedFrom(_, _)
ReachedFrom(vs, n) ==
    IF n = 0 THEN vs ELSE ReachedFrom(vs \cup UNION {Onward(v) : v \in vs}, n - 1)
AllContexts == ReachedFrom({Text("http:u1"), Text("http:u2")}, 4)
=============================================================================
