-------------------------------- MODULE EntityQuery --------------------------------
(***************************************************************************)
(* What is asked of entities and computed from them: the MongoDB filter of *)
(* a query and the check that follows it, the representations, the types   *)
(* and attributes discovery finds, and the subscriptions an event concerns.*)
(***************************************************************************)
EXTENDS QueryValues

\* The filter languages, and the recursion over a value (QueryLanguage).
CONSTANTS
    ParseQ(_),           \* the expression of a text, or BadRequest
    ParseScopeQ(_),      \* the same for scopeQ
    QMatches(_, _, _),   \* whether an expression holds of an entity
    ScopeQMatches(_, _), \* whether it holds of its scopes
    UsesLinked(_),       \* whether it asks for members of linked entities
    SimplifiedValue(_)   \* the key-values form of an attribute

Shape(cells) == [k |-> "geometry", cells |-> cells]

\* A CSV parameter is a set of at most one sequence of its entries.
parse_csv(csv) == UNION {ToSet(entries) \ {""} : entries \in csv}

reserved_member(key) ==
    key \in {"id", "type", "scope", "@context", "createdAt", "modifiedAt", "deletedAt"}
entity_attribute_names(entity) == {key \in DOMAIN entity.m : ~reserved_member(key)}

Id(entity) == entity.m["id"].s
entity_type_matches(entity, expected) == value_matches_string(get(entity, "type"), expected)
entity_primary_type(entity) ==
    UNION {Texts({v}) \cup (IF v.k = "array" /\ v.items # <<>> THEN Texts({v.items[1]}) ELSE {}) :
           v \in get(entity, "type")}

-----------------------------------------------------------------------------
(* The q and scopeQ of a request.                                          *)

parse_q_expression(q) ==
    IF q \in {{}, {<<>>}} THEN NoFilter ELSE ParseQ(CHOOSE ts \in q : TRUE)
parse_scope_expression(q) ==
    IF q \in {{}, {<<>>}} THEN NoFilter ELSE ParseScopeQ(CHOOSE ts \in q : TRUE)

\* Every caller takes an error for "does not match".
query_matches_value(value, q, options) ==
    \E e \in {parse_q_expression(q)} \ {BadRequest} : e = NoFilter \/ QMatches(e, value, options)
scope_query_matches(scopes, q) ==
    \E e \in {parse_scope_expression(q)} \ {BadRequest} : e = NoFilter \/ ScopeQMatches(e, scopes)

query_needs_linked_graph(q) == UsesLinked(parse_q_expression(q))

-----------------------------------------------------------------------------
(* The plan of a query.                                                    *)

NotImplemented == [op |-> "not implemented"]
Errors == {BadRequest, NotImplemented}

parse_geo_filter(geo) ==
    IF geo.geometry = {} /\ geo.georel = {} /\ geo.coordinates = {} THEN {}
    ELSE IF {} \in {geo.geometry, geo.georel, geo.coordinates} \/ geo.coordinates = {BadRequest}
         THEN {BadRequest}
    ELSE {[op |-> "geo", geometry |-> g, georel |-> rel, cells |-> c.cells,
           property |-> IF geo.geoproperty = {} THEN "location"
                        ELSE CHOOSE p \in geo.geoproperty : TRUE] :
          g \in geo.geometry, rel \in geo.georel, c \in geo.coordinates}

\* Mutant: MongoDB limits what q and scopeQ have yet to filter.
LimitedPlan(query) ==
    LET q == parse_q_expression(query.q)
        scope == parse_scope_expression(query.scope_q)
        geo == parse_geo_filter(query.geo)
    IN IF BadRequest \in {q, scope} \cup geo THEN BadRequest
       ELSE [op |-> "plan", ids |-> parse_csv(query.id), types |-> parse_csv(query.entity_type),
             id_pattern |-> query.id_pattern, attrs |-> parse_csv(query.attrs), geo |-> geo,
             limit |-> query.limit]

from_entity_query(query) ==
    LET q == parse_q_expression(query.q)
        scope == parse_scope_expression(query.scope_q)
        geo == parse_geo_filter(query.geo)
    IN IF BadRequest \in {q, scope} \cup geo THEN BadRequest
       ELSE [op |-> "plan", ids |-> parse_csv(query.id), types |-> parse_csv(query.entity_type),
             id_pattern |-> query.id_pattern, attrs |-> parse_csv(query.attrs), geo |-> geo,
             limit |-> IF query.q # {} \/ query.scope_q # {} THEN {} ELSE query.limit]

\* A georel is [rel, clauses], a clause [kind, distance], where distance is {} for a
\* text that is no integer.  "near" without a ";" is no georel.
GeoOperator(georel) ==
    CASE georel.rel \in {"within", "contains"} -> "$geoWithin"
      [] georel.rel \in {"intersects", "overlaps", "equals"} -> "$geoIntersects"
      [] OTHER -> "invalid"

\* The last clause of a kind counts.
Bound(georel, kind) ==
    LET at == {i \in DOMAIN georel.clauses : georel.clauses[i].kind = kind}
    IN IF at = {} THEN {} ELSE georel.clauses[Max(at)].distance

geo_to_bson(geo) ==
    LET georel == geo.georel
        Clause(operator) == [op |-> operator, value |-> geo]
    IN IF geo.geometry \notin {"Point", "MultiPoint", "LineString", "MultiLineString", "Polygon",
                               "MultiPolygon"} THEN BadRequest
       ELSE IF georel.rel = "near" /\ georel.clauses # <<>>
            THEN IF \E i \in DOMAIN georel.clauses :
                      \/ georel.clauses[i].kind \notin {"minDistance", "maxDistance"}
                      \/ georel.clauses[i].distance = {}
                 THEN BadRequest ELSE Clause("$near")
       ELSE IF georel.rel = "disjoint" THEN NotImplemented
       ELSE IF GeoOperator(georel) = "invalid" THEN BadRequest
       ELSE Clause(GeoOperator(georel))

Given(op, values) == IF values = {} THEN {} ELSE {[op |-> op, value |-> values]}

\* The clauses of the filter; that of the tenant is left out, as the store is one's.
to_bson_filter(plan) ==
    Given("id in", plan.ids) \cup Given("type in", plan.types)
    \cup {IF token \in DOMAIN Regex THEN [op |-> "id matches", value |-> Regex[token]]
          ELSE BadRequest : token \in plan.id_pattern}
    \cup Given("exist", plan.attrs)
    \cup {geo_to_bson(geo) : geo \in plan.geo}

\* What MongoDB makes of a clause.  Places are numbers on a line.
Distances(geo, cells) == {IF x < y THEN y - x ELSE x - y : x \in geo.cells, y \in cells}
GeoSelects(clause, cells) ==
    LET geo == clause.value IN
    CASE clause.op = "$geoWithin" -> cells \subseteq geo.cells
      [] clause.op = "$geoIntersects" -> cells \cap geo.cells # {}
      [] clause.op = "$near" ->
           /\ \A d \in Bound(geo.georel, "maxDistance") : Min(Distances(geo, cells)) <= d
           /\ \A d \in Bound(geo.georel, "minDistance") : Min(Distances(geo, cells)) >= d
Selects(clause, entity) ==
    CASE clause.op = "id in" -> Id(entity) \in clause.value
      [] clause.op = "type in" -> \E t \in clause.value : entity_type_matches(entity, t)
      [] clause.op = "id matches" -> Id(entity) \in clause.value
      [] clause.op = "exist" -> clause.value \subseteq DOMAIN entity.m
      [] OTHER -> \E attr \in get(entity, clause.value.property) : \E v \in get(attr, "value") :
                    v.k = "geometry" /\ GeoSelects(clause, v.cells)
SelectedBy(filter, entity) == \A clause \in filter : Selects(clause, entity)

\* The check after the filter.  It knows no geo query.
entity_matches_query(entity, query, options) ==
    /\ \A ids \in query.id : Id(entity) \in ToSet(ids)
    /\ query.entity_type # {} =>
          \E t \in parse_csv(query.entity_type) : entity_type_matches(entity, t)
    /\ \A token \in query.id_pattern : token \in DOMAIN Regex /\ Id(entity) \in Regex[token]
    /\ parse_csv(query.attrs) \subseteq DOMAIN entity.m
    /\ query_matches_value(entity, query.q, options)
    /\ scope_query_matches(extract_scope_values(entity), query.scope_q)

match_options(source, terms, linked) ==
    [expand_values |-> parse_csv(source.expand_values), json_keys |-> parse_csv(source.json_keys),
     terms |-> terms, linked |-> linked]

-----------------------------------------------------------------------------
(* Representations.                                                        *)

\* accept, format: at most one text; options: the words of the options parameter.
representation_from_request(r) ==
    LET Asks(word) == r.format = {word} \/ word \in r.options IN
    IF r.accept = {"application/geo+json"} THEN "geojson"
    ELSE IF Asks("aggregatedValues") THEN "aggregated"
    ELSE IF Asks("temporalValues") THEN "temporal"
    ELSE IF (IF r.format # {} THEN r.format ELSE r.options) \cap {"keyValues", "simplified"} # {}
         THEN "keyvalues" ELSE "normalized"

simplify_entity(entity) ==
    Object([key \in DOMAIN entity.m |-> IF reserved_member(key) THEN entity.m[key]
                                        ELSE SimplifiedValue(entity.m[key])])

OnlyMembers(v, names) == Object([name \in DOMAIN v.m \cap names |-> v.m[name]])

entity_to_feature(entity) ==
    LET simple == simplify_entity(entity)
        Of(member, default) == IF member \in DOMAIN simple.m THEN simple.m[member] ELSE default
        rest == OnlyMembers(simple, DOMAIN simple.m \ {"id", "@context", "location"})
        context == OnlyMembers(entity, {"@context"})
    IN Object([id |-> Of("id", Text("")), type |-> Text("Feature"),
               geometry |-> Of("location", Null), properties |-> rest] @@ context.m)

Represented(entity, representation) ==
    CASE representation = "keyvalues" -> simplify_entity(entity)
      [] representation = "geojson" -> entity_to_feature(entity)
      [] OTHER -> entity

project_entity(entity, query, representation) ==
    LET selected == parse_csv(IF query.pick # {} THEN query.pick ELSE query.attrs)
        kept == {key \in DOMAIN entity.m : selected = {} \/ reserved_member(key) \/ key \in selected}
    IN Represented(OnlyMembers(entity, kept \ parse_csv(query.omit)), representation)

-----------------------------------------------------------------------------
(* Discovery.                                                              *)

attribute_type_names(v) ==
    LET named == Texts(get(v, "type") \cup UNION {get(item, "type") : item \in Items(v)})
    IN IF named = {} THEN {"Property"} ELSE named

\* An entity counts for the first of its types, and not at all if it has none.
Discovered(entities) == {e \in entities : entity_primary_type(e) # {}}
OfType(entities, t) == {e \in Discovered(entities) : entity_primary_type(e) = {t}}
Having(entities, attr) == {e \in Discovered(entities) : attr \in entity_attribute_names(e)}

\* Mutant: counts instances, not entities.
CountInstances(entities, attr) ==
    LET having == Having(entities, attr)
        instances == {<<e, v>> : e \in having, v \in UNION {expand_attribute_instances(e.m[attr]) : e \in having}}
    IN [count |-> Cardinality({pair \in instances :
                        pair[2] \in expand_attribute_instances(pair[1].m[attr])}),
        attribute_types |-> UNION {attribute_type_names(e.m[attr]) : e \in having},
        type_names |-> UNION {entity_primary_type(e) : e \in having}]
attribute_info(entities, attr) ==
    LET having == Having(entities, attr) IN
    [count |-> Cardinality(having),
     attribute_types |-> UNION {attribute_type_names(e.m[attr]) : e \in having},
     type_names |-> UNION {entity_primary_type(e) : e \in having}]
AttributesOf(entities) ==
    [attr \in UNION {entity_attribute_names(e) : e \in Discovered(entities)} |->
        attribute_info(entities, attr)]
type_info(entities, t) ==
    [count |-> Cardinality(OfType(entities, t)), attributes |-> AttributesOf(OfType(entities, t))]
build_discovery(entities) ==
    [by_type |-> [t \in UNION {entity_primary_type(e) : e \in entities} |->
                     type_info(entities, t)],
     by_attribute |-> AttributesOf(entities)]

-----------------------------------------------------------------------------
(* Subscriptions.                                                          *)

event_triggers(event) ==
    CASE event.kind = "Created" -> {"entityCreated", "attributeCreated"}
      [] event.kind = "Updated" -> {"entityUpdated", "attributeUpdated", "attributeCreated"}
      [] event.kind = "Deleted" -> {"entityDeleted", "attributeDeleted"}

\* Mutant: an entity of several types has none of them.
TypeIsText(selector, entity) ==
    /\ \A id \in selector.id : id = Id(entity)
    /\ \A token \in selector.id_pattern : token \in DOMAIN Regex /\ Id(entity) \in Regex[token]
    /\ \A t \in selector.type : get(entity, "type") = {Text(t)}

SelectorMatches(selector, entity) ==
    /\ \A id \in selector.id : id = Id(entity)
    /\ \A token \in selector.id_pattern : token \in DOMAIN Regex /\ Id(entity) \in Regex[token]
    /\ \A t \in selector.type : entity_type_matches(entity, t)

subscription_matches_event(s, entity, event, options) ==
    /\ s.is_active
    /\ \A selectors \in s.entities : \E selector \in selectors : SelectorMatches(selector, entity)
    /\ query_matches_value(entity, s.q, options)
    /\ scope_query_matches(extract_scope_values(entity), s.scope_q)
    /\ \A watched \in s.watched : event.changed \cap watched # {}
    /\ event_triggers(event)
         \cap (IF s.triggers = {} THEN {"attributeCreated", "attributeUpdated"}
               ELSE UNION s.triggers) # {}

NotificationRepresentation(s) ==
    IF s.accept = {"application/geo+json"} THEN "geojson"
    ELSE IF s.format = {"keyValues"} THEN "keyvalues" ELSE "normalized"

build_notification_payload(s, entity) ==
    [subscription |-> s.id, data |-> Represented(entity, NotificationRepresentation(s)),
     context |-> IF s.jsonld_context # {} THEN s.jsonld_context ELSE get(entity, "@context")]
=============================================================================
