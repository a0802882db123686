------------------------------- MODULE QueryLanguage -------------------------------
(***************************************************************************)
(* The q and scopeQ filters: parsing and matching.                         *)
(*                                                                         *)
(* A filter is a sequence of tokens: names, literals (a quoted string is   *)
(* one token) and the punctuation of the two languages.  The candidates of *)
(* an attribute are a set, since every use of them asks only for one, for  *)
(* all or for none.  Expressions and values are trees, and what is said of *)
(* them recursive; EntityQuery takes it as a parameter.                    *)
(***************************************************************************)
EXTENDS QueryValues

CONSTANTS
    Names,   \* the tokens validate_name accepts
    Literal, \* [token -> JSON value, or BadRequest] for literals that are no names
    Scalar,  \* [text -> <<class, rank>>]: as what it compares, and where in its class
    Levels   \* [scope text -> its levels]

Map(s, F(_)) == [i \in DOMAIN s |-> F(s[i])]

-----------------------------------------------------------------------------
(* Scanning.  A token is at the top level if all brackets before it close. *)

TopLevel(ts, i) ==
    \A pair \in {<<"(", ")">>, <<"{", "}">>, <<"[", "]">>} :
        Cardinality({j \in 1 .. i - 1 : ts[j] = pair[1]})
            = Cardinality({j \in 1 .. i - 1 : ts[j] = pair[2]})

TopLevels(ts, tokens) == {i \in DOMAIN ts : ts[i] \in tokens /\ TopLevel(ts, i)}

Cut(ts, positions) ==
    LET cuts == <<0>> \o SetToSortSeq(positions, <) \o <<Len(ts) + 1>>
    IN [k \in 1 .. Len(cuts) - 1 |-> SubSeq(ts, cuts[k] + 1, cuts[k + 1] - 1)]

split_top_level(ts, separators) == Cut(ts, TopLevels(ts, separators))
split(ts, separator) == Cut(ts, {i \in DOMAIN ts : ts[i] = separator})
NonEmpty(parts) == SelectSeq(parts, LAMBDA part : part # <<>>)

find_matching_delimiter(ts, open, left, right) ==
    LET Count(token, i) == Cardinality({j \in open .. i : ts[j] = token})
        closing == {i \in open .. Len(ts) : Count(left, i) = Count(right, i)}
    IN IF closing = {} THEN {} ELSE {Min(closing)}

\* Mutant: "(a);(b)" passes for wrapped.
StartsAndEndsWithParentheses(ts) == ts # <<>> /\ ts[1] = "(" /\ Last(ts) = ")"

is_wrapped_by_parentheses(ts) ==
    /\ ts # <<>>
    /\ ts[1] = "("
    /\ Last(ts) = ")"
    /\ \A i \in 2 .. Len(ts) : ~TopLevel(ts, i)
    /\ TopLevel(ts, Len(ts) + 1)

Inner(ts) == SubSeq(ts, 2, Len(ts) - 1)

RECURSIVE strip_wrapping_parentheses(_)
strip_wrapping_parentheses(ts) ==
    IF is_wrapped_by_parentheses(ts) THEN strip_wrapping_parentheses(Inner(ts)) ELSE ts

-----------------------------------------------------------------------------
(* Parsing q.                                                              *)

\* Ok(make(...)) unless a part is an error.
Try(parts, result) == IF BadRequest \in parts THEN BadRequest ELSE result

validate_name(ts) == Len(ts) = 1 /\ ts[1] \in Names

\* An unquoted literal is a name or any other text; one of several tokens is a text
\* that equals no value of an entity.
parse_query_value(ts) ==
    IF Len(ts) # 1 THEN Text("several tokens")
    ELSE IF ts[1] \in DOMAIN Literal THEN Literal[ts[1]] ELSE Text(ts[1])

parse_comparable_value(ts) ==
    LET v == parse_query_value(ts)
    IN IF v # BadRequest /\ v.k \in {"number", "string"} THEN v ELSE BadRequest

parse_equality_operand(ts) ==
    LET dots == TopLevels(ts, {".."})
        values == {parse_query_value(v) : v \in ToSet(split_top_level(ts, {","}))}
    IN IF dots # {}
       THEN LET lower == parse_comparable_value(SubSeq(ts, 1, Min(dots) - 1))
                upper == parse_comparable_value(SubSeq(ts, Min(dots) + 1, Len(ts)))
            IN Try({lower, upper}, [op |-> "range", lower |-> lower, upper |-> upper])
       ELSE Try(values, [op |-> "any of", values |-> values])

parse_regex_pattern(ts) ==
    IF Len(ts) = 1 /\ ts[1] \in DOMAIN Regex
    THEN [op |-> "regex", texts |-> Regex[ts[1]]] ELSE BadRequest

\* Empty segments are dropped, and at least one must be left.
parse_dotted_names(ts) ==
    LET segments == NonEmpty(split(ts, "."))
    IN IF segments # <<>> /\ \A i \in DOMAIN segments : validate_name(segments[i])
       THEN [op |-> "names", names |-> Map(segments, Head)] ELSE BadRequest

NoTrailing == [op |-> "none"]
AnyLanguage == [op |-> "any language"]

parse_value_path(ts) ==
    LET brackets == TopLevels(ts, {"["})
        start == Min(brackets)
        base == parse_dotted_names(IF brackets = {} THEN ts ELSE SubSeq(ts, 1, start - 1))
        trailing ==
            IF brackets = {} THEN NoTrailing
            ELSE IF find_matching_delimiter(ts, start, "[", "]") # {Len(ts)} THEN BadRequest
            ELSE LET inner == SubSeq(ts, start + 1, Len(ts) - 1)
                 IN IF inner = <<"*">> THEN AnyLanguage ELSE parse_dotted_names(inner)
    IN Try({base, trailing}, [op |-> "path", segments |-> base.names, trailing |-> trailing])

RECURSIVE parse_query_attribute(_)
parse_query_attribute(ts) ==
    LET braces == TopLevels(ts, {"{"})
        open == Min(braces)
        inner == SubSeq(ts, open + 1, Len(ts) - 1)
        colons == TopLevels(inner, {":"})
        types == IF colons = {} THEN <<>>
                 ELSE NonEmpty(split(SubSeq(inner, 1, Min(colons) - 1), ","))
        attribute == parse_query_attribute(
            IF colons = {} THEN inner ELSE SubSeq(inner, Min(colons) + 1, Len(inner)))
    IN IF ts = <<>> THEN BadRequest
       ELSE IF braces = {} THEN parse_value_path(ts)
       ELSE IF /\ validate_name(SubSeq(ts, 1, open - 1))
               /\ find_matching_delimiter(ts, open, "{", "}") = {Len(ts)}
               /\ colons # {} => types # <<>>
               /\ \A i \in DOMAIN types : validate_name(types[i])
            THEN Try({attribute}, [op |-> "linked", relation |-> ts[1],
                                   types |-> {t[1] : t \in ToSet(types)},
                                   attribute |-> attribute])
       ELSE BadRequest

Operators == {"!~=", "~=", ">=", "<=", "!=", "==", ">", "<"}

parse_operand(operator, ts) ==
    CASE ts = <<>> -> BadRequest
      [] operator \in {"==", "!="} -> parse_equality_operand(ts)
      [] operator \in {"~=", "!~="} -> parse_regex_pattern(ts)
      [] OTHER -> parse_comparable_value(ts)

RECURSIVE parse_q_or(_), parse_q_and(_), parse_q_term(_)

Existence(attribute) == Try({attribute}, [op |-> "exists", attribute |-> attribute])
Comparison(operator, attribute, operand) ==
    Try({attribute, operand}, [op |-> operator, attribute |-> attribute, operand |-> operand])

parse_q_term(ts) ==
    LET operators == TopLevels(ts, Operators)
        at == Min(operators)
    IN IF is_wrapped_by_parentheses(ts) THEN parse_q_or(Inner(ts))
       ELSE IF operators = {} THEN Existence(parse_query_attribute(ts))
       ELSE Comparison(ts[at], parse_query_attribute(SubSeq(ts, 1, at - 1)),
                       parse_operand(ts[at], SubSeq(ts, at + 1, Len(ts))))

\* Of a single part there is no group.
Group(op, parts) ==
    IF Len(parts) = 1 THEN parts[1] ELSE Try(ToSet(parts), [op |-> op, parts |-> parts])

parse_q_and(ts) ==
    Group("and", Map(split_top_level(strip_wrapping_parentheses(ts), {";"}), parse_q_term))

parse_q_or(ts) ==
    Group("or", Map(split_top_level(strip_wrapping_parentheses(ts), {"|"}), parse_q_and))


-----------------------------------------------------------------------------
(* Resolving an attribute to candidates and a candidate to target values.  *)

Kinds == {"Property", "GeoProperty", "Relationship", "ListRelationship", "LanguageProperty",
          "VocabProperty", "ListProperty", "JsonProperty"}
attribute_kind(v) ==
    LET named == Texts(get(v, "type")) \cap Kinds
    IN IF named = {} THEN "Raw" ELSE CHOOSE kind \in named : TRUE
relationship_like(kind) == kind \in {"Relationship", "ListRelationship"}

\* Of an object the member, of an array the members of its objects.
Member(v, segment) ==
    get(v, segment) \cup UNION {get(item, segment) : item \in Items(v)}
Walk(roots, segments) ==
    FoldLeft(LAMBDA vs, segment : UNION {Member(v, segment) : v \in vs}, roots, segments)
resolve_path_nodes(root, segments) == Walk({root}, segments)
traverse_member_path(seed, path) == Walk({seed}, path)

linked_entity_targets(relationship, types, options) ==
    LET Target(v) == IF v.k = "object" THEN {v}
                     ELSE {options.linked[id] : id \in Texts({v}) \cap DOMAIN options.linked}
        objects == get(relationship, "object")
        targets == UNION {Target(v) : v \in objects \cup UNION {Items(o) : o \in objects}}
    IN {target \in targets :
          types = {} \/ \E t \in types :
              \/ value_matches_string(get(target, "type"), t)
              \/ value_matches_string(get(relationship, "objectType"), t)}

RECURSIVE resolve_query_attribute(_, _, _)
resolve_query_attribute(root, attribute, options) ==
    LET Instances(segments) ==
            UNION {expand_attribute_instances(v) : v \in resolve_path_nodes(root, segments)}
    IN IF attribute.op = "path" THEN Instances(attribute.segments)
       ELSE LET relations == {v \in Instances(<<attribute.relation>>) :
                                 relationship_like(attribute_kind(v))}
                linked == UNION {linked_entity_targets(v, attribute.types, options) :
                                 v \in relations}
            IN UNION {resolve_query_attribute(v, attribute.attribute, options) : v \in linked}

RECURSIVE Innermost(_)
Innermost(attribute) ==
    IF attribute.op = "path" THEN attribute ELSE Innermost(attribute.attribute)
root_name(attribute) == Head(Innermost(attribute).segments)
trailing_path(attribute) == Innermost(attribute).trailing

RECURSIVE expand_compacted_value(_, _)
expand_compacted_value(v, terms) ==
    CASE v.k = "string" -> IF v.s \in DOMAIN terms THEN Text(terms[v.s]) ELSE v
      [] v.k = "array" -> List(Map(v.items, LAMBDA item : expand_compacted_value(item, terms)))
      [] OTHER -> v

Expanded(values, attribute, options) ==
    IF root_name(attribute) \in options.expand_values
    THEN {expand_compacted_value(v, options.terms) : v \in values} ELSE values
IsJsonKey(attribute, options) == root_name(attribute) \in options.json_keys

coerce_property_values(v, attribute, options) ==
    IF IsJsonKey(attribute, options) /\ get(v, "json") # {} THEN get(v, "json")
    ELSE Expanded(get(v, "value"), attribute, options)
coerce_vocab_values(v, attribute, options) == Expanded(get(v, "vocab"), attribute, options)
coerce_json_values(v, attribute, options) ==
    IF IsJsonKey(attribute, options) \/ get(v, "value") = {} THEN get(v, "json")
    ELSE get(v, "value")
coerce_expected_value(attribute, v, options) ==
    IF IsJsonKey(attribute, options) THEN v
    ELSE CHOOSE u \in Expanded({v}, attribute, options) : TRUE

flatten_language_value(v) == IF v.k = "array" THEN Items(v) ELSE {v}
flattened_values(values) == UNION {flatten_language_value(v) : v \in values}
LanguageMap(v) == {m \in get(v, "languageMap") : m.k = "object"}
language_map_values(v) ==
    flattened_values(UNION {{m.m[language] : language \in DOMAIN m.m} : m \in LanguageMap(v)})

seed_target_values(v, attribute, options) ==
    LET kind == attribute_kind(v) IN
    CASE kind = "Raw" -> {v}
      [] kind \in {"Property", "GeoProperty"} -> coerce_property_values(v, attribute, options)
      [] relationship_like(kind) -> get(v, "object")
      [] kind = "LanguageProperty" -> get(v, "languageMap")
      [] kind = "VocabProperty" -> coerce_vocab_values(v, attribute, options)
      [] kind = "ListProperty" -> get(v, "valueList")
      [] kind = "JsonProperty" -> coerce_json_values(v, attribute, options)

target_values_without_trailing(v, attribute, options) ==
    IF attribute_kind(v) = "LanguageProperty" THEN language_map_values(v)
    ELSE seed_target_values(v, attribute, options)

target_values_with_trailing(v, attribute, options) ==
    LET trailing == trailing_path(attribute)
        path == trailing.names
        language == attribute_kind(v) = "LanguageProperty"
        seeds == UNION {get(m, Head(path)) : m \in LanguageMap(v)}
    IN CASE trailing = AnyLanguage -> IF language THEN language_map_values(v) ELSE {}
         [] language /\ Len(path) = 1 -> flattened_values(seeds)
         [] language -> UNION {traverse_member_path(s, Tail(path)) : s \in seeds}
         [] OTHER -> UNION {traverse_member_path(s, path) :
                            s \in seed_target_values(v, attribute, options)}

target_values(v, attribute, options) ==
    IF trailing_path(attribute) = NoTrailing
    THEN target_values_without_trailing(v, attribute, options)
    ELSE target_values_with_trailing(v, attribute, options)

-----------------------------------------------------------------------------
(* Comparing.                                                              *)

values_equal(left, right) ==
    left.k = right.k /\ left.k \in {"number", "string", "bool", "array", "object"} /\ left = right
eq_value(target, expected) ==
    values_equal(target, expected) \/ \E item \in Items(target) : values_equal(item, expected)

\* Texts that are date-times, dates or times compare as such, not as texts.
comparable_scalar(v) ==
    CASE v.k = "number" -> <<"number", v.n>>
      [] v.k = "bool" -> <<"bool", IF v.b THEN 1 ELSE 0>>
      [] v.k = "string" -> Scalar[v.s]
      [] OTHER -> <<"none", 0>>
compare_query_values(left, right) ==
    LET l == comparable_scalar(left)
        r == comparable_scalar(right)
    IN IF l[1] # r[1] \/ l[1] = "none" THEN "none"
       ELSE IF l[2] < r[2] THEN "less" ELSE IF l[2] = r[2] THEN "equal" ELSE "greater"

RECURSIVE range_contains(_, _, _)
range_contains(target, lower, upper) ==
    \/ /\ compare_query_values(target, lower) \in {"greater", "equal"}
       /\ compare_query_values(target, upper) \in {"less", "equal"}
    \/ \E item \in Items(target) : range_contains(item, lower, upper)

equality_matches(v, attribute, operand, options) ==
    LET Expected(e) == coerce_expected_value(attribute, e, options)
        targets == target_values(v, attribute, options)
    IN IF operand.op = "range"
       THEN \E t \in targets : range_contains(t, Expected(operand.lower), Expected(operand.upper))
       ELSE \E t \in targets, e \in operand.values : eq_value(t, Expected(e))

\* Relationships never compare.
compare_query_attribute(root, attribute, expected, options, orderings) ==
    \E v \in resolve_query_attribute(root, attribute, options) :
        /\ ~relationship_like(attribute_kind(v))
        /\ \E t \in flattened_values(target_values(v, attribute, options)) :
             compare_query_values(t, coerce_expected_value(attribute, expected, options))
                \in orderings

pattern_matches(v, attribute, regex, options) ==
    \E t \in target_values(v, attribute, options) :
        (Texts({t}) \cup Texts(Items(t))) \cap regex.texts # {}
\* Mutant: one target that does not match is enough.
SomeDoesNotMatch(v, attribute, regex, options) ==
    \E t \in target_values(v, attribute, options) :
        (Texts({t}) \cup Texts(Items(t))) \cap regex.texts = {}

not_pattern_matches(v, attribute, regex, options) ==
    LET targets == target_values(v, attribute, options) IN
    /\ targets # {}
    /\ \A t \in targets :
         /\ t.k \in {"string", "array"}
         /\ \A item \in Items(t) : item.k = "string"
         /\ (Texts({t}) \cup Texts(Items(t))) \cap regex.texts = {}

RECURSIVE q_expression_matches(_, _, _)
q_expression_matches(e, value, options) ==
    LET candidates == resolve_query_attribute(value, e.attribute, options)
        Compare(orderings) ==
            compare_query_attribute(value, e.attribute, e.operand, options, orderings)
    IN CASE e.op = "exists" -> candidates # {}
         [] e.op = "==" ->
              \E v \in candidates : equality_matches(v, e.attribute, e.operand, options)
         [] e.op = "!=" ->
              /\ candidates # {}
              /\ \A v \in candidates : ~equality_matches(v, e.attribute, e.operand, options)
         [] e.op = ">" -> Compare({"greater"})
         [] e.op = ">=" -> Compare({"greater", "equal"})
         [] e.op = "<" -> Compare({"less"})
         [] e.op = "<=" -> Compare({"less", "equal"})
         [] e.op = "~=" ->
              \E v \in candidates : pattern_matches(v, e.attribute, e.operand, options)
         [] e.op = "!~=" ->
              /\ candidates # {}
              /\ \A v \in candidates : not_pattern_matches(v, e.attribute, e.operand, options)
         [] e.op = "and" ->
              \A i \in DOMAIN e.parts : q_expression_matches(e.parts[i], value, options)
         [] e.op = "or" ->
              \E i \in DOMAIN e.parts : q_expression_matches(e.parts[i], value, options)

RECURSIVE q_expression_uses_linked_entity(_)
q_expression_uses_linked_entity(e) ==
    IF e.op \in {"and", "or"}
    THEN \E i \in DOMAIN e.parts : q_expression_uses_linked_entity(e.parts[i])
    ELSE e.op \notin {"no filter", "bad request"} /\ e.attribute.op = "linked"

-----------------------------------------------------------------------------
(* Scopes.                                                                 *)

Wildcard == "+"
HasDescendants(ts) == Len(ts) >= 2 /\ SubSeq(ts, Len(ts) - 1, Len(ts)) = <<"/", "#">>

parse_scope_pattern(ts) ==
    LET path == IF HasDescendants(ts) THEN SubSeq(ts, 1, Len(ts) - 2) ELSE ts
        levels == NonEmpty(Tail(split(path, "/")))
    IN IF ts = <<"/", "#">> THEN [op |-> "pattern", levels |-> <<>>, descendants |-> TRUE]
       ELSE IF /\ path # <<>>
               /\ path[1] = "/"
               /\ levels # <<>>
               /\ \A i \in DOMAIN levels : levels[i] = <<Wildcard>> \/ validate_name(levels[i])
            THEN [op |-> "pattern", levels |-> Map(levels, Head),
                  descendants |-> HasDescendants(ts)]
       ELSE BadRequest

parse_scope_branch(ts) ==
    LET patterns == Map(split_top_level(Inner(ts), {";"}), parse_scope_pattern)
    IN IF ts = <<"/", "#">> THEN [op |-> "any non-empty"]
       ELSE IF is_wrapped_by_parentheses(ts)
            THEN Try(ToSet(patterns), [op |-> "and", parts |-> patterns])
       ELSE IF Len(split_top_level(ts, {";"})) > 1 THEN BadRequest
       ELSE parse_scope_pattern(ts)

parse_scope_alternatives(ts) ==
    LET parts == Map(split_top_level(ts, {"|", ","}), parse_scope_branch)
    IN Try(ToSet(parts), [op |-> "or", parts |-> parts])

scope_pattern_matches(scope, pattern) ==
    LET levels == Levels[scope]
        n == Len(pattern.levels)
    IN IF n = 0 THEN scope # ""
       ELSE /\ levels # <<>>
            /\ IF pattern.descendants THEN Len(levels) >= n ELSE Len(levels) = n
            /\ \A i \in 1 .. n : pattern.levels[i] \in {Wildcard, levels[i]}

RECURSIVE scope_expression_matches(_, _)
scope_expression_matches(e, scopes) ==
    CASE e.op = "any non-empty" -> \E scope \in scopes : scope # ""
      [] e.op = "pattern" -> \E scope \in scopes : scope_pattern_matches(scope, e)
      [] e.op = "and" ->
           \A i \in DOMAIN e.parts : scope_expression_matches(e.parts[i], scopes)
      [] e.op = "or" ->
           \E i \in DOMAIN e.parts : scope_expression_matches(e.parts[i], scopes)

-----------------------------------------------------------------------------
(* Simplifying.                                                            *)

RECURSIVE simplify_attribute_value(_)
simplify_attribute_value(v) ==
    LET Of(member) == IF get(v, member) = {} THEN Null ELSE CHOOSE u \in get(v, member) : TRUE
        kind == attribute_kind(v)
    IN CASE kind \in {"Property", "GeoProperty"} -> Of("value")
         [] relationship_like(kind) -> Of("object")
         [] kind = "LanguageProperty" -> Of("languageMap")
         [] kind = "VocabProperty" -> Of("vocab")
         [] v.k = "object" -> Object([name \in DOMAIN v.m |-> simplify_attribute_value(v.m[name])])
         [] v.k = "array" -> List(Map(v.items, simplify_attribute_value))
         [] OTHER -> v
=============================================================================
